----------------------------- MODULE PortProofs -----------------------------
(***************************************************************************)
(* Theorems about the message-port adapter, for any set of channels and    *)
(* any number of calls and foreign messages: the state is well formed, no  *)
(* frame accepted before the goodbye is lost to the teardown, and the      *)
(* teardown is the last the core hears of a peer.                          *)
(*                                                                         *)
(* The argument is a count.  In each direction of a channel, the frames    *)
(* handled, received and queued at an end never exceed those the other end *)
(* posted, and equal them as long as the end lives or holds the goodbye.   *)
(***************************************************************************)
EXTENDS Port, FiniteSets, FiniteSetTheorems, TLAPS

---------------------------------------------------------------------------
(* The frames of a sequence of messages *)

Places(s) == {i \in 1..Len(s) : s[i] \in Frames}
Count(s) == Cardinality(Places(s))

LEMMA PlacesFinite ==
  ASSUME NEW s \in Seq(Msgs)
  PROVE  IsFiniteSet(Places(s)) /\ Count(s) \in Nat
<1>1. IsFiniteSet(1..Len(s)) /\ Places(s) \subseteq 1..Len(s)
  BY FS_Interval DEF Places
<1> QED
  BY <1>1, FS_Subset, FS_CardinalityType DEF Count

LEMMA CountEmpty == Count(<<>>) = 0
<1>1. Places(<<>>) = {}
  BY DEF Places
<1> QED
  BY <1>1, FS_EmptySet DEF Count

LEMMA CountAppend ==
  ASSUME NEW s \in Seq(Msgs), NEW m \in Msgs
  PROVE  Count(Append(s, m)) = IF m \in Frames THEN Count(s) + 1 ELSE Count(s)
<1> DEFINE n == Len(s) + 1
<1>1. IsFiniteSet(Places(s)) /\ n \notin Places(s)
  BY SMTT(30), PlacesFinite DEF Places
<1>2. CASE m \in Frames
  <2>1. Places(Append(s, m)) = Places(s) \cup {n}
    BY <1>2 DEF Places
  <2> QED
    BY Zenon, <1>1, <1>2, <2>1, FS_AddElement DEF Count
<1>3. CASE m \notin Frames
  <2>1. Places(Append(s, m)) = Places(s)
    BY <1>3 DEF Places
  <2> QED
    BY <1>3, <2>1 DEF Count
<1> QED
  BY <1>2, <1>3

LEMMA CountTail ==
  ASSUME NEW s \in Seq(Msgs), s # <<>>
  PROVE  Count(s) = IF Head(s) \in Frames THEN Count(Tail(s)) + 1 ELSE Count(Tail(s))
<1> DEFINE L == Places(s) \ {1}
           up(i) == i + 1
           f == [i \in Places(Tail(s)) |-> i + 1]
<1>1. /\ Len(s) \in Nat /\ Len(s) >= 1 /\ Len(Tail(s)) = Len(s) - 1
      /\ Tail(s) \in Seq(Msgs)
      /\ \A i \in 1..Len(Tail(s)) : Tail(s)[i] = s[i + 1]
      /\ Head(s) = s[1]
  OBVIOUS
<1>2. \A i \in Places(Tail(s)) : i \in Nat /\ i + 1 \in L
  BY <1>1 DEF Places
<1>3. \A j \in L : j - 1 \in Places(Tail(s)) /\ (j - 1) + 1 = j
  <2> SUFFICES ASSUME NEW j \in L PROVE j - 1 \in Places(Tail(s)) /\ (j - 1) + 1 = j
    OBVIOUS
  <2>1. j \in 2..Len(s) /\ s[j] \in Frames
    BY <1>1 DEF Places
  <2>2. j - 1 \in 1..Len(Tail(s)) /\ (j - 1) + 1 = j
    BY <1>1, <2>1
  <2>3. Tail(s)[j - 1] = s[j]
    BY <1>1, <2>2
  <2> QED
    BY <2>1, <2>2, <2>3 DEF Places
<1>4. f \in Bijection(Places(Tail(s)), L)
  <2>1. f \in [Places(Tail(s)) -> L]
    BY <1>2
  <2>2. \A a, b \in Places(Tail(s)) : f[a] = f[b] => a = b
    BY <1>2
  <2>3. \A j \in L : \E a \in Places(Tail(s)) : f[a] = j
    BY <1>3
  <2> QED
    BY <2>1, <2>2, <2>3 DEF Bijection, Injection, Surjection, IsInjective
<1>5. IsFiniteSet(Places(Tail(s))) /\ IsFiniteSet(Places(s))
  BY Zenon, <1>1, PlacesFinite
<1>6. Cardinality(L) = Count(Tail(s))
  BY <1>4, <1>5, FS_Bijection DEF Count, ExistsBijection
<1>7. Cardinality(L) = IF 1 \in Places(s) THEN Count(s) - 1 ELSE Count(s)
  BY Zenon, <1>5, FS_RemoveElement DEF Count
<1>8. 1 \in Places(s) <=> Head(s) \in Frames
  BY <1>1 DEF Places
<1>9. Count(s) \in Nat /\ Count(Tail(s)) \in Nat
  BY Zenon, <1>1, PlacesFinite
<1> QED
  BY <1>6, <1>7, <1>8, <1>9

---------------------------------------------------------------------------
(* One direction of a channel, and one end *)

\* What the other end may send to e.
MsgTo(e) == IF e = "page" THEN {"term", "junk", "bye"} ELSE {"open", "junk", "bye"}

HasBye(s) == \E i \in 1..Len(s) : s[i] = "bye"

\* The receiving end p with its queue q, and the sending end o that posted n
\* frames: no frame is made up, none is lost while p is alive or holds the
\* goodbye, and nothing follows a goodbye.
Joint(e, p, q, o, n) ==
  /\ p \in PortObject /\ p.rx \in Seq(MsgTo(e)) /\ q \in Seq(MsgTo(e)) /\ n \in Nat
  /\ p.got + Count(p.rx) + Count(q) <= n
  /\ ~p.dead \/ HasBye(p.rx) => p.got + Count(p.rx) + Count(q) = n
  /\ \A i \in 1..Len(p.rx) : p.rx[i] = "bye" => i = Len(p.rx) /\ q = <<>> /\ o.said
  /\ \A i \in 1..Len(q) : q[i] = "bye" => i = Len(q) /\ o.said
  /\ p.heard => p.dead /\ p.rx = <<>> /\ o.said /\ p.got = n
  /\ p.pump = "done" => p.dead /\ p.rx = <<>>

Own(e, p) ==
  /\ p.said => p.closed
  /\ p.closed => p.dead
  /\ p.torn => p.live = 0
  /\ e = "page" => p.live <= p.opened
  /\ e = "server" => p.live <= p.got /\ (p.torn => p.pump = "done")

\* The two directions, the two ends, and how far the gateway is with the channel.
ChanInv(c) ==
  /\ \A e \in End :
       /\ Joint(e, ends[c][e], queue[c][e], ends[c][Other(e)], posted[c][Other(e)])
       /\ Own(e, ends[c][e])
  /\ reg[c] \in {"new", "handed", "bound"} => ends[c]["server"].pump = "off"
  /\ posted[c]["page"] <= ends[c]["page"].opened

PortInv ==
  /\ ends \in [Chan -> [End -> PortObject]]
  /\ queue \in [Chan -> [End -> Seq(Msgs)]]
  /\ reg \in [Chan -> {"new", "handed", "bound", "served", "dropped"}]
  /\ posted \in [Chan -> [End -> Nat]]
  /\ \A c \in Chan : ChanInv(c)

LEMMA MsgsTo ==
  ASSUME NEW e, NEW s \in Seq(MsgTo(e))
  PROVE  /\ s \in Seq(Msgs) /\ Count(s) \in Nat
         /\ \A i \in 1..Len(s) : s[i] \in MsgTo(e)
         /\ s # <<>> => Head(s) \in MsgTo(e) /\ Tail(s) \in Seq(MsgTo(e)) /\ Head(s) = s[1]
<1>1. MsgTo(e) \subseteq Msgs
  BY DEF MsgTo, Msgs, Frames
<1>2. s \in Seq(Msgs)
  BY <1>1
<1> QED
  BY <1>2, PlacesFinite

\* Fields that the direction does not look at may change, and an end may die.
LEMMA JointKept ==
  ASSUME NEW e, NEW p, NEW q, NEW o, NEW n, Joint(e, p, q, o, n),
         NEW p2 \in PortObject, NEW o2,
         p2.rx = p.rx, p2.got = p.got, p2.heard = p.heard, p.dead => p2.dead,
         p2.pump = "done" => p.pump = "done", o.said => o2.said
  PROVE  Joint(e, p2, q, o2, n)
  BY DEF Joint

LEMMA JointPost ==
  ASSUME NEW e, NEW p, NEW q, NEW o, NEW n, Joint(e, p, q, o, n),
         NEW o2, ~o.said, NEW m \in MsgTo(e), m \in Frames, NEW q2,
         q2 = Append(q, m) \/ (p.dead /\ q2 = q)
  PROVE  Joint(e, p, q2, o2, n + 1)
<1>1. /\ Count(q) \in Nat /\ Count(p.rx) \in Nat /\ q \in Seq(Msgs) /\ m \in Msgs
      /\ p.got \in Nat /\ n \in Nat
  BY MsgsTo DEF Joint, PortObject, Msgs
<1>2. ~HasBye(p.rx) /\ ~p.heard /\ \A i \in 1..Len(q) : q[i] # "bye"
  BY DEF Joint, HasBye
<1>3. m # "bye"
  BY DEF Frames
<1>4. CASE q2 = q
  BY <1>1, <1>2, <1>4 DEF Joint, HasBye
<1>5. CASE q2 = Append(q, m)
  <2>1. Count(q2) = Count(q) + 1
    BY <1>1, <1>5, CountAppend
  <2>2. q2 \in Seq(MsgTo(e)) /\ \A i \in 1..Len(q2) : q2[i] # "bye"
    BY <1>2, <1>3, <1>5 DEF Joint
  <2>3. p.got + Count(p.rx) + Count(q) <= n => p.got + Count(p.rx) + Count(q2) <= n + 1
    BY <1>1, <2>1
  <2>4. p.got + Count(p.rx) + Count(q) = n => p.got + Count(p.rx) + Count(q2) = n + 1
    BY SMTT(30), <1>1, <2>1
  <2> QED
    BY SMTT(30), <1>1, <1>2, <2>2, <2>3, <2>4 DEF Joint, HasBye
<1> QED
  BY <1>4, <1>5

\* Something that is no frame: a foreign message, or the goodbye of an end that
\* had not said it.
LEMMA JointOther ==
  ASSUME NEW e, NEW p, NEW q, NEW o, NEW n, Joint(e, p, q, o, n),
         NEW o2, ~o.said, NEW m, m = "junk" \/ (m = "bye" /\ o2.said), NEW q2,
         q2 = Append(q, m) \/ q2 = q
  PROVE  Joint(e, p, q2, o2, n)
<1>1. /\ Count(q) \in Nat /\ q \in Seq(Msgs) /\ m \in Msgs /\ m \in MsgTo(e)
      /\ m \notin Frames
  BY Zenon, MsgsTo DEF Joint, Msgs, Frames, MsgTo
<1>2. ~HasBye(p.rx) /\ ~p.heard /\ \A i \in 1..Len(q) : q[i] # "bye"
  BY DEF Joint, HasBye
<1>3. CASE q2 = q
  BY <1>2, <1>3 DEF Joint, HasBye
<1>4. CASE q2 = Append(q, m)
  <2>1. Count(q2) = Count(q)
    BY <1>1, <1>4, CountAppend
  <2>2. /\ q2 \in Seq(MsgTo(e))
        /\ \A i \in 1..Len(q2) : q2[i] = "bye" => i = Len(q2) /\ o2.said
    BY <1>1, <1>2, <1>4 DEF Joint
  <2> QED
    BY <1>2, <2>1, <2>2 DEF Joint, HasBye
<1> QED
  BY <1>3, <1>4

\* Closing discards the queue of this end.
LEMMA JointHush ==
  ASSUME NEW e, NEW p, NEW q, NEW o, NEW n, Joint(e, p, q, o, n), p.dead
  PROVE  Joint(e, p, <<>>, o, n)
<1>1. /\ Count(q) \in Nat /\ Count(p.rx) \in Nat /\ p.got \in Nat /\ n \in Nat
  BY MsgsTo DEF Joint, PortObject
<1>2. HasBye(p.rx) => q = <<>>
  BY DEF Joint, HasBye
<1>3. p.got + Count(p.rx) + Count(<<>>) <= n
  BY <1>1, CountEmpty DEF Joint
<1> QED
  BY <1>2, <1>3 DEF Joint

LEMMA NoneLeft ==
  ASSUME NEW S, NEW s \in Seq(S), Len(s) = 0 PROVE s = <<>>
  OBVIOUS

LEMMA TailEnd ==
  ASSUME NEW S, NEW s \in Seq(S), s # <<>>, NEW i \in 1..Len(Tail(s)), i + 1 = Len(s)
  PROVE  i = Len(Tail(s))
  OBVIOUS

\* ... and of a sequence that grows.
LEMMA NewEnd ==
  ASSUME NEW S, NEW s \in Seq(S), NEW m \in S, NEW i \in 1..Len(Append(s, m)), i \notin 1..Len(s)
  PROVE  i = Len(Append(s, m)) /\ Append(s, m)[i] = m
  OBVIOUS

LEMMA OldPlace ==
  ASSUME NEW S, NEW s \in Seq(S), NEW m \in S, NEW i \in 1..Len(s) PROVE Append(s, m)[i] = s[i]
  OBVIOUS

LEMMA LastTail ==
  ASSUME NEW S, NEW s \in Seq(S), Len(s) = 1 PROVE Tail(s) = <<>>
<1>1. s # <<>>
  OBVIOUS
<1>2. Tail(s) \in Seq(S) /\ Len(Tail(s)) = 0
  BY <1>1
<1> QED
  BY Zenon, <1>2, NoneLeft

LEMMA JointReceive ==
  ASSUME NEW e, NEW p, NEW q, NEW o, NEW n, Joint(e, p, q, o, n), q # <<>>,
         NEW p2, p2 = received(p, Head(q))
  PROVE  Joint(e, p2, Tail(q), o, n)
<1>0. p \in PortObject /\ p.rx \in Seq(MsgTo(e)) /\ q \in Seq(MsgTo(e))
  BY DEF Joint
<1>1. /\ q \in Seq(Msgs) /\ Tail(q) \in Seq(MsgTo(e)) /\ Head(q) \in MsgTo(e) /\ Head(q) = q[1]
      /\ Count(q) \in Nat /\ Count(p.rx) \in Nat /\ Count(Tail(q)) \in Nat /\ p.got \in Nat
      /\ n \in Nat /\ p.rx \in Seq(Msgs) /\ Head(q) \in Msgs
  BY Zenon, <1>0, MsgsTo DEF Joint, PortObject, MsgTo, Msgs, Frames
<1>2. Count(q) = IF Head(q) \in Frames THEN Count(Tail(q)) + 1 ELSE Count(Tail(q))
  BY <1>1, CountTail
<1>3. \A i \in 1..Len(Tail(q)) : Tail(q)[i] = "bye" => i = Len(Tail(q)) /\ o.said
  <2> SUFFICES ASSUME NEW i \in 1..Len(Tail(q)), Tail(q)[i] = "bye"
               PROVE  i = Len(Tail(q)) /\ o.said
    OBVIOUS
  <2>1. /\ i + 1 \in 1..Len(q) /\ q[i + 1] = "bye" /\ Len(Tail(q)) = Len(q) - 1
        /\ Len(q) \in Nat /\ i \in Nat
    BY <1>0
  <2>2. i + 1 = Len(q)
    BY Zenon, <2>1 DEF Joint
  <2>3. o.said
    BY Zenon, <2>1 DEF Joint
  <2>4. i = Len(Tail(q))
    BY <1>0, <2>2, TailEnd
  <2> QED
    BY <2>3, <2>4
<1>4. CASE p.dead
  <2>1. ~HasBye(p.rx)
    BY DEF Joint, HasBye
  <2>2. p.got + Count(p.rx) + Count(Tail(q)) <= n
    <3>1. p.got + Count(p.rx) + Count(q) <= n
      BY DEF Joint
    <3>2. Count(Tail(q)) <= Count(q)
      BY <1>1, <1>2
    <3> QED
      BY <1>1, <3>1, <3>2
  <2>3. \A i \in 1..Len(p.rx) : p.rx[i] # "bye"
    BY <2>1 DEF HasBye
  <2> QED
    BY <1>1, <1>3, <1>4, <2>1, <2>2, <2>3 DEF Joint, received
<1>5. CASE ~p.dead
  <2>1. /\ p2.rx = Append(p.rx, Head(q)) /\ p2.got = p.got /\ p2.heard = p.heard
        /\ p2.dead = p.dead /\ p2.pump = p.pump
    BY <1>0, <1>5 DEF PortObject, received
  <2>2. p2 \in PortObject /\ p2.rx \in Seq(MsgTo(e))
    <3>1. Append(p.rx, Head(q)) \in Seq(Msgs) /\ Append(p.rx, Head(q)) \in Seq(MsgTo(e))
      BY <1>0, <1>1
    <3> QED
      BY Zenon, <1>0, <1>5, <3>1 DEF PortObject, received
  <2>3. Count(p2.rx) = IF Head(q) \in Frames THEN Count(p.rx) + 1 ELSE Count(p.rx)
    BY Zenon, <1>1, <2>1, CountAppend
  <2>4. p.got + Count(p.rx) + Count(q) = n
    BY <1>5 DEF Joint
  <2>5. p2.got + Count(p2.rx) + Count(Tail(q)) = n
    <3> DEFINE a == Count(p2.rx)
               b == Count(Tail(q))
               x == Count(p.rx)
               y == Count(q)
    <3>1. a \in Nat /\ b \in Nat /\ x \in Nat /\ y \in Nat /\ a + b = x + y
      BY SMTT(30), <1>1, <1>2, <2>3
    <3>2. p2.got \in Nat /\ p2.got + x + y = n
      BY <1>1, <2>1, <2>4
    <3> HIDE DEF a, b, x, y
    <3>3. p2.got + a + b = n
      BY <3>1, <3>2
    <3> QED
      BY <3>3 DEF a, b
  <2>6. \A i \in 1..Len(p.rx) : p.rx[i] # "bye"
    BY DEF Joint
  <2>7. Head(q) = "bye" => Tail(q) = <<>> /\ o.said
    <3> SUFFICES ASSUME Head(q) = "bye" PROVE Tail(q) = <<>> /\ o.said
      OBVIOUS
    <3>1. 1 \in 1..Len(q) /\ q[1] = "bye"
      BY <1>0, <1>1
    <3>2. Len(q) = 1 /\ o.said
      BY Zenon, <3>1 DEF Joint
    <3> QED
      BY <1>0, <3>2, LastTail
  <2>8. \A i \in 1..Len(p2.rx) : p2.rx[i] = "bye" => i = Len(p2.rx) /\ Tail(q) = <<>> /\ o.said
    <3> SUFFICES ASSUME NEW i \in 1..Len(p2.rx), p2.rx[i] = "bye"
                 PROVE  i = Len(p2.rx) /\ Tail(q) = <<>> /\ o.said
      OBVIOUS
    <3>1. CASE i \in 1..Len(p.rx)
      <4>1. Append(p.rx, Head(q))[i] = p.rx[i]
        BY <1>0, <1>1, <3>1, OldPlace
      <4>2. p2.rx[i] = p.rx[i]
        BY <2>1, <4>1
      <4> QED
        BY <2>6, <3>1, <4>2
    <3>2. CASE i \notin 1..Len(p.rx)
      <4>1. i = Len(p2.rx) /\ p2.rx[i] = Head(q)
        BY SMTT(30), <1>0, <1>1, <2>1, <3>2, NewEnd
      <4> QED
        BY <2>7, <4>1
    <3> QED
      BY <3>1, <3>2
  <2>9. ~p.heard /\ p.pump # "done"
    BY <1>5 DEF Joint
  <2> QED
    BY <1>1, <1>3, <2>1, <2>2, <2>5, <2>8, <2>9 DEF Joint
<1> QED
  BY <1>4, <1>5

LEMMA PumpedFields ==
  ASSUME NEW e, NEW p \in PortObject, p.rx \in Seq(MsgTo(e)), NEW p2, p2 = pumped(p)
  PROVE  /\ p2 \in PortObject
         /\ p2.said = p.said /\ p2.closed = p.closed /\ p2.torn = p.torn
         /\ p2.opened = p.opened
         /\ ~(p.rx # <<>>) => /\ p2.rx = p.rx /\ p2.dead = p.dead /\ p2.heard = p.heard
                           /\ p2.got = p.got /\ p2.live = p.live /\ p2.pump = "done"
         /\ p.rx # <<>> /\ Head(p.rx) = "bye" =>
              /\ p2.rx = Tail(p.rx) /\ p2.dead /\ p2.heard /\ p2.got = p.got
              /\ p2.live = p.live /\ p2.pump = "done"
         /\ p.rx # <<>> /\ Head(p.rx) = "junk" =>
              /\ p2.rx = Tail(p.rx) /\ p2.dead = p.dead /\ p2.heard = p.heard
              /\ p2.got = p.got /\ p2.live = p.live /\ p2.pump = p.pump
         /\ p.rx # <<>> /\ Head(p.rx) \in Frames =>
              /\ p2.rx = Tail(p.rx) /\ p2.dead = p.dead /\ p2.heard = p.heard
              /\ p2.got = p.got + 1 /\ p2.pump = "busy"
              /\ Head(p.rx) = "open" => p2.live = p.live + 1
              /\ Head(p.rx) = "term" => p2.live = IF p.live > 0 THEN p.live - 1 ELSE p.live
<1>1. CASE p.rx = <<>>
  BY <1>1 DEF pumped, PortObject
<1>2. CASE p.rx # <<>>
  <2>1. Head(p.rx) \in MsgTo(e) /\ Tail(p.rx) \in Seq(Msgs) /\ p.rx \in Seq(Msgs)
    BY <1>2, MsgsTo DEF PortObject
  <2>2. CASE Head(p.rx) = "bye"
    BY Zenon, <1>2, <2>1, <2>2 DEF pumped, PortObject, fail, Frames
  <2>3. CASE Head(p.rx) = "junk"
    BY Zenon, <1>2, <2>1, <2>3 DEF pumped, PortObject, Frames
  <2>4. CASE Head(p.rx) = "open"
    <3> DEFINE g == p.got + 1
               l == p.live + 1
    <3>1. p2 = [p EXCEPT !.pump = "busy", !.rx = Tail(p.rx), !.got = g, !.live = l]
      BY Zenon, <1>2, <2>4 DEF pumped, PortObject, Handled
    <3>2. l \in Nat /\ g \in Nat
      BY DEF PortObject
    <3> HIDE DEF l, g
    <3>3. /\ p2 \in PortObject /\ p2.live = l
          /\ p2.said = p.said /\ p2.closed = p.closed /\ p2.torn = p.torn
          /\ p2.opened = p.opened
          /\ p2.rx = Tail(p.rx) /\ p2.dead = p.dead /\ p2.heard = p.heard
          /\ p2.got = g /\ p2.pump = "busy"
      BY ZenonT(40), <2>1, <3>1, <3>2 DEF PortObject
    <3> QED
      BY <1>2, <2>4, <3>3 DEF l, g
  <2>5. CASE Head(p.rx) = "term"
    <3> DEFINE g == p.got + 1
               l == IF p.live > 0 THEN p.live - 1 ELSE p.live
    <3>1. p2 = [p EXCEPT !.pump = "busy", !.rx = Tail(p.rx), !.got = g, !.live = l]
      BY Zenon, <1>2, <2>5 DEF pumped, PortObject, Handled
    <3>2. l \in Nat /\ g \in Nat
      BY DEF PortObject
    <3> HIDE DEF l, g
    <3>3. /\ p2 \in PortObject /\ p2.live = l
          /\ p2.said = p.said /\ p2.closed = p.closed /\ p2.torn = p.torn
          /\ p2.opened = p.opened
          /\ p2.rx = Tail(p.rx) /\ p2.dead = p.dead /\ p2.heard = p.heard
          /\ p2.got = g /\ p2.pump = "busy"
      BY ZenonT(40), <2>1, <3>1, <3>2 DEF PortObject
    <3> QED
      BY <1>2, <2>5, <3>3 DEF l, g
  <2> QED
    BY <2>1, <2>2, <2>3, <2>4, <2>5 DEF MsgTo
<1> QED
  BY <1>1, <1>2

LEMMA JointPump ==
  ASSUME NEW e, NEW p, NEW q, NEW o, NEW n, Joint(e, p, q, o, n), p.rx # <<>> \/ p.dead,
         p.pump = "on"
  PROVE  Joint(e, pumped(p), q, o, n)
<1> DEFINE p2 == pumped(p)
<1>0. p \in PortObject /\ p.rx \in Seq(MsgTo(e)) /\ q \in Seq(MsgTo(e))
  BY DEF Joint
<1>1. /\ p2 \in PortObject
      /\ p.rx = <<>> => /\ p2.rx = p.rx /\ p2.dead = p.dead /\ p2.heard = p.heard
                        /\ p2.got = p.got /\ p2.pump = "done"
      /\ p.rx # <<>> /\ Head(p.rx) = "bye" =>
           /\ p2.rx = Tail(p.rx) /\ p2.dead /\ p2.heard /\ p2.got = p.got /\ p2.pump = "done"
      /\ p.rx # <<>> /\ Head(p.rx) = "junk" =>
           /\ p2.rx = Tail(p.rx) /\ p2.dead = p.dead /\ p2.heard = p.heard
           /\ p2.got = p.got /\ p2.pump = p.pump
      /\ p.rx # <<>> /\ Head(p.rx) \in Frames =>
           /\ p2.rx = Tail(p.rx) /\ p2.dead = p.dead /\ p2.heard = p.heard
           /\ p2.got = p.got + 1 /\ p2.pump = "busy"
  BY <1>0, PumpedFields
<1> SUFFICES Joint(e, p2, q, o, n)
  OBVIOUS
<1> HIDE DEF p2
<1>2. CASE p.rx = <<>>
  BY Zenon, <1>1, <1>2 DEF Joint
<1>3. CASE p.rx # <<>>
  <2>1. /\ Tail(p.rx) \in Seq(MsgTo(e)) /\ Head(p.rx) \in MsgTo(e) /\ Head(p.rx) = p.rx[1]
        /\ Count(q) \in Nat /\ Count(p.rx) \in Nat /\ Count(Tail(p.rx)) \in Nat
        /\ p.got \in Nat /\ n \in Nat /\ ~p.heard /\ p.pump # "done" /\ p.rx \in Seq(Msgs)
    BY Zenon, <1>0, <1>3, MsgsTo DEF Joint, PortObject
  <2>2. Count(p.rx) = IF Head(p.rx) \in Frames THEN Count(Tail(p.rx)) + 1
                      ELSE Count(Tail(p.rx))
    BY <1>3, <2>1, CountTail
  <2>3. ASSUME NEW i \in 1..Len(Tail(p.rx)), Tail(p.rx)[i] = "bye"
        PROVE  i = Len(Tail(p.rx)) /\ q = <<>> /\ o.said /\ HasBye(p.rx)
    <3>1. i + 1 \in 1..Len(p.rx) /\ p.rx[i + 1] = "bye" /\ Len(Tail(p.rx)) = Len(p.rx) - 1
      BY <1>0, <1>3, <2>3
    <3>2. i + 1 = Len(p.rx) /\ q = <<>> /\ o.said
      BY <3>1 DEF Joint
    <3> QED
      BY <1>0, <3>1, <3>2 DEF HasBye
  <2>4. HasBye(Tail(p.rx)) => HasBye(p.rx)
    BY <2>3 DEF HasBye
  <2>5. CASE Head(p.rx) = "bye"
    <3>1. 1 \in 1..Len(p.rx) /\ p.rx[1] = "bye"
      BY <1>0, <1>3, <2>1, <2>5
    <3>2. Len(p.rx) = 1 /\ q = <<>> /\ o.said /\ HasBye(p.rx)
      BY Zenon, <3>1 DEF Joint, HasBye
    <3>3. Tail(p.rx) = <<>>
      BY <1>0, <3>2, LastTail
    <3>4. p.got + Count(p.rx) + Count(q) = n /\ Count(q) = 0 /\ Count(p.rx) = 0
      BY Zenon, <2>2, <2>5, <3>2, <3>3, CountEmpty DEF Joint, Frames
    <3>5. p.got = n
      BY <2>1, <3>4
    <3>6. p2.got + Count(p2.rx) + Count(q) = n
      BY Zenon, <1>1, <1>3, <2>1, <2>5, <3>3, <3>4, <3>5, CountEmpty
    <3> QED
      BY Zenon, <1>1, <1>3, <2>1, <2>5, <3>2, <3>3, <3>5, <3>6 DEF Joint
  <2>6. CASE Head(p.rx) # "bye"
    <3>1. Head(p.rx) = "junk" \/ Head(p.rx) \in Frames
      BY <2>1, <2>6 DEF MsgTo, Frames
    <3>2. /\ p2.rx = Tail(p.rx) /\ p2.dead = p.dead /\ p2.heard = p.heard /\ p2.pump # "done"
          /\ p2.got + Count(Tail(p.rx)) = p.got + Count(p.rx) /\ p2.got \in Nat
      <4>1. "junk" \notin Frames
        BY DEF Frames
      <4>2. CASE Head(p.rx) = "junk"
        BY <1>1, <1>3, <2>1, <2>2, <4>1, <4>2
      <4>3. CASE Head(p.rx) \in Frames
        <5>1. /\ p2.rx = Tail(p.rx) /\ p2.dead = p.dead /\ p2.heard = p.heard
              /\ p2.pump = "busy" /\ p2.got = p.got + 1
          BY <1>1, <1>3, <4>3
        <5>2. Count(p.rx) = Count(Tail(p.rx)) + 1
          BY <2>2, <4>3
        <5> QED
          BY <2>1, <5>1, <5>2
      <4> QED
        BY <3>1, <4>2, <4>3
    <3>3. p2.got + Count(p2.rx) + Count(q) = p.got + Count(p.rx) + Count(q)
      BY <2>1, <3>2
    <3> QED
      BY Zenon, <1>0, <1>1, <2>1, <2>3, <2>4, <3>2, <3>3 DEF Joint
  <2> QED
    BY <2>5, <2>6
<1> QED
  BY <1>2, <1>3

---------------------------------------------------------------------------
(* The steps *)

\* A step that changes one end of the channel c.
LEMMA ChanStep ==
  ASSUME PortInv, NEW c \in Chan, NEW e \in End, NEW p2 \in PortObject,
         ends'[c] = [ends[c] EXCEPT ![e] = p2],
         Joint(e, p2, queue'[c][e], ends[c][Other(e)], posted'[c][Other(e)]),
         Joint(Other(e), ends[c][Other(e)], queue'[c][Other(e)], p2, posted'[c][e]),
         Own(e, p2),
         reg'[c] \in {"new", "handed", "bound"} =>
           IF e = "server" THEN p2.pump = "off" ELSE reg[c] \in {"new", "handed", "bound"},
         posted'[c]["page"] <= (IF e = "page" THEN p2 ELSE ends[c]["page"]).opened
  PROVE  ChanInv(c)'
<1>1. Other(e) \in End /\ Other(e) # e /\ Other(Other(e)) = e
      /\ \A x \in End : x = e \/ x = Other(e)
  BY DEF End, Other
<1>2. ends'[c][e] = p2 /\ ends'[c][Other(e)] = ends[c][Other(e)]
  BY <1>1 DEF PortInv
<1>3. Own(Other(e), ends[c][Other(e)])
  BY <1>1 DEF PortInv, ChanInv
<1>4. \A x \in End :
        /\ Joint(x, ends'[c][x], queue'[c][x], ends'[c][Other(x)], posted'[c][Other(x)])
        /\ Own(x, ends'[c][x])
  BY <1>1, <1>2, <1>3
<1>5. reg'[c] \in {"new", "handed", "bound"} => ends'[c]["server"].pump = "off"
  BY <1>1, <1>2 DEF PortInv, ChanInv, End, Other
<1>6. posted'[c]["page"] <= ends'[c]["page"].opened
  BY <1>1, <1>2 DEF End, Other
<1> QED
  BY <1>4, <1>5, <1>6 DEF ChanInv

\* ... and no other channel.
LEMMA OneChan ==
  ASSUME PortInv, NEW c \in Chan, NEW e \in End, NEW p2 \in PortObject,
         ends' = [ends EXCEPT ![c][e] = p2],
         reg' \in [Chan -> {"new", "handed", "bound", "served", "dropped"}],
         queue' \in [Chan -> [End -> Seq(Msgs)]], posted' \in [Chan -> [End -> Nat]],
         \A d \in Chan : d # c => reg'[d] = reg[d] /\ queue'[d] = queue[d] /\ posted'[d] = posted[d],
         ends'[c] = [ends[c] EXCEPT ![e] = p2] => ChanInv(c)'
  PROVE  PortInv'
<1>1. /\ ends' \in [Chan -> [End -> PortObject]] /\ ends'[c] = [ends[c] EXCEPT ![e] = p2]
      /\ \A d \in Chan : d # c => ends'[d] = ends[d]
  BY DEF PortInv
<1>2. \A d \in Chan : d # c => ChanInv(d)'
  BY Zenon, <1>1 DEF PortInv, ChanInv
<1> QED
  BY <1>1, <1>2 DEF PortInv

LEMMA OneEnd ==
  ASSUME PortInv, NEW c \in Chan, NEW e \in End, NEW p2 \in PortObject,
         ends' = [ends EXCEPT ![c][e] = p2],
         reg' \in [Chan -> {"new", "handed", "bound", "served", "dropped"}],
         queue' \in [Chan -> [End -> Seq(Msgs)]], posted' \in [Chan -> [End -> Nat]],
         \A d \in Chan : d # c => reg'[d] = reg[d] /\ queue'[d] = queue[d] /\ posted'[d] = posted[d],
         Joint(e, p2, queue'[c][e], ends[c][Other(e)], posted'[c][Other(e)]),
         Joint(Other(e), ends[c][Other(e)], queue'[c][Other(e)], p2, posted'[c][e]),
         Own(e, p2),
         reg'[c] \in {"new", "handed", "bound"} =>
           IF e = "server" THEN p2.pump = "off" ELSE reg[c] \in {"new", "handed", "bound"},
         posted'[c]["page"] <= (IF e = "page" THEN p2 ELSE ends[c]["page"]).opened
  PROVE  PortInv'
<1>1. ends'[c] = [ends[c] EXCEPT ![e] = p2] => ChanInv(c)'
  BY Zenon, ChanStep
<1> QED
  BY Zenon, <1>1, OneChan

\* What a state gives about one end.
LEMMA EndFacts ==
  ASSUME PortInv, NEW c \in Chan, NEW e \in End
  PROVE  /\ Other(e) \in End /\ Other(Other(e)) = e /\ Other(e) # e
         /\ ends[c][e] \in PortObject
         /\ Joint(e, ends[c][e], queue[c][e], ends[c][Other(e)], posted[c][Other(e)])
         /\ Joint(Other(e), ends[c][Other(e)], queue[c][Other(e)], ends[c][e], posted[c][e])
         /\ Own(e, ends[c][e])
         /\ posted[c]["page"] <= ends[c]["page"].opened
         /\ posted[c] \in [End -> Nat]
         /\ queue[c] \in [End -> Seq(Msgs)]
<1>1. Other(e) \in End /\ Other(Other(e)) = e /\ Other(e) # e
  BY DEF Other, End
<1> QED
  BY <1>1 DEF PortInv, ChanInv

\* ... and nothing is posted.
LEMMA QuietEnd ==
  ASSUME PortInv, NEW c \in Chan, NEW e \in End, NEW p2 \in PortObject,
         ends' = [ends EXCEPT ![c][e] = p2], UNCHANGED <<queue, reg, posted>>,
         p2.rx = ends[c][e].rx, p2.got = ends[c][e].got, p2.heard = ends[c][e].heard,
         ends[c][e].dead => p2.dead, p2.pump = "done" => ends[c][e].pump = "done",
         ends[c][e].said => p2.said, p2.opened >= ends[c][e].opened,
         reg[c] \in {"new", "handed", "bound"} /\ e = "server" => p2.pump = "off",
         Own(e, p2)
  PROVE  PortInv'
<1> DEFINE p == ends[c][e]
<1>1. /\ Other(e) \in End /\ Other(Other(e)) = e /\ p \in PortObject
      /\ Joint(e, p, queue[c][e], ends[c][Other(e)], posted[c][Other(e)])
      /\ Joint(Other(e), ends[c][Other(e)], queue[c][Other(e)], p, posted[c][e])
      /\ posted[c]["page"] <= ends[c]["page"].opened
  BY EndFacts
<1>2. Joint(e, p2, queue[c][e], ends[c][Other(e)], posted[c][Other(e)])
  BY <1>1, JointKept
<1>3. Joint(Other(e), ends[c][Other(e)], queue[c][Other(e)], p2, posted[c][e])
  <2>1. ends[c][Other(e)] \in PortObject
    BY <1>1 DEF PortInv
  <2> QED
    BY <1>1, <2>1, JointKept
<1>4. posted[c]["page"] <= (IF e = "page" THEN p2 ELSE ends[c]["page"]).opened
  <2>1. posted[c]["page"] \in Nat /\ p.opened \in Nat /\ p2.opened \in Nat
    BY ZenonT(40), <1>1 DEF PortInv, PortObject, End
  <2> QED
    BY <1>1, <2>1
<1>5. /\ reg' \in [Chan -> {"new", "handed", "bound", "served", "dropped"}]
      /\ queue' \in [Chan -> [End -> Seq(Msgs)]] /\ posted' \in [Chan -> [End -> Nat]]
      /\ \A d \in Chan : d # c => reg'[d] = reg[d] /\ queue'[d] = queue[d] /\ posted'[d] = posted[d]
  BY DEF PortInv
<1> HIDE DEF p
<1> QED
  BY Zenon, <1>2, <1>3, <1>4, <1>5, OneEnd

LEMMA FailStep ==
  ASSUME PortInv, NEW c \in Chan, NEW e \in End, onClose(c, e)
  PROVE  PortInv'
<1> DEFINE p == ends[c][e]
           p2 == [p EXCEPT !.dead = TRUE]
<1>1. p \in PortObject /\ Own(e, p)
  BY EndFacts
<1>2. ends' = [ends EXCEPT ![c][e] = p2] /\ UNCHANGED <<queue, reg, posted>>
  BY DEF onClose, fail, PortInv
<1>3. /\ p2 \in PortObject /\ p2.rx = p.rx /\ p2.got = p.got /\ p2.heard = p.heard
      /\ p2.dead /\ p2.pump = p.pump /\ p2.said = p.said /\ p2.opened = p.opened
      /\ p2.closed = p.closed /\ p2.torn = p.torn /\ p2.live = p.live
  BY Zenon, <1>1 DEF PortObject
<1>4. reg[c] \in {"new", "handed", "bound"} /\ e = "server" => p.pump = "off"
  BY DEF PortInv, ChanInv
<1>5. p.opened >= p.opened
  BY <1>1 DEF PortObject
<1> HIDE DEF p2
<1>6. Own(e, p2)
  BY <1>1, <1>3 DEF Own
<1> QED
  BY Zenon, <1>2, <1>3, <1>4, <1>5, <1>6, QuietEnd

LEMMA UnpackStep ==
  ASSUME PortInv, NEW c \in Chan, NEW e \in End, unpack(c, e)
  PROVE  PortInv'
<1> DEFINE p == ends[c][e]
           p2 == [p EXCEPT !.pump = "on"]
<1>1. p \in PortObject /\ Own(e, p) /\ p.pump = "busy"
  BY EndFacts DEF unpack
<1>2. ends' = [ends EXCEPT ![c][e] = p2] /\ UNCHANGED <<queue, reg, posted>>
  BY DEF unpack, PortInv
<1>3. /\ p2 \in PortObject /\ p2.rx = p.rx /\ p2.got = p.got /\ p2.heard = p.heard
      /\ p2.dead = p.dead /\ p2.pump = "on" /\ p2.said = p.said /\ p2.opened = p.opened
      /\ p2.closed = p.closed /\ p2.torn = p.torn /\ p2.live = p.live
  BY <1>1 DEF PortObject
<1>4. reg[c] \in {"new", "handed", "bound"} => e # "server"
  BY <1>1 DEF PortInv, ChanInv
<1>5. p.opened >= p.opened
  BY <1>1 DEF PortObject
<1> HIDE DEF p2
<1>6. Own(e, p2)
  BY <1>1, <1>3 DEF Own
<1> QED
  BY Zenon, <1>2, <1>3, <1>4, <1>5, <1>6, QuietEnd

LEMMA OnMessagePort ==
  ASSUME PortInv, NEW c \in Chan, NEW e \in End, onMessage(c, e)
  PROVE  PortInv'
<1> DEFINE p == ends[c][e]
           q == queue[c][e]
           p2 == received(p, Head(q))
<1>1. /\ Other(e) \in End /\ Other(Other(e)) = e /\ Other(e) # e /\ p \in PortObject
      /\ Joint(e, p, q, ends[c][Other(e)], posted[c][Other(e)])
      /\ Joint(Other(e), ends[c][Other(e)], queue[c][Other(e)], p, posted[c][e])
      /\ posted[c]["page"] <= ends[c]["page"].opened /\ Own(e, p) /\ q \in Seq(Msgs)
  BY EndFacts
<1>2. /\ q # <<>> /\ queue' = [queue EXCEPT ![c][e] = Tail(q)] /\ ends' = [ends EXCEPT ![c][e] = p2]
      /\ UNCHANGED <<reg, posted>>
  <2>1. q # <<>> /\ queue' = [queue EXCEPT ![c][e] = Tail(q)] /\ UNCHANGED <<reg, posted>>
    BY Zenon DEF onMessage
  <2>2. ends' = [ends EXCEPT ![c][e] = p2]
    BY Zenon DEF onMessage
  <2> QED
    BY <2>1, <2>2
<1>3. Tail(q) \in Seq(Msgs) /\ Head(q) \in Msgs
  BY <1>1, <1>2
<1>4. /\ queue' \in [Chan -> [End -> Seq(Msgs)]] /\ queue'[c][e] = Tail(q)
      /\ queue'[c][Other(e)] = queue[c][Other(e)]
      /\ \A d \in Chan : d # c => queue'[d] = queue[d]
  BY <1>1, <1>2, <1>3 DEF PortInv
<1>5. p2 \in PortObject
  <2>1. Append(p.rx, Head(q)) \in Seq(Msgs)
    BY <1>1, <1>3 DEF PortObject
  <2> QED
    BY Zenon, <1>1, <2>1 DEF PortObject, received
<1>6. Joint(e, p2, Tail(q), ends[c][Other(e)], posted[c][Other(e)])
  BY <1>1, <1>2, JointReceive
<1>7. /\ p2.pump = p.pump /\ p2.opened = p.opened /\ p2.said = p.said /\ p2.closed = p.closed
      /\ p2.dead = p.dead /\ p2.torn = p.torn /\ p2.live = p.live /\ p2.got = p.got
  BY <1>1 DEF PortObject, received
<1>8. reg[c] \in {"new", "handed", "bound"} /\ e = "server" => p.pump = "off"
  BY DEF PortInv, ChanInv
<1> HIDE DEF p2
<1>9. Own(e, p2)
  BY Zenon, <1>1, <1>7 DEF Own
<1>10. Joint(Other(e), ends[c][Other(e)], queue[c][Other(e)], p2, posted[c][e])
  <2>1. ends[c][Other(e)] \in PortObject
    BY <1>1 DEF PortInv
  <2> QED
    BY <1>1, <1>7, <2>1, JointKept
<1>11. posted[c]["page"] <= (IF e = "page" THEN p2 ELSE ends[c]["page"]).opened
  BY <1>1, <1>7
<1>12. reg \in [Chan -> {"new", "handed", "bound", "served", "dropped"}] /\ posted \in [Chan -> [End -> Nat]]
  BY DEF PortInv
<1> QED
  BY ZenonT(40), <1>2, <1>4, <1>5, <1>6, <1>7, <1>8, <1>9, <1>10, <1>11, <1>12, OneEnd

LEMMA PumpPort ==
  ASSUME PortInv, NEW c \in Chan, NEW e \in End, pump(c, e)
  PROVE  PortInv'
<1> DEFINE p == ends[c][e]
           q == queue[c][e]
           p2 == pumped(p)
<1>1. /\ Other(e) \in End /\ Other(Other(e)) = e /\ Other(e) # e /\ p \in PortObject
      /\ Joint(e, p, q, ends[c][Other(e)], posted[c][Other(e)])
      /\ Joint(Other(e), ends[c][Other(e)], queue[c][Other(e)], p, posted[c][e])
      /\ posted[c]["page"] <= ends[c]["page"].opened /\ Own(e, p)
  BY EndFacts
<1>2. /\ p.pump = "on" /\ (p.rx # <<>> \/ p.dead) /\ UNCHANGED <<queue, reg, posted>>
      /\ ends' = [ends EXCEPT ![c][e] = p2]
  BY Zenon DEF pump
<1>3. p.rx \in Seq(MsgTo(e)) /\ p2 \in PortObject
  BY Zenon, <1>1, PumpedFields DEF Joint
<1>4a. p2 = pumped(p)
  OBVIOUS
<1>4. Joint(e, p2, q, ends[c][Other(e)], posted[c][Other(e)])
  BY <1>1, <1>2, JointPump
<1> HIDE DEF p2
<1>5. p2.opened = p.opened /\ p2.said = p.said /\ p2.closed = p.closed /\ p2.torn = p.torn
  BY <1>1, <1>3, <1>4a, PumpedFields
<1>6. /\ p.dead => p2.dead
      /\ \/ p2.live = p.live /\ p2.got = p.got
         \/ p2.live = p.live + 1 /\ p2.got = p.got + 1 /\ e = "server"
         \/ p2.live <= p.live /\ e = "page"
  <2>1. p.live \in Nat /\ p.got \in Nat
    BY <1>1 DEF PortObject
  <2>2. CASE ~(p.rx # <<>>)
    <3>1. p2.dead = p.dead /\ p2.live = p.live /\ p2.got = p.got
      BY <1>1, <1>3, <1>4a, <2>2, PumpedFields
    <3> QED
      BY <3>1
  <2>3. CASE p.rx # <<>> /\ Head(p.rx) \in {"bye", "junk"}
    <3>1. (p.dead => p2.dead) /\ p2.live = p.live /\ p2.got = p.got
      BY SMTT(30), <1>1, <1>3, <1>4a, <2>3, PumpedFields
    <3> QED
      BY <3>1
  <2>4. CASE p.rx # <<>> /\ Head(p.rx) \in Frames
    <3>1. Head(p.rx) \in MsgTo(e)
      BY <1>3, <2>4, MsgsTo
    <3>2. CASE Head(p.rx) = "open"
      <4>1. e = "server"
        BY <3>1, <3>2 DEF MsgTo, End
      <4>2. p2.live = p.live + 1 /\ p2.got = p.got + 1 /\ p2.dead = p.dead
        BY <1>1, <1>3, <1>4a, <2>4, <3>2, PumpedFields
      <4> QED
        BY <4>1, <4>2
    <3>3. CASE Head(p.rx) = "term"
      <4>1. e = "page"
        BY <3>1, <3>3 DEF MsgTo, End
      <4>2. p2.live = (IF p.live > 0 THEN p.live - 1 ELSE p.live) /\ p2.dead = p.dead
        BY SMTT(30), <1>1, <1>3, <1>4a, <2>4, <3>3, PumpedFields
      <4>3. p2.live <= p.live
        BY <2>1, <4>2
      <4> QED
        BY <4>1, <4>2, <4>3
    <3> QED
      BY <2>4, <3>2, <3>3 DEF Frames
  <2> QED
    <3>1. p.rx # <<>> => Head(p.rx) \in MsgTo(e)
      BY <1>3, MsgsTo
    <3>2. p.rx # <<>> => Head(p.rx) \in {"bye", "junk"} \/ Head(p.rx) \in Frames
      BY <3>1 DEF MsgTo, Frames
    <3> QED
      BY Zenon, <2>2, <2>3, <2>4, <3>2
<1>7. p.live \in Nat /\ p.got \in Nat /\ p.opened \in Nat /\ p2.live \in Nat
  BY <1>1, <1>3 DEF PortObject
<1>8. reg[c] \in {"new", "handed", "bound"} => e # "server"
  BY <1>2 DEF PortInv, ChanInv
<1>9. Own(e, p2)
  <2>1. p2.torn => p2.live = 0
    <3> SUFFICES ASSUME p.torn PROVE p2.live = 0
      BY <1>5
    <3>1. p.live = 0 /\ e # "server"
      BY <1>1, <1>2 DEF Own
    <3> QED
      BY <1>6, <1>7, <3>1
  <2>2. e = "page" => p2.live <= p2.opened
    <3> SUFFICES ASSUME e = "page" PROVE p2.live <= p.opened
      BY <1>5
    <3>1. p.live <= p.opened /\ p2.live <= p.live
      BY <1>1, <1>6, <1>7 DEF Own
    <3> QED
      BY <1>7, <3>1
  <2>3. e = "server" => p2.live <= p2.got
    <3> SUFFICES ASSUME e = "server" PROVE p2.live <= p2.got
      OBVIOUS
    <3>1. p.live <= p.got
      BY <1>1 DEF Own
    <3> QED
      BY <1>6, <1>7, <3>1
  <2>4. e = "server" => ~p2.torn
    BY <1>1, <1>2, <1>5 DEF Own
  <2> QED
    BY Zenon, <1>1, <1>5, <1>6, <2>1, <2>2, <2>3, <2>4 DEF Own
<1>10. Joint(Other(e), ends[c][Other(e)], queue[c][Other(e)], p2, posted[c][e])
  <2>1. ends[c][Other(e)] \in PortObject
    BY <1>1 DEF PortInv
  <2> QED
    BY <1>1, <1>5, <2>1, JointKept
<1>11. posted[c]["page"] <= (IF e = "page" THEN p2 ELSE ends[c]["page"]).opened
  BY <1>1, <1>5
<1>12. /\ reg \in [Chan -> {"new", "handed", "bound", "served", "dropped"}]
       /\ posted \in [Chan -> [End -> Nat]] /\ queue \in [Chan -> [End -> Seq(Msgs)]]
  BY DEF PortInv
<1> QED
  BY Zenon, <1>2, <1>3, <1>4, <1>8, <1>9, <1>10, <1>11, <1>12, OneEnd

\* What post leaves on the two queues of the channel.
LEMMA Posts ==
  ASSUME PortInv, NEW c \in Chan, NEW e \in End, NEW m \in Msgs, NEW q,
         q = post(queue, c, e, m)
  PROVE  /\ q \in [Chan -> [End -> Seq(Msgs)]]
         /\ \A d \in Chan : d # c => q[d] = queue[d]
         /\ q[c][e] = queue[c][e]
         /\ \/ q[c][Other(e)] = Append(queue[c][Other(e)], m)
            \/ ends[c][Other(e)].closed /\ q[c][Other(e)] = queue[c][Other(e)]
<1>1. Other(e) \in End /\ Other(e) # e /\ queue[c][Other(e)] \in Seq(Msgs)
  BY DEF Other, End, PortInv
<1>2. Append(queue[c][Other(e)], m) \in Seq(Msgs)
  BY <1>1
<1>3. CASE ends[c][Other(e)].closed
  BY <1>3 DEF post, PortInv
<1>4. CASE ~ends[c][Other(e)].closed
  BY <1>1, <1>2, <1>4 DEF post, PortInv
<1> QED
  BY Zenon, <1>3, <1>4

\* The same end, with other numbers of calls.
Counted(p, p2) ==
  /\ p2.rx = p.rx /\ p2.got = p.got /\ p2.heard = p.heard /\ p2.pump = p.pump
  /\ p2.said = p.said /\ p2.closed = p.closed /\ p2.torn = p.torn

LEMMA SendPort ==
  ASSUME PortInv, NEW c \in Chan, NEW e \in End, NEW m, NEW ok \in PortObject, NEW no \in PortObject,
         m = (IF e = "page" THEN "open" ELSE "term"), send(c, e, m, ok, no), reg' = reg,
         Counted(ends[c][e], ok), Counted(ends[c][e], no),
         ok.dead = ends[c][e].dead, no.dead = ends[c][e].dead,
         e = "page" => ok.opened > ends[c][e].opened /\ no.opened >= ends[c][e].opened,
         Own(e, ok), Own(e, no)
  PROVE  PortInv'
<1> DEFINE p == ends[c][e]
           o == ends[c][Other(e)]
<1>1. /\ Other(e) \in End /\ Other(Other(e)) = e /\ Other(e) # e /\ p \in PortObject
      /\ Joint(e, p, queue[c][e], o, posted[c][Other(e)])
      /\ Joint(Other(e), o, queue[c][Other(e)], p, posted[c][e])
      /\ posted[c]["page"] <= ends[c]["page"].opened /\ Own(e, p)
  BY EndFacts
<1>2. reg[c] \in {"new", "handed", "bound"} /\ e = "server" => p.pump = "off"
  BY DEF PortInv, ChanInv
<1>3. o \in PortObject /\ Own(Other(e), o) /\ posted[c][e] \in Nat /\ posted[c]["page"] \in Nat
  BY <1>1, EndFacts DEF PortInv, End
<1>4. reg \in [Chan -> {"new", "handed", "bound", "served", "dropped"}]
  BY DEF PortInv
<1>5. CASE /\ ~p.dead /\ ends' = [ends EXCEPT ![c][e] = ok]
           /\ queue' = post(queue, c, e, m) /\ posted' = [posted EXCEPT ![c][e] = @ + 1]
  <2>1. m \in MsgTo(Other(e)) /\ m \in Frames /\ m \in Msgs
    BY DEF MsgTo, Frames, Msgs, Other, End
  <2>2. /\ queue' \in [Chan -> [End -> Seq(Msgs)]]
        /\ \A d \in Chan : d # c => queue'[d] = queue[d]
        /\ queue'[c][e] = queue[c][e]
        /\ \/ queue'[c][Other(e)] = Append(queue[c][Other(e)], m)
           \/ o.closed /\ queue'[c][Other(e)] = queue[c][Other(e)]
    BY <1>5, <2>1, Posts
  <2>3. /\ posted' \in [Chan -> [End -> Nat]] /\ posted'[c][e] = posted[c][e] + 1
        /\ posted'[c][Other(e)] = posted[c][Other(e)]
        /\ \A d \in Chan : d # c => posted'[d] = posted[d]
    BY <1>1, <1>3, <1>5 DEF PortInv
  <2>4. ~p.said /\ (o.closed => o.dead)
    BY Zenon, <1>1, <1>3, <1>5 DEF Own
  <2>5. Joint(Other(e), o, queue'[c][Other(e)], ok, posted'[c][e])
    <3> DEFINE q2 == queue'[c][Other(e)]
    <3>1. q2 = Append(queue[c][Other(e)], m) \/ (o.dead /\ q2 = queue[c][Other(e)])
      BY Zenon, <2>2, <2>4
    <3> HIDE DEF q2
    <3>2. Joint(Other(e), o, q2, ok, posted[c][e] + 1)
      BY Zenon, <1>1, <2>1, <2>4, <3>1, JointPost
    <3> QED
      BY Zenon, <2>3, <3>2 DEF q2
  <2>6. Joint(e, ok, queue'[c][e], o, posted'[c][Other(e)])
    <3>1. ok.rx = p.rx /\ ok.got = p.got /\ ok.heard = p.heard /\ ok.pump = p.pump
      BY DEF Counted
    <3>2. Joint(e, ok, queue[c][e], o, posted[c][Other(e)])
      BY Zenon, <1>1, <3>1, JointKept
    <3> QED
      BY Zenon, <2>2, <2>3, <3>2
  <2>7. posted'[c]["page"] <= (IF e = "page" THEN ok ELSE ends[c]["page"]).opened
    <3>1. ok.opened \in Nat /\ p.opened \in Nat
      BY Zenon, <1>1 DEF PortObject
    <3>2. CASE e = "page"
      BY <1>1, <1>3, <2>3, <3>1, <3>2
    <3>3. CASE e # "page"
      BY Zenon, <1>1, <2>3, <3>3 DEF End, Other
    <3> QED
      BY Zenon, <3>2, <3>3
  <2>8. reg'[c] \in {"new", "handed", "bound"} =>
           IF e = "server" THEN ok.pump = "off" ELSE reg[c] \in {"new", "handed", "bound"}
    BY Zenon, <1>2 DEF Counted
  <2>9. \A d \in Chan : d # c => reg'[d] = reg[d] /\ queue'[d] = queue[d] /\ posted'[d] = posted[d]
    BY Zenon, <2>2, <2>3
  <2>10. ends' = [ends EXCEPT ![c][e] = ok]
    BY <1>5
  <2> QED
    BY Zenon, <1>4, <2>2, <2>3, <2>5, <2>6, <2>7, <2>8, <2>9, <2>10, OneEnd
<1>6. CASE /\ ends' = [ends EXCEPT ![c][e] = IF @.dead THEN no ELSE fail(no)]
           /\ UNCHANGED <<queue, posted>>
  <2> DEFINE p2 == IF p.dead THEN no ELSE [no EXCEPT !.dead = TRUE]
  <2>1. ends' = [ends EXCEPT ![c][e] = p2]
    BY <1>6 DEF fail
  <2>2. /\ p2 \in PortObject /\ Counted(no, p2) /\ p2.dead /\ p2.opened = no.opened
        /\ p2.live = no.live
    BY Zenon DEF PortObject, Counted
  <2> HIDE DEF p2
  <2>3. Own(e, p2)
    BY Zenon, <1>1, <2>2 DEF Own, Counted
  <2>4. /\ p2.rx = p.rx /\ p2.got = p.got /\ p2.heard = p.heard /\ p2.pump = p.pump
        /\ p2.said = p.said
    BY Zenon, <2>2 DEF Counted
  <2>5. Joint(e, p2, queue[c][e], o, posted[c][Other(e)])
    BY Zenon, <1>1, <2>2, <2>4, JointKept
  <2>6. Joint(Other(e), o, queue[c][Other(e)], p2, posted[c][e])
    BY Zenon, <1>1, <1>3, <2>4, JointKept
  <2>7. posted[c]["page"] <= (IF e = "page" THEN p2 ELSE ends[c]["page"]).opened
    <3>1. no.opened \in Nat /\ p.opened \in Nat
      BY Zenon, <1>1 DEF PortObject
    <3> QED
      BY <1>1, <1>3, <2>2, <3>1
  <2>8. reg[c] \in {"new", "handed", "bound"} =>
           IF e = "server" THEN p2.pump = "off" ELSE reg[c] \in {"new", "handed", "bound"}
    BY Zenon, <1>2, <2>4
  <2>9. posted \in [Chan -> [End -> Nat]] /\ queue \in [Chan -> [End -> Seq(Msgs)]]
    BY DEF PortInv
  <2> QED
    BY Zenon, <1>4, <1>6, <2>1, <2>2, <2>3, <2>5, <2>6, <2>7, <2>8, <2>9, OneEnd
<1> QED
  BY <1>5, <1>6, Zenon DEF send

\* The end e after close(), whatever else the step does to its pump and calls.
ClosedAs(p, p2) ==
  /\ p2.rx = p.rx /\ p2.got = p.got /\ p2.heard = p.heard /\ p2.opened = p.opened
  /\ p2.dead /\ p2.closed /\ p2.said = (IF p.closed THEN p.said ELSE ~p.dead)
  /\ p2.pump = "done" => p.pump = "done"

LEMMA CloseFields ==
  ASSUME NEW p \in PortObject, p.closed => p.dead, NEW p2, p2 = close(p)
  PROVE  /\ p2 \in PortObject /\ ClosedAs(p, p2) /\ p2.pump = p.pump /\ p2.torn = p.torn
         /\ p2.live = p.live
<1>1. CASE p.closed
  BY <1>1 DEF close, ClosedAs
<1>2. CASE ~p.closed
  BY Zenon, <1>2 DEF close, fail, ClosedAs, PortObject
<1> QED
  BY <1>1, <1>2

\* The queues of the channel after close().
LEMMA FarewellQueues ==
  ASSUME PortInv, NEW c \in Chan, NEW e \in End, NEW q, q = Farewell(c, e)
  PROVE  /\ q \in [Chan -> [End -> Seq(Msgs)]]
         /\ \A d \in Chan : d # c => q[d] = queue[d]
         /\ ends[c][e].closed => q[c] = queue[c]
         /\ ~ends[c][e].closed =>
              /\ q[c][e] = <<>>
              /\ \/ q[c][Other(e)] = queue[c][Other(e)]
                 \/ ~ends[c][e].dead /\ q[c][Other(e)] = Append(queue[c][Other(e)], "bye")
<1>1. Other(e) \in End /\ Other(e) # e
  BY DEF Other, End
<1>2. queue \in [Chan -> [End -> Seq(Msgs)]]
  BY DEF PortInv
<1>3. CASE ends[c][e].closed
  BY <1>2, <1>3 DEF Farewell
<1>4. CASE ~ends[c][e].closed
  <2>1. PICK r \in [Chan -> [End -> Seq(Msgs)]] :
          /\ q = [r EXCEPT ![c][e] = <<>>] /\ \A d \in Chan : d # c => r[d] = queue[d]
          /\ \/ r[c][Other(e)] = queue[c][Other(e)]
             \/ ~ends[c][e].dead /\ r[c][Other(e)] = Append(queue[c][Other(e)], "bye")
    <3>1. CASE ends[c][e].dead
      BY Zenon, <1>2, <1>4, <3>1 DEF Farewell, Hush
    <3>2. CASE ~ends[c][e].dead
      <4> DEFINE r == post(queue, c, e, "bye")
      <4>1. /\ r \in [Chan -> [End -> Seq(Msgs)]]
            /\ \A d \in Chan : d # c => r[d] = queue[d]
            /\ \/ r[c][Other(e)] = Append(queue[c][Other(e)], "bye")
               \/ r[c][Other(e)] = queue[c][Other(e)]
        BY Posts DEF Msgs
      <4>2. q = [r EXCEPT ![c][e] = <<>>]
        BY <1>4, <3>2 DEF Farewell, Hush
      <4> HIDE DEF r
      <4> QED
        BY Zenon, <3>2, <4>1, <4>2
    <3> QED
      BY Zenon, <3>1, <3>2
  <2>2. <<>> \in Seq(Msgs)
    OBVIOUS
  <2> QED
    BY <1>1, <1>4, <2>1, <2>2
<1> QED
  BY Zenon, <1>3, <1>4

LEMMA CloseChan ==
  ASSUME PortInv, NEW c \in Chan, NEW e \in End, NEW p2 \in PortObject,
         ends'[c] = [ends[c] EXCEPT ![e] = p2], queue'[c] = Farewell(c, e)[c],
         posted'[c] = posted[c], ClosedAs(ends[c][e], p2), Own(e, p2),
         reg'[c] \in {"new", "handed", "bound"} =>
           IF e = "server" THEN p2.pump = "off" ELSE reg[c] \in {"new", "handed", "bound"}
  PROVE  ChanInv(c)'
<1> DEFINE p == ends[c][e]
           o == ends[c][Other(e)]
           q == Farewell(c, e)
<1>1. /\ Other(e) \in End /\ Other(Other(e)) = e /\ Other(e) # e /\ p \in PortObject
      /\ Joint(e, p, queue[c][e], o, posted[c][Other(e)])
      /\ Joint(Other(e), o, queue[c][Other(e)], p, posted[c][e])
      /\ posted[c]["page"] <= ends[c]["page"].opened /\ Own(e, p) /\ o \in PortObject
  BY Zenon, EndFacts DEF PortInv
<1>2. /\ p.closed => q[c] = queue[c]
      /\ ~p.closed =>
              /\ q[c][e] = <<>>
              /\ \/ q[c][Other(e)] = queue[c][Other(e)]
                 \/ ~p.dead /\ q[c][Other(e)] = Append(queue[c][Other(e)], "bye")
  BY FarewellQueues
<1> HIDE DEF q
<1>3. /\ p2.rx = p.rx /\ p2.got = p.got /\ p2.heard = p.heard /\ p2.opened = p.opened
      /\ p2.dead /\ p2.said = (IF p.closed THEN p.said ELSE ~p.dead)
      /\ p2.pump = "done" => p.pump = "done"
  BY Zenon DEF ClosedAs
<1>4. Joint(e, p2, queue[c][e], o, posted[c][Other(e)])
  BY Zenon, <1>1, <1>3, JointKept
<1>5. Joint(e, p2, q[c][e], o, posted[c][Other(e)])
  BY <1>2, <1>3, <1>4, JointHush
<1>6. Joint(Other(e), o, q[c][Other(e)], p2, posted[c][e])
  <2>1. CASE p.closed
    <3>1. p2.said = p.said /\ q[c] = queue[c]
      BY Zenon, <1>2, <1>3, <2>1
    <3> QED
      BY Zenon, <1>1, <3>1, JointKept
  <2>2. CASE ~p.closed
    <3>1. ~p.said /\ (~p.dead => p2.said)
      BY Zenon, <1>1, <1>3, <2>2 DEF Own
    <3>2. CASE q[c][Other(e)] = queue[c][Other(e)]
      BY Zenon, <1>1, <3>1, <3>2, JointKept
    <3>3. CASE ~p.dead /\ q[c][Other(e)] = Append(queue[c][Other(e)], "bye")
      BY Zenon, <1>1, <3>1, <3>3, JointOther
    <3> QED
      BY Zenon, <1>2, <2>2, <3>2, <3>3
  <2> QED
    BY Zenon, <2>1, <2>2
<1>7. posted[c]["page"] <= (IF e = "page" THEN p2 ELSE ends[c]["page"]).opened
  BY Zenon, <1>1, <1>3
<1>8. queue'[c] = q[c]
  BY DEF q
<1> QED
  BY Zenon, <1>5, <1>6, <1>7, <1>8, ChanStep

LEMMA CloseEnd ==
  ASSUME PortInv, NEW c \in Chan, NEW e \in End, NEW p2 \in PortObject,
         ends' = [ends EXCEPT ![c][e] = p2], queue' = Farewell(c, e), posted' = posted,
         reg' \in [Chan -> {"new", "handed", "bound", "served", "dropped"}],
         \A d \in Chan : d # c => reg'[d] = reg[d],
         ClosedAs(ends[c][e], p2), Own(e, p2),
         reg'[c] \in {"new", "handed", "bound"} =>
           IF e = "server" THEN p2.pump = "off" ELSE reg[c] \in {"new", "handed", "bound"}
  PROVE  PortInv'
<1>1. queue' \in [Chan -> [End -> Seq(Msgs)]] /\ \A d \in Chan : d # c => queue'[d] = queue[d]
  BY FarewellQueues
<1>2. ends'[c] = [ends[c] EXCEPT ![e] = p2] => ChanInv(c)'
  BY CloseChan
<1>3. posted \in [Chan -> [End -> Nat]]
  BY DEF PortInv
<1> QED
  BY Zenon, <1>1, <1>2, <1>3, OneChan

LEMMA InvokePort ==
  ASSUME PortInv, NEW c \in Chan, invoke(c) PROVE PortInv'
<1> DEFINE p == ends[c]["page"]
           k == p.opened + 1
           l == p.live + 1
           no == [p EXCEPT !.opened = k]
           ok == [no EXCEPT !.live = l]
<1>1. "page" \in End /\ p \in PortObject /\ Own("page", p)
  BY Zenon, EndFacts DEF End
<1>2. ~p.torn /\ send(c, "page", "open", ok, no) /\ reg' = reg
  <2>1. no.live = p.live
    BY <1>1 DEF PortObject
  <2> QED
    BY <2>1 DEF invoke
<1>3. /\ no \in PortObject /\ ok \in PortObject /\ Counted(p, ok) /\ Counted(p, no)
      /\ ok.dead = p.dead /\ no.dead = p.dead /\ ok.opened = p.opened + 1 /\ no.opened = p.opened + 1
      /\ ok.live = p.live + 1 /\ no.live = p.live
  <2>1. k \in Nat /\ l \in Nat
    BY <1>1 DEF PortObject
  <2> HIDE DEF k, l
  <2>2. /\ no \in PortObject /\ Counted(p, no) /\ no.dead = p.dead /\ no.opened = k
        /\ no.live = p.live
    BY Zenon, <1>1, <2>1 DEF PortObject, Counted
  <2> HIDE DEF no
  <2>3. /\ ok \in PortObject /\ Counted(no, ok) /\ ok.dead = no.dead /\ ok.opened = no.opened
        /\ ok.live = l
    BY <2>1, <2>2 DEF PortObject, Counted
  <2> QED
    BY <2>2, <2>3 DEF k, l, Counted
<1> HIDE DEF ok, no
<1>4. p.opened \in Nat /\ p.live \in Nat
  BY <1>1 DEF PortObject
<1>5. p.live <= p.opened
  BY <1>1 DEF Own
<1>6. ok.live <= ok.opened /\ no.live <= no.opened
  BY <1>3, <1>4, <1>5
<1>7. Own("page", ok) /\ Own("page", no)
  BY Zenon, <1>1, <1>2, <1>3, <1>6 DEF Own, Counted
<1>8. ok.opened > p.opened /\ no.opened >= p.opened
  BY <1>3, <1>4
<1> QED
  BY Zenon, <1>1, <1>2, <1>3, <1>7, <1>8, SendPort

LEMMA FinishPort ==
  ASSUME PortInv, NEW c \in Chan, finish(c) PROVE PortInv'
<1> DEFINE p == ends[c]["server"]
           q == [p EXCEPT !.live = @ - 1]
<1>1. "server" \in End /\ p \in PortObject /\ Own("server", p)
  BY Zenon, EndFacts DEF End
<1>2. p.live > 0 /\ send(c, "server", "term", q, q) /\ reg' = reg
  BY DEF finish
<1>3. p.live \in Nat /\ p.got \in Nat /\ p.live - 1 \in Nat
  BY <1>1, <1>2 DEF PortObject
<1>4. /\ q \in PortObject /\ Counted(p, q) /\ q.dead = p.dead /\ q.live = p.live - 1
  BY Zenon, <1>1, <1>3 DEF PortObject, Counted
<1> HIDE DEF q
<1>5. p.live <= p.got /\ ~p.torn
  BY <1>1, <1>2, <1>3 DEF Own
<1>6. q.live <= q.got
  BY <1>3, <1>4, <1>5 DEF Counted
<1>7. Own("server", q)
  BY Zenon, <1>1, <1>4, <1>5, <1>6 DEF Own, Counted
<1> QED
  BY Zenon, <1>1, <1>2, <1>4, <1>7, SendPort

LEMMA ConnClosePort ==
  ASSUME PortInv, NEW c \in Chan, connClose(c) \/ attachConn(c) PROVE PortInv'
<1> DEFINE p == ends[c]["page"]
           p1 == close(p)
           p2 == [p1 EXCEPT !.torn = TRUE, !.live = 0]
<1>1. "page" \in End /\ p \in PortObject /\ Own("page", p)
  BY EndFacts DEF End
<1>2. /\ ends' = [ends EXCEPT ![c]["page"] = p2] /\ queue' = Farewell(c, "page")
      /\ UNCHANGED <<reg, posted>>
  BY DEF connClose, attachConn, connClosed
<1>3. p1 \in PortObject /\ ClosedAs(p, p1)
  BY <1>1, CloseFields DEF Own
<1> HIDE DEF p1
<1>4. p2 \in PortObject /\ ClosedAs(p, p2) /\ p2.live = 0
  BY Zenon, <1>3 DEF ClosedAs, PortObject
<1> HIDE DEF p2
<1>5. 0 <= p2.opened
  BY <1>4 DEF PortObject
<1>6. Own("page", p2)
  BY <1>4, <1>5 DEF Own, ClosedAs
<1>7. reg' \in [Chan -> {"new", "handed", "bound", "served", "dropped"}] /\ reg' = reg /\ posted' = posted
  BY <1>2 DEF PortInv
<1> QED
  BY Zenon, <1>1, <1>2, <1>4, <1>6, <1>7, CloseEnd

\* close() and nothing else.
LEMMA ClosePort ==
  ASSUME PortInv, NEW c \in Chan, NEW e \in End,
         ends' = [ends EXCEPT ![c][e] = close(ends[c][e])], queue' = Farewell(c, e),
         UNCHANGED <<reg, posted>>
  PROVE  PortInv'
<1> DEFINE p == ends[c][e]
           p2 == close(p)
<1>1. p \in PortObject /\ Own(e, p)
  BY EndFacts
<1>2. /\ p2 \in PortObject /\ ClosedAs(p, p2) /\ p2.pump = p.pump /\ p2.torn = p.torn
      /\ p2.live = p.live
  BY <1>1, CloseFields DEF Own
<1>3. ends' = [ends EXCEPT ![c][e] = p2]
  OBVIOUS
<1> HIDE DEF p2
<1>4. Own(e, p2)
  BY Zenon, <1>1, <1>2 DEF Own, ClosedAs
<1>5. reg[c] \in {"new", "handed", "bound"} /\ e = "server" => p.pump = "off"
  BY DEF PortInv, ChanInv
<1>6. reg' \in [Chan -> {"new", "handed", "bound", "served", "dropped"}] /\ reg' = reg /\ posted' = posted
  BY DEF PortInv
<1> QED
  BY Zenon, <1>2, <1>3, <1>4, <1>5, <1>6, CloseEnd

LEMMA ServeExitPort ==
  ASSUME PortInv, NEW c \in Chan, serveExit(c) PROVE PortInv'
<1> DEFINE p == ends[c]["server"]
           p1 == close(p)
           p2 == [p1 EXCEPT !.torn = TRUE, !.live = 0]
<1>1. "server" \in End /\ p \in PortObject /\ Own("server", p)
  BY Zenon, EndFacts DEF End
<1>2. /\ ends' = [ends EXCEPT ![c]["server"] = p2] /\ queue' = Farewell(c, "server")
      /\ reg' = [reg EXCEPT ![c] = "dropped"] /\ posted' = posted /\ p.pump = "done"
  BY DEF serveExit
<1>3. p1 \in PortObject /\ ClosedAs(p, p1) /\ p1.pump = p.pump
  BY <1>1, CloseFields DEF Own
<1> HIDE DEF p1
<1>4. p2 \in PortObject /\ ClosedAs(p, p2) /\ p2.live = 0 /\ p2.pump = "done"
  BY Zenon, <1>2, <1>3 DEF ClosedAs, PortObject
<1> HIDE DEF p2
<1>5. 0 <= p2.got
  BY <1>4 DEF PortObject
<1>6. Own("server", p2)
  BY <1>4, <1>5 DEF Own, ClosedAs
<1>7. /\ reg' \in [Chan -> {"new", "handed", "bound", "served", "dropped"}]
      /\ reg'[c] = "dropped" /\ \A d \in Chan : d # c => reg'[d] = reg[d]
  BY <1>2 DEF PortInv
<1> QED
  BY Zenon, <1>1, <1>2, <1>4, <1>6, <1>7, CloseEnd

LEMMA ServePeerPort ==
  ASSUME PortInv, NEW c \in Chan, servePeer(c) PROVE PortInv'
<1> DEFINE p == ends[c]["server"]
<1>1. /\ "server" \in End /\ Other("server") = "page" /\ p \in PortObject /\ Own("server", p)
      /\ ends[c]["page"] \in PortObject
      /\ Joint("server", p, queue[c]["server"], ends[c]["page"], posted[c]["page"])
      /\ Joint("page", ends[c]["page"], queue[c]["page"], p, posted[c]["server"])
      /\ posted[c]["page"] <= ends[c]["page"].opened
  BY EndFacts DEF End, Other, PortInv
<1>2. reg[c] \in {"handed", "bound"} /\ reg' = [reg EXCEPT ![c] = "served"] /\ posted' = posted
  BY DEF servePeer
<1>3. /\ reg' \in [Chan -> {"new", "handed", "bound", "served", "dropped"}]
      /\ reg'[c] = "served" /\ \A d \in Chan : d # c => reg'[d] = reg[d]
  BY <1>2 DEF PortInv
<1>4. p.pump = "off"
  BY <1>2 DEF PortInv, ChanInv
<1>5. CASE ends' = [ends EXCEPT ![c]["server"].pump = "on"] /\ queue' = queue
  <2> DEFINE p2 == [p EXCEPT !.pump = "on"]
  <2>1. ends' = [ends EXCEPT ![c]["server"] = p2]
    BY <1>5 DEF PortInv
  <2>2. /\ p2 \in PortObject /\ p2.rx = p.rx /\ p2.got = p.got /\ p2.heard = p.heard
        /\ p2.dead = p.dead /\ p2.pump = "on" /\ p2.said = p.said /\ p2.opened = p.opened
        /\ p2.closed = p.closed /\ p2.torn = p.torn /\ p2.live = p.live
    BY Zenon, <1>1 DEF PortObject
  <2> HIDE DEF p2
  <2>3. Own("server", p2)
    BY Zenon, <1>1, <1>4, <2>2 DEF Own
  <2>4. Joint("server", p2, queue[c]["server"], ends[c]["page"], posted[c]["page"])
    BY Zenon, <1>1, <2>2, JointKept
  <2>5. Joint("page", ends[c]["page"], queue[c]["page"], p2, posted[c]["server"])
    BY Zenon, <1>1, <2>2, JointKept
  <2>6. posted \in [Chan -> [End -> Nat]] /\ queue \in [Chan -> [End -> Seq(Msgs)]]
    BY DEF PortInv
  <2>7. queue' = queue /\ posted' = posted
    BY <1>2, <1>5
  <2> QED
    BY Zenon, <1>1, <1>3, <2>1, <2>2, <2>3, <2>4, <2>5, <2>6, <2>7, OneEnd
<1>6. CASE /\ ends' = [ends EXCEPT ![c]["server"] = [close(p) EXCEPT !.pump = "on"]]
           /\ queue' = Farewell(c, "server")
  <2> DEFINE p1 == close(p)
             p2 == [p1 EXCEPT !.pump = "on"]
  <2>1. ends' = [ends EXCEPT ![c]["server"] = p2] /\ queue' = Farewell(c, "server")
    BY <1>6
  <2>2. p1 \in PortObject /\ ClosedAs(p, p1) /\ p1.torn = p.torn /\ p1.live = p.live
    BY Zenon, <1>1, CloseFields DEF Own
  <2> HIDE DEF p1
  <2>3. /\ p2 \in PortObject /\ ClosedAs(p, p2) /\ p2.pump = "on" /\ p2.torn = p.torn
        /\ p2.live = p.live
    BY <2>2 DEF ClosedAs, PortObject
  <2> HIDE DEF p2
  <2>4. Own("server", p2)
    BY Zenon, <1>1, <1>4, <2>3 DEF Own, ClosedAs
  <2> QED
    BY Zenon, <1>1, <1>2, <1>3, <2>1, <2>3, <2>4, CloseEnd
<1> QED
  BY <1>5, <1>6, Zenon DEF servePeer

LEMMA ForeignPort ==
  ASSUME PortInv, NEW c \in Chan, NEW e \in End, Foreign(c, e) PROVE PortInv'
<1> DEFINE p == ends[c][e]
           o == ends[c][Other(e)]
           j == p.junk + 1
           p2 == [p EXCEPT !.junk = j]
           q2 == queue'[c][Other(e)]
<1>1. /\ Other(e) \in End /\ Other(Other(e)) = e /\ Other(e) # e /\ p \in PortObject
      /\ Joint(e, p, queue[c][e], o, posted[c][Other(e)])
      /\ Joint(Other(e), o, queue[c][Other(e)], p, posted[c][e])
      /\ posted[c]["page"] <= ends[c]["page"].opened /\ Own(e, p) /\ o \in PortObject
  BY EndFacts DEF PortInv
<1>2. /\ ends' = [ends EXCEPT ![c][e] = p2] /\ queue' = post(queue, c, e, "junk")
      /\ UNCHANGED <<reg, posted>> /\ ~p.closed
  BY DEF Foreign, PortInv
<1>3. /\ p2 \in PortObject /\ p2.rx = p.rx /\ p2.got = p.got /\ p2.heard = p.heard
      /\ p2.dead = p.dead /\ p2.pump = p.pump /\ p2.said = p.said /\ p2.opened = p.opened
      /\ p2.closed = p.closed /\ p2.torn = p.torn /\ p2.live = p.live
  <2>1. j \in Nat
    BY SMTT(30), <1>1 DEF PortObject
  <2> HIDE DEF j
  <2> QED
    BY Zenon, <1>1, <2>1 DEF PortObject
<1> HIDE DEF p2
<1>4. Own(e, p2) /\ ~p.said
  BY Zenon, <1>1, <1>2, <1>3 DEF Own
<1>5. /\ queue' \in [Chan -> [End -> Seq(Msgs)]]
      /\ \A d \in Chan : d # c => queue'[d] = queue[d]
      /\ queue'[c][e] = queue[c][e]
      /\ q2 = Append(queue[c][Other(e)], "junk") \/ q2 = queue[c][Other(e)]
  BY <1>2, Posts DEF Msgs
<1> HIDE DEF q2
<1>6. Joint(Other(e), o, q2, p2, posted[c][e])
  BY Zenon, <1>1, <1>4, <1>5, JointOther
<1>7. Joint(e, p2, queue[c][e], o, posted[c][Other(e)])
  BY Zenon, <1>1, <1>3, JointKept
<1>8. Joint(e, p2, queue'[c][e], o, posted'[c][Other(e)])
  BY <1>2, <1>5, <1>7
<1>9. Joint(Other(e), o, queue'[c][Other(e)], p2, posted'[c][e])
  BY <1>2, <1>6 DEF q2
<1>10. posted'[c]["page"] <= (IF e = "page" THEN p2 ELSE ends[c]["page"]).opened
  BY <1>1, <1>2, <1>3
<1>11. /\ posted' \in [Chan -> [End -> Nat]]
       /\ reg' \in [Chan -> {"new", "handed", "bound", "served", "dropped"}]
  BY <1>2 DEF PortInv
<1>12. reg'[c] \in {"new", "handed", "bound"} =>
         IF e = "server" THEN p2.pump = "off" ELSE reg[c] \in {"new", "handed", "bound"}
  BY <1>2, <1>3 DEF PortInv, ChanInv
<1>13. \A d \in Chan : d # c => reg'[d] = reg[d] /\ queue'[d] = queue[d] /\ posted'[d] = posted[d]
  BY <1>2, <1>5
<1> QED
  BY Zenon, <1>2, <1>3, <1>4, <1>5, <1>8, <1>9, <1>10, <1>11, <1>12, <1>13, OneEnd

LEMMA DialPort ==
  ASSUME PortInv, NEW c \in Chan, dialWorker(c) PROVE PortInv'
<1> DEFINE p == ends[c]["page"]
           s == ends[c]["server"]
           p1 == [p EXCEPT !.pump = "on"]
<1>1. /\ "page" \in End /\ Other("page") = "server" /\ p \in PortObject /\ Own("page", p)
      /\ s \in PortObject /\ "server" \in End /\ Own("server", s) /\ Other("server") = "page"
      /\ Joint("page", p, queue[c]["page"], s, posted[c]["server"])
      /\ Joint("server", s, queue[c]["server"], p, posted[c]["page"])
      /\ posted[c]["page"] <= p.opened
  BY EndFacts DEF End, Other, PortInv
<1>2. reg[c] = "new" /\ queue' = queue /\ posted' = posted
  BY DEF dialWorker
<1>3. /\ posted' \in [Chan -> [End -> Nat]] /\ queue' \in [Chan -> [End -> Seq(Msgs)]]
      /\ s.pump = "off"
  BY <1>2 DEF PortInv, ChanInv
<1>4. /\ p1 \in PortObject /\ p1.rx = p.rx /\ p1.got = p.got /\ p1.heard = p.heard
      /\ p1.dead = p.dead /\ p1.pump = "on" /\ p1.said = p.said /\ p1.opened = p.opened
      /\ p1.closed = p.closed /\ p1.torn = p.torn /\ p1.live = p.live
  BY Zenon, <1>1 DEF PortObject
<1>5. CASE reg' = [reg EXCEPT ![c] = "handed"] /\ ends' = [ends EXCEPT ![c]["page"].pump = "on"]
  <2>1. ends' = [ends EXCEPT ![c]["page"] = p1]
    BY <1>5 DEF PortInv
  <2> HIDE DEF p1
  <2>2. Own("page", p1)
    BY Zenon, <1>1, <1>4 DEF Own
  <2>3. Joint("page", p1, queue[c]["page"], s, posted[c]["server"])
    BY Zenon, <1>1, <1>4, JointKept
  <2>4. Joint("server", s, queue[c]["server"], p1, posted[c]["page"])
    BY Zenon, <1>1, <1>4, JointKept
  <2>5. /\ reg' \in [Chan -> {"new", "handed", "bound", "served", "dropped"}]
        /\ \A d \in Chan : d # c => reg'[d] = reg[d]
    BY <1>5 DEF PortInv
  <2> QED
    BY Zenon, <1>1, <1>2, <1>3, <1>4, <2>1, <2>2, <2>3, <2>4, <2>5, OneEnd
<1>6. CASE /\ reg' = [reg EXCEPT ![c] = "dropped"]
           /\ ends' = [ends EXCEPT ![c] = [page |-> close(p1),
                                           server |-> [fail(s) EXCEPT !.closed = TRUE]]]
  <2> DEFINE p2 == close(p1)
             s2 == [fail(s) EXCEPT !.closed = TRUE]
  <2>0. p1.closed => p1.dead
    BY <1>1, <1>4 DEF Own
  <2> HIDE DEF p1
  <2>1. /\ p2 \in PortObject /\ ClosedAs(p1, p2) /\ p2.pump = p1.pump /\ p2.torn = p1.torn
        /\ p2.live = p1.live
    BY <1>4, <2>0, CloseFields
  <2>2. /\ s2 \in PortObject /\ s2.rx = s.rx /\ s2.got = s.got /\ s2.heard = s.heard
        /\ s2.dead /\ s2.pump = s.pump /\ s2.said = s.said /\ s2.closed
        /\ s2.torn = s.torn /\ s2.live = s.live
    BY Zenon, <1>1 DEF PortObject, fail
  <2>3. ends' = [ends EXCEPT ![c] = [page |-> p2, server |-> s2]]
    BY <1>6
  <2> HIDE DEF p2, s2
  <2>4. /\ ends' \in [Chan -> [End -> PortObject]] /\ ends'[c]["page"] = p2
        /\ ends'[c]["server"] = s2 /\ \A d \in Chan : d # c => ends'[d] = ends[d]
    <3>1. [page |-> p2, server |-> s2] \in [End -> PortObject]
      BY <2>1, <2>2 DEF End
    <3> QED
      BY <2>3, <3>1 DEF PortInv
  <2>5. /\ reg' \in [Chan -> {"new", "handed", "bound", "served", "dropped"}]
        /\ reg'[c] = "dropped" /\ \A d \in Chan : d # c => reg'[d] = reg[d]
    BY <1>6 DEF PortInv
  <2>6. p1.said => p2.said
    BY Zenon, <1>1, <1>4, <2>1 DEF Own, ClosedAs
  <2>7. Joint("page", p2, queue[c]["page"], s2, posted[c]["server"])
    <3>1. Joint("page", p1, queue[c]["page"], s, posted[c]["server"])
      BY Zenon, <1>1, <1>4, JointKept
    <3>2. p2.rx = p1.rx /\ p2.got = p1.got /\ p2.heard = p1.heard /\ p2.dead /\ p2.pump = p1.pump
      BY <2>1 DEF ClosedAs
    <3> QED
      BY Zenon, <2>1, <2>2, <3>1, <3>2, JointKept
  <2>8. Joint("server", s2, queue[c]["server"], p2, posted[c]["page"])
    BY Zenon, <1>1, <1>4, <2>2, <2>6, JointKept
  <2>9. Own("page", p2) /\ Own("server", s2)
    BY Zenon, <1>1, <1>4, <2>1, <2>2 DEF Own, ClosedAs
  <2>10. posted[c]["page"] <= p2.opened
    BY Zenon, <1>1, <1>4, <2>1 DEF ClosedAs
  <2>11. ChanInv(c)'
    BY Zenon, <1>1, <1>2, <2>4, <2>5, <2>7, <2>8, <2>9, <2>10 DEF ChanInv, End
  <2>12. \A d \in Chan : d # c => ChanInv(d)'
    BY <1>2, <2>4, <2>5 DEF PortInv, ChanInv
  <2> QED
    BY Zenon, <1>3, <2>4, <2>5, <2>11, <2>12 DEF PortInv
<1> QED
  BY <1>5, <1>6, Zenon DEF dialWorker

LEMMA BindPort ==
  ASSUME PortInv, NEW c \in Chan, bindPort(c) PROVE PortInv'
<1>1. /\ reg[c] = "handed" /\ reg' = [reg EXCEPT ![c] = "bound"] /\ UNCHANGED <<ends, queue, posted>>
  BY DEF bindPort
<1>2. /\ reg' \in [Chan -> {"new", "handed", "bound", "served", "dropped"}]
      /\ \A d \in Chan : d # c => reg'[d] = reg[d]
  BY <1>1 DEF PortInv
<1>3. \A d \in Chan : ChanInv(d)'
  BY <1>1, <1>2 DEF PortInv, ChanInv
<1> QED
  BY <1>1, <1>2, <1>3 DEF PortInv

LEMMA GatewayClosePort ==
  ASSUME PortInv, gatewayClose PROVE PortInv'
<1> DEFINE B == {c \in Chan : reg[c] \in {"bound", "served"} /\ ~ends[c]["server"].closed}
<1>1. /\ ends' = [c \in Chan |-> IF c \in B THEN [ends[c] EXCEPT !["server"] = close(@)] ELSE ends[c]]
      /\ queue' = [c \in Chan |-> IF c \in B THEN Farewell(c, "server")[c] ELSE queue[c]]
      /\ UNCHANGED <<reg, posted>>
  BY DEF gatewayClose
<1>2. ASSUME NEW c \in Chan
      PROVE  /\ ends'[c] \in [End -> PortObject] /\ queue'[c] \in [End -> Seq(Msgs)]
             /\ ChanInv(c)'
  <2>1. CASE c \notin B
    BY Zenon, <1>1, <2>1 DEF PortInv, ChanInv
  <2>2. CASE c \in B
    <3> DEFINE p == ends[c]["server"]
               p2 == close(p)
    <3>1. "server" \in End /\ p \in PortObject /\ Own("server", p)
      BY Zenon, EndFacts DEF End
    <3>2. /\ p2 \in PortObject /\ ClosedAs(p, p2) /\ p2.pump = p.pump /\ p2.torn = p.torn
          /\ p2.live = p.live
      BY Zenon, <3>1, CloseFields DEF Own
    <3>3. /\ ends'[c] = [ends[c] EXCEPT !["server"] = p2]
          /\ queue'[c] = Farewell(c, "server")[c]
      BY Zenon, <1>1, <2>2
    <3> HIDE DEF p2
    <3>4. Own("server", p2)
      BY Zenon, <3>1, <3>2 DEF Own, ClosedAs
    <3>5. reg[c] \in {"new", "handed", "bound"} => p2.pump = "off"
      BY <3>2 DEF PortInv, ChanInv
    <3>6. reg'[c] = reg[c] /\ posted'[c] = posted[c]
      BY <1>1
    <3>7. ChanInv(c)'
      BY Zenon, <3>1, <3>2, <3>3, <3>4, <3>5, <3>6, CloseChan
    <3>8. queue'[c] \in [End -> Seq(Msgs)]
      BY <3>1, <3>3, FarewellQueues
    <3>9. ends'[c] \in [End -> PortObject]
      <4>1. ends[c] \in [End -> PortObject]
        BY DEF PortInv
      <4> QED
        BY Zenon, <3>2, <3>3, <4>1
    <3> QED
      BY <3>7, <3>8, <3>9
  <2> QED
    BY Zenon, <2>1, <2>2
<1>3. DOMAIN ends' = Chan /\ DOMAIN queue' = Chan
  BY <1>1
<1>4. ends' \in [Chan -> [End -> PortObject]] /\ queue' \in [Chan -> [End -> Seq(Msgs)]]
  BY Zenon, <1>1, <1>2
<1> QED
  BY Zenon, <1>1, <1>2, <1>4 DEF PortInv

LEMMA PortInvInit == PortInit => PortInv
<1> SUFFICES ASSUME PortInit PROVE PortInv
  OBVIOUS
<1>1. NewPort \in PortObject
  BY DEF NewPort, PortObject
<1>2. ASSUME NEW e PROVE Joint(e, NewPort, <<>>, NewPort, 0)
  <2>1. Len(<<>>) = 0 /\ <<>> \in Seq(MsgTo(e))
    OBVIOUS
  <2> QED
    BY <1>1, <2>1, CountEmpty DEF Joint, NewPort, HasBye
<1>3. ASSUME NEW e PROVE Own(e, NewPort)
  BY DEF Own, NewPort
<1>4. /\ ends \in [Chan -> [End -> PortObject]]
      /\ queue \in [Chan -> [End -> Seq(Msgs)]]
      /\ reg \in [Chan -> {"new", "handed", "bound", "served", "dropped"}]
      /\ posted \in [Chan -> [End -> Nat]]
  BY <1>1 DEF PortInit
<1>5. ASSUME NEW c \in Chan PROVE ChanInv(c)
  <2>1. \A e \in End : /\ Other(e) \in End /\ ends[c][e] = NewPort /\ queue[c][e] = <<>>
                         /\ posted[c][e] = 0
    BY DEF PortInit, End, Other
  <2>2. "page" \in End /\ "server" \in End
    BY DEF End
  <2>3. NewPort.pump = "off" /\ NewPort.opened = 0
    BY DEF NewPort
  <2> QED
    BY <1>2, <1>3, <2>1, <2>2, <2>3 DEF ChanInv
<1> QED
  BY <1>4, <1>5 DEF PortInv

LEMMA PortInvStep == PortInv /\ [PortNext]_(portVars) => PortInv'
<1> SUFFICES ASSUME PortInv, [PortNext]_(portVars) PROVE PortInv'
  OBVIOUS
<1>0. "page" \in End /\ "server" \in End
  BY DEF End
<1>1. ASSUME NEW c \in Chan, PageTurn(c) \/ WorkerTurn(c) PROVE PortInv'
  BY <1>0, <1>1, OnMessagePort, PumpPort, UnpackStep, ConnClosePort, ServePeerPort, ServeExitPort
  DEF PageTurn, WorkerTurn, Turn
<1>2. ASSUME NEW c \in Chan, dialWorker(c) \/ invoke(c) \/ connClose(c) PROVE PortInv'
  BY <1>2, DialPort, InvokePort, ConnClosePort
<1>3. ASSUME NEW c \in Chan, transportClose(c) \/ abort(c) PROVE PortInv'
  <2>1. PICK e \in End : /\ ends' = [ends EXCEPT ![c][e] = close(ends[c][e])]
                           /\ queue' = Farewell(c, e) /\ UNCHANGED <<reg, posted>>
    BY <1>0, <1>3 DEF transportClose, abort
  <2> QED
    BY Zenon, <2>1, ClosePort
<1>4. ASSUME NEW c \in Chan, bindPort(c) \/ finish(c) PROVE PortInv'
  BY <1>4, BindPort, FinishPort
<1>5. ASSUME NEW c \in Chan, NEW e \in End, onClose(c, e) \/ Foreign(c, e) PROVE PortInv'
  BY <1>5, FailStep, ForeignPort
<1>6. CASE gatewayClose
  BY <1>6, GatewayClosePort
<1>7. CASE UNCHANGED portVars
  <2>1. UNCHANGED <<ends, queue, reg, posted>>
    BY <1>7 DEF portVars
  <2> QED
    BY <2>1 DEF PortInv, ChanInv
<1> QED
  BY <1>1, <1>2, <1>3, <1>4, <1>5, <1>6, <1>7, Zenon DEF PortNext

\* Every message is one the adapter knows, a Port that released its channel is
\* dead, and neither end ever counts more live calls than the page opened: an
\* OPEN is handled once (Port.pump), whatever was closed in between.
THEOREM PortTypeCorrect == PortSpec => []PortTypeOK
<1>1. PortInv => PortTypeOK
  <2> SUFFICES ASSUME PortInv, NEW c \in Chan, NEW e \in End
               PROVE  /\ ends[c][e].live <= ends[c]["page"].opened
                      /\ ends[c][e].closed => ends[c][e].dead
    BY DEF PortInv, PortTypeOK
  <2>1. Own(e, ends[c][e]) /\ ends[c][e] \in PortObject
    BY EndFacts
  <2>2. CASE e = "page"
    BY Zenon, <2>1, <2>2 DEF Own
  <2>3. CASE e = "server"
    <3> DEFINE s == ends[c]["server"]
               p == ends[c]["page"]
    <3>1. /\ Joint("server", s, queue[c]["server"], p, posted[c]["page"])
          /\ posted[c]["page"] <= p.opened /\ p \in PortObject
      BY <2>3, EndFacts DEF Other, End, PortInv
    <3>2. s.got + Count(s.rx) + Count(queue[c]["server"]) <= posted[c]["page"]
      BY Zenon, <3>1 DEF Joint
    <3>3. /\ Count(s.rx) \in Nat /\ Count(queue[c]["server"]) \in Nat /\ s.got \in Nat
          /\ posted[c]["page"] \in Nat /\ s.live \in Nat /\ p.opened \in Nat
      BY Zenon, <2>1, <2>3, <3>1, MsgsTo DEF Joint, PortObject
    <3>4. s.live <= s.got
      BY <2>1, <2>3 DEF Own
    <3>5. s.live <= p.opened
      BY <3>1, <3>2, <3>3, <3>4
    <3> QED
      BY <2>1, <2>3, <3>5 DEF Own
  <2> QED
    BY <2>2, <2>3 DEF End
<1> QED
  BY <1>1, PortInvInit, PortInvStep, PTL DEF PortSpec

\* Port.close posts its goodbye last and Port.onMessage keeps the order, so an end
\* that read a goodbye has handled every frame the other end's send accepted;
\* and Port.pump never returns over a received message.
THEOREM FlushComesFirst == PortSpec => []FlushedBeforeTeardown
<1>1. PortInv => FlushedBeforeTeardown
  <2> SUFFICES ASSUME PortInv, NEW c \in Chan, NEW e \in End
               PROVE  /\ ends[c][e].heard => /\ ends[c][Other(e)].said
                                             /\ ends[c][e].got = posted[c][Other(e)]
                      /\ ends[c][e].pump = "done" => ends[c][e].rx = <<>>
    BY DEF FlushedBeforeTeardown
  <2>1. Joint(e, ends[c][e], queue[c][e], ends[c][Other(e)], posted[c][Other(e)])
    BY Zenon, EndFacts
  <2> QED
    BY Zenon, <2>1 DEF Joint
<1> QED
  BY <1>1, PortInvInit, PortInvStep, PTL DEF PortSpec

\* After conn.close at the page or disconnectPeer at the gateway no call of the
\* channel is live there again: PortGateway.servePeer awaits the pump first, and
\* a page's buffer holds no OPEN.
THEOREM NothingAfterTeardown == PortSpec => []TeardownIsLast
<1>1. PortInv => TeardownIsLast
  BY Zenon, EndFacts DEF TeardownIsLast, Own
<1> QED
  BY <1>1, PortInvInit, PortInvStep, PTL DEF PortSpec
=============================================================================
