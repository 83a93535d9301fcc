--------------------------- MODULE SequenceProofs ---------------------------
(***************************************************************************)
(* Proofs about one direction of a stream (module Sequence), for every     *)
(* number space, window, loudness and queue capacity. The receiver sees    *)
(* numbers modulo Modulus only; the invariant says that they stand for     *)
(* numbers it can tell apart, and what the queue and the counters make of  *)
(* them.                                                                   *)
(***************************************************************************)
EXTENDS Sequence, SequenceTheorems, WellFoundedInduction, TLAPS

\* A set of numbers that is not empty has a least one.
LEMMA MinOfNats ==
  ASSUME NEW S \in SUBSET Nat, S # {}
  PROVE  Min(S) \in S /\ \A y \in S : Min(S) <= y
<1> DEFINE R == OpToRel(<, Nat)
<1>1. \E x \in S : \A y \in S : ~(<<y, x>> \in R)
  <2>1. IsWellFoundedOn(R, Nat)
    BY Zenon, NatLessThanWellFounded
  <2> HIDE DEF R
  <2> QED
    BY Zenon, <2>1, WFMin
<1>2. \A x \in S, y \in S : y < x => <<y, x>> \in R
  BY DEF OpToRel
<1> HIDE DEF R
<1>3. \E x \in S : \A y \in S : x <= y
  <2>1. PICK x \in S : \A y \in S : ~(<<y, x>> \in R)
    BY <1>1
  <2>2. \A y \in S : ~(y < x)
    BY Zenon, <1>2, <2>1
  <2>3. \A y \in S : x <= y
    BY <2>2
  <2> QED
    BY <2>3
<1> QED
  BY Zenon, <1>3 DEF Min

\* What % is, for any modulus.
LEMMA ModIs ==
  ASSUME NEW m \in Nat, m > 0, NEW a \in Int, NEW k \in Int, NEW r \in 0..m - 1, a = k * m + r
  PROVE  a % m = r
  OBVIOUS

LEMMA ModOf ==
  ASSUME NEW m \in Nat, m > 0, NEW a \in Int
  PROVE  a % m \in 0..m - 1 /\ \E k \in Int : a = k * m + (a % m)
  OBVIOUS

\* The distance check computes from wire numbers is the distance of the numbers,
\* as long as they are less than the number space apart.
Gap(a, b, m) == ((a % m) - (b % m)) % m

LEMMA Distance ==
  ASSUME NEW m \in Nat, m > 0, NEW a \in Int, NEW b \in Int, -m < a - b, a - b < m
  PROVE  Gap(a, b, m) = IF a >= b THEN a - b ELSE m + (a - b)
<1>1. PICK i \in Int : a = i * m + (a % m)
  BY ModOf
<1>2. PICK j \in Int : b = j * m + (b % m)
  BY ModOf
<1> DEFINE s == a % m
           l == b % m
           r == IF a >= b THEN a - b ELSE m + (a - b)
<1>3. s \in Int /\ l \in Int /\ r \in 0..m - 1
  BY ModOf
<1>4. CASE a >= b
  <2>1. s - l = (j - i) * m + r
    <3>1. a = i * m + s /\ b = j * m + l /\ r = a - b
      BY <1>1, <1>2, <1>4
    <3>2. (j - i) * m = j * m - i * m /\ j * m \in Int /\ i * m \in Int
      OBVIOUS
    <3> HIDE DEF s, l, r
    <3> QED
      BY <1>3, <3>1, <3>2
  <2>2. s - l \in Int /\ j - i \in Int
    BY <1>3
  <2> HIDE DEF s, l, r
  <2>3. (s - l) % m = r
    BY <1>3, <2>1, <2>2, ModIs
  <2> QED
    BY <2>3 DEF s, l, r, Gap
<1>5. CASE ~(a >= b)
  <2>1. s - l = (j - i - 1) * m + r
    <3>1. a = i * m + s /\ b = j * m + l /\ r = m + (a - b)
      BY <1>1, <1>2, <1>5
    <3>2. (j - i - 1) * m = j * m - i * m - m /\ j * m \in Int /\ i * m \in Int
      OBVIOUS
    <3> HIDE DEF s, l, r
    <3> QED
      BY <1>3, <3>1, <3>2
  <2>2. s - l \in Int /\ j - i - 1 \in Int
    BY <1>3
  <2> HIDE DEF s, l, r
  <2>3. (s - l) % m = r
    BY <1>3, <2>1, <2>2, ModIs
  <2> QED
    BY <2>3 DEF s, l, r, Gap
<1> QED
  BY <1>4, <1>5

-----------------------------------------------------------------------------
(***************************************************************************)
(* The inductive invariant.                                                *)
(***************************************************************************)

\* The highest number that a frame in the channel may have.
SentTop == IF refused # 0 /\ refused = v THEN v - 1 ELSE v

KInv ==
  /\ mode \in {"strict", "newest", "oldest"}
  /\ v \in Nat /\ refused \in Nat /\ top \in Nat /\ read \in Nat
  /\ net \in SUBSET (Nat \ {0})
  /\ rx \in [l : Nat, beyondN : Nat, beyondLast : Nat]
  /\ queue \in Seq(Nat)
  /\ counted \in Nat
  /\ failed \in {"no", "loss", "protocol"}

\* The sender: what it has given out, what a refusal may take back, and how old
\* a frame in the channel may be.
NInv ==
  /\ refused <= v
  /\ tx # "open" => refused < v /\ (~tardy => refused = 0)
  /\ top <= SentTop /\ v - top < Half
  /\ \A n \in net : n <= SentTop /\ v - n < Half

\* The receiver's number stands for the highest accepted frame, and a loss is
\* one whatever refusal is still to come.
WInv ==
  /\ rx.l = top % Modulus
  /\ failed = "loss" => Loose /\ SentTop - top > WFwd

\* The numbers of q ascend, above lo and up to hi.
Ascends(q, lo, hi) ==
  /\ \A i \in 1..Len(q) : lo < q[i] /\ q[i] <= hi
  /\ \A i, j \in 1..Len(q) : i < j => q[i] < q[j]

QInv == read <= top /\ Ascends(queue, read, top)

AInv == Loose => counted + Len(queue) = top

\* A strict stream that was not ended behind a refused frame and has numbers left
\* holds exactly the frames between the window and the sender.
FInv ==
  /\ ~Loose => \A n \in net : n > top
  /\ ~Loose /\ ~tardy /\ top + 1 < Modulus =>
       /\ failed = "no"
       /\ \A n \in Nat : top < n /\ n <= SentTop => n \in net
  /\ Loose => failed # "protocol"

SeqInv == KInv /\ NInv /\ WInv /\ QInv /\ AInv /\ FInv

LEMMA HalfFacts == Half \in Nat /\ 0 < Half /\ 2 * Half <= Modulus
  BY NumberSpace DEF Half

LEMMA SeqInitInv == SeqInit => SeqInv
<1> SUFFICES ASSUME SeqInit
             PROVE  SeqInv
  OBVIOUS
<1>1. KInv
  BY DEF SeqInit, KInv
<1>2. NInv
  BY HalfFacts DEF SeqInit, NInv, SentTop
<1>3. WInv
  <2>1. 0 % Modulus = 0
    BY NumberSpace
  <2> QED
    BY <2>1 DEF SeqInit, WInv
<1>4. QInv /\ AInv
  BY DEF SeqInit, QInv, Ascends, AInv
<1>5. FInv
  BY DEF SeqInit, FInv, SentTop
<1> QED
  BY <1>1, <1>2, <1>3, <1>4, <1>5 DEF SeqInv

-----------------------------------------------------------------------------
(***************************************************************************)
(* The sender, the channel and the application.                            *)
(***************************************************************************)

\* What a step of the sender or of the channel leaves alone.
LEMMA Apart ==
  ASSUME SeqInv, UNCHANGED <<mode, rx, top, queue, read, counted, failed>>,
         v' \in Nat, refused' \in Nat, net' \in SUBSET (Nat \ {0}),
         SentTop' >= SentTop, NInv', FInv'
  PROVE  SeqInv'
<1>1. KInv' /\ QInv'
  BY DEF SeqInv, KInv, QInv
<1>2. AInv'
  BY DEF SeqInv, AInv, Loose
<1>3. SentTop \in Int /\ SentTop' \in Int /\ top \in Int
  BY DEF SeqInv, KInv, SentTop
<1>4. WInv'
  <2>1. rx'.l = top' % Modulus
    BY Zenon DEF SeqInv, WInv
  <2>2. failed' = "loss" => Loose' /\ SentTop - top > WFwd
    BY DEF SeqInv, WInv, Loose
  <2>3. SentTop - top > WFwd => SentTop' - top' > WFwd
    <3>1. top' = top /\ WFwd \in Nat /\ SentTop' >= SentTop
      BY NumberSpace
    <3>2. \A a, b, c, w \in Int : a >= b /\ b - c > w => a - c > w
      OBVIOUS
    <3>3. WFwd \in Int
      BY NumberSpace
    <3> QED
      BY Zenon, <1>3, <3>1, <3>2, <3>3
  <2> QED
    BY <2>1, <2>2, <2>3 DEF WInv
<1> QED
  BY <1>1, <1>2, <1>4 DEF SeqInv

LEMMA SentKeeps == ASSUME SeqInv, Sent PROVE SeqInv'
<1> USE HalfFacts, NumberSpace
<1>1. /\ tx = "open" /\ refused = 0 /\ v' = v + 1 /\ net' = net \cup {v + 1}
      /\ v + 1 - top < Half /\ \A n \in net : v + 1 - n < Half
      /\ UNCHANGED <<mode, refused, tx, tardy, rx, top, queue, read, counted, failed>>
  BY DEF Sent, next, Young
<1>2. KInv /\ NInv /\ FInv
  BY DEF SeqInv
<1>3. SentTop' = v + 1 /\ SentTop = v
  BY <1>1, <1>2 DEF SentTop, KInv
<1>4. NInv'
  BY <1>1, <1>2, <1>3 DEF NInv, KInv
<1>5. FInv'
  BY <1>1, <1>2, <1>3 DEF FInv, NInv, KInv, Loose
<1>6. v' \in Nat /\ refused' \in Nat /\ net' \in SUBSET (Nat \ {0})
  BY <1>1, <1>2 DEF KInv
<1>7. SentTop' >= SentTop
  BY <1>2, <1>3 DEF KInv
<1> QED
  BY <1>1, <1>3, <1>4, <1>5, <1>6, <1>7, Apart

LEMMA RefusedKeeps == ASSUME SeqInv, Refused PROVE SeqInv'
<1> USE HalfFacts, NumberSpace
<1>1. /\ tx = "open" /\ refused = 0 /\ v' = v + 1 /\ refused' = v + 1
      /\ v + 1 - top < Half /\ \A n \in net : v + 1 - n < Half
      /\ UNCHANGED <<mode, tx, tardy, net, rx, top, queue, read, counted, failed>>
  BY DEF Refused, next, Young
<1>2. KInv /\ NInv /\ FInv
  BY DEF SeqInv
<1>3. SentTop' = v /\ SentTop = v
  BY <1>1, <1>2 DEF SentTop, KInv
<1>4. NInv'
  BY <1>1, <1>2, <1>3 DEF NInv, KInv
<1>5. FInv'
  BY <1>1, <1>2, <1>3 DEF FInv, NInv, KInv, Loose
<1>6. v' \in Nat /\ refused' \in Nat /\ net' \in SUBSET (Nat \ {0})
  BY <1>1, <1>2 DEF KInv
<1>7. SentTop' >= SentTop
  BY <1>2, <1>3 DEF KInv
<1> QED
  BY <1>1, <1>3, <1>4, <1>5, <1>6, <1>7, Apart

LEMMA UndoKeeps == ASSUME SeqInv, undo PROVE SeqInv'
<1> USE HalfFacts, NumberSpace
<1>1. /\ refused # 0 /\ refused' = 0 /\ v' = (IF v = refused THEN v - 1 ELSE v)
      /\ UNCHANGED <<mode, tx, tardy, net, rx, top, queue, read, counted, failed>>
  BY DEF undo
<1>2. KInv /\ NInv /\ FInv
  BY DEF SeqInv
<1>3. SentTop' = v' /\ SentTop = v' /\ v' \in Nat /\ v' <= v
  BY <1>1, <1>2 DEF SentTop, KInv
<1>4. NInv'
  BY <1>1, <1>2, <1>3 DEF NInv, KInv
<1>5. FInv'
  BY <1>1, <1>2, <1>3 DEF FInv, NInv, KInv, Loose
<1>6. v' \in Nat /\ refused' \in Nat /\ net' \in SUBSET (Nat \ {0})
  BY <1>1, <1>2, <1>3 DEF KInv
<1>7. SentTop' >= SentTop
  BY <1>2, <1>3 DEF KInv
<1> QED
  BY <1>1, <1>3, <1>4, <1>5, <1>6, <1>7, Apart

LEMMA EndedKeeps ==
  ASSUME SeqInv, NEW state \in {"half", "over"}, Ended(state)
  PROVE  SeqInv'
<1> USE HalfFacts, NumberSpace
<1>1. /\ v' = v + 1 /\ tx' # "open" /\ net' = net \cup {v + 1}
      /\ tardy' = (tardy \/ refused # 0)
      /\ v + 1 - top < Half /\ \A n \in net : v + 1 - n < Half
      /\ UNCHANGED <<mode, refused, rx, top, queue, read, counted, failed>>
  BY DEF Ended, next, Young
<1>2. KInv /\ NInv /\ FInv
  BY DEF SeqInv
<1>3. SentTop' = v + 1 /\ SentTop \in Int /\ SentTop <= v
  BY <1>1, <1>2 DEF SentTop, KInv, NInv
<1>4. ~tardy' => ~tardy /\ refused = 0 /\ SentTop = v
  BY <1>1, <1>2 DEF KInv, SentTop
<1>5. NInv'
  BY <1>1, <1>2, <1>3, <1>4 DEF NInv, KInv
<1>6. FInv'
  BY <1>1, <1>2, <1>3, <1>4 DEF FInv, NInv, KInv, Loose
<1>7. v' \in Nat /\ refused' \in Nat /\ net' \in SUBSET (Nat \ {0})
  BY <1>1, <1>2 DEF KInv
<1>8. SentTop' >= SentTop
  BY <1>2, <1>3 DEF KInv
<1> QED
  BY <1>1, <1>4, <1>5, <1>6, <1>7, <1>8, Apart

LEMMA CloseKeeps == ASSUME SeqInv, closeSend PROVE SeqInv'
  BY EndedKeeps DEF closeSend

LEMMA AbortKeeps == ASSUME SeqInv, sendAbort PROVE SeqInv'
  BY EndedKeeps DEF sendAbort

LEMMA LoseKeeps == ASSUME SeqInv, Lose PROVE SeqInv'
<1>1. /\ Loose /\ net' \subseteq net
      /\ UNCHANGED <<mode, v, refused, tx, tardy, rx, top, queue, read, counted, failed>>
  BY DEF Lose
<1>2. SentTop' = SentTop /\ Loose'
  BY <1>1 DEF SentTop, Loose
<1>3. NInv' /\ FInv'
  BY <1>1, <1>2 DEF SeqInv, NInv, FInv
<1>4. v' \in Nat /\ refused' \in Nat /\ net' \in SUBSET (Nat \ {0})
  BY <1>1 DEF SeqInv, KInv
<1>5. SentTop' >= SentTop
  BY <1>2 DEF SeqInv, KInv, SentTop
<1> QED
  BY <1>1, <1>2, <1>3, <1>4, <1>5, Apart

LEMMA RecvKeeps == ASSUME SeqInv, recv PROVE SeqInv'
<1>1. /\ queue # <<>> /\ read' = Head(queue) /\ queue' = Tail(queue)
      /\ counted' = counted + 1
      /\ UNCHANGED <<mode, v, refused, tx, tardy, net, rx, top, failed>>
  BY DEF recv
<1>2. KInv /\ NInv /\ WInv /\ QInv /\ AInv /\ FInv
  BY DEF SeqInv
<1>3. /\ Len(queue) \in Nat \ {0} /\ Len(queue') = Len(queue) - 1
      /\ queue' \in Seq(Nat) /\ read' = queue[1] /\ read' \in Nat
      /\ \A i \in 1..Len(queue') : queue'[i] = queue[i + 1]
  <2>1. queue \in Seq(Nat) /\ queue # <<>>
    BY <1>1, <1>2 DEF KInv
  <2>2. /\ Len(queue) \in Nat \ {0} /\ Len(Tail(queue)) = Len(queue) - 1
        /\ Tail(queue) \in Seq(Nat) /\ Head(queue) \in Nat
        /\ \A i \in 1..Len(Tail(queue)) : Tail(queue)[i] = queue[i + 1]
    BY <2>1, HeadTailProperties, EmptySeq, LenProperties
  <2>3. Head(queue) = queue[1]
    BY <2>1
  <2> QED
    BY <1>1, <2>2, <2>3
<1>4. counted' \in Nat
  BY <1>1, <1>2 DEF KInv
<1>5. KInv'
  BY <1>1, <1>2, <1>3, <1>4 DEF KInv
<1>6. SentTop' = SentTop /\ Loose' = Loose
  BY <1>1 DEF SentTop, Loose
<1>7. NInv' /\ WInv' /\ FInv'
  <2>1. NInv'
    BY <1>1, <1>2, <1>6 DEF NInv
  <2>2. WInv'
    BY Zenon, <1>1, <1>2, <1>6 DEF WInv
  <2>3. FInv'
    BY <1>1, <1>2, <1>6 DEF FInv
  <2> QED
    BY <2>1, <2>2, <2>3
<1>8. QInv'
  <2>1. \A i \in 1..Len(queue') : i + 1 \in 1..Len(queue)
    BY <1>3
  <2>2. read' <= top'
    BY <1>1, <1>2, <1>3 DEF QInv, Ascends
  <2>3. \A i \in 1..Len(queue') : read' < queue'[i] /\ queue'[i] <= top'
    <3> TAKE i \in 1..Len(queue')
    <3>1. 1 \in 1..Len(queue) /\ i + 1 \in 1..Len(queue) /\ 1 < i + 1
      BY <1>3
    <3>2. queue[1] < queue[i + 1] /\ queue[i + 1] <= top
      BY <1>2, <3>1 DEF QInv, Ascends
    <3> QED
      BY <1>1, <1>3, <3>2
  <2>4. \A i, j \in 1..Len(queue') : i < j => queue'[i] < queue'[j]
    <3> TAKE i, j \in 1..Len(queue')
    <3> HAVE i < j
    <3>1. i + 1 < j + 1 /\ i + 1 \in 1..Len(queue) /\ j + 1 \in 1..Len(queue)
      BY <1>3
    <3>2. queue[i + 1] < queue[j + 1]
      BY <1>2, <3>1 DEF QInv, Ascends
    <3> QED
      BY <1>3, <3>2
  <2> QED
    BY <2>2, <2>3, <2>4 DEF QInv, Ascends
<1>9. AInv'
  <2>1. Loose => counted + Len(queue) = top
    BY <1>2 DEF AInv
  <2>2. counted \in Int /\ Len(queue) \in Int /\ top \in Int
    BY <1>2, <1>3 DEF KInv
  <2>3. counted' + Len(queue') = counted + Len(queue)
    BY <1>1, <1>3, <2>2
  <2> QED
    BY <1>1, <1>6, <2>1, <2>3 DEF AInv
<1> QED
  BY <1>5, <1>7, <1>8, <1>9 DEF SeqInv

-----------------------------------------------------------------------------
(***************************************************************************)
(* The receiver.                                                           *)
(***************************************************************************)

\* What check makes of a frame in the channel, in terms of its number.
LEMMA CheckFacts ==
  ASSUME KInv, NInv, WInv, KLoud \in Nat, NEW n \in net, NEW c, c = check(rx, n % Modulus)
  PROVE  /\ c.verdict \in {"accept", "dup", "beyond", "loss", "protocol"}
         /\ c.rx \in [l : Nat, beyondN : Nat, beyondLast : Nat]
         /\ c.rx.l = IF c.verdict = "accept" THEN n % Modulus ELSE rx.l
         /\ c.verdict = "accept" /\ Loose => n > top /\ c.gap = n - top - 1
         /\ c.verdict = "accept" /\ ~Loose => c.gap = 0
         /\ c.verdict = "loss" => Loose /\ n - top > WFwd
         /\ c.verdict = "protocol" => ~Loose
         /\ ~Loose /\ n = top + 1 /\ n < Modulus => c.verdict = "accept"
<1> DEFINE s == n % Modulus
           d == (s - rx.l) % Modulus
           m == IF rx.beyondN > 0 /\ (s - rx.beyondLast) % Modulus <= WFwd
                THEN rx.beyondN + 1 ELSE 1
<1>1. /\ n \in Nat \ {0} /\ top \in Nat /\ s \in Nat /\ m \in Nat
      /\ rx \in [l : Nat, beyondN : Nat, beyondLast : Nat]
  BY NumberSpace, ModOf DEF KInv
<1>2. -Half < n - top /\ n - top < Half
  <2>1. /\ n <= SentTop /\ v - n < Half /\ top <= SentTop /\ v - top < Half /\ SentTop <= v
        /\ v \in Nat /\ SentTop \in Int
    BY DEF NInv, KInv, SentTop
  <2> QED
    BY <1>1, <2>1, HalfFacts
<1>3. d = IF n >= top THEN n - top ELSE Modulus + (n - top)
  <2>1. -Modulus < n - top /\ n - top < Modulus /\ Modulus > 0
    BY <1>1, <1>2, HalfFacts, NumberSpace
  <2>2. rx.l = top % Modulus
    BY DEF WInv
  <2>3. Gap(n, top, Modulus) = IF n >= top THEN n - top ELSE Modulus + (n - top)
    <3>1. n \in Int /\ top \in Int /\ Modulus \in Nat
      BY <1>1, NumberSpace
    <3> QED
      BY Zenon, <2>1, <3>1, Distance
  <2> QED
    BY Zenon, <2>2, <2>3 DEF Gap
<1>4. /\ n > top /\ d = n - top
      \/ (d = 0 \/ d >= Half)
  <2>1. n < top => d >= Half
    BY <1>1, <1>2, <1>3, HalfFacts, NumberSpace
  <2> QED
    BY <1>1, <1>3, <2>1
<1>5. CASE s = 0
  <2>1. c = Verdict("beyond", rx, 0)
    BY <1>5 DEF check
  <2>3. n < Modulus => n % Modulus = n
    BY <1>1, NumberSpace
  <2> QED
    BY <1>1, <1>5, <2>1, <2>3 DEF Verdict
<1>6. CASE s # 0 /\ ~Loose
  <2>1. CASE s = (rx.l + 1) % Modulus
    <3>1. c = Verdict("accept", [rx EXCEPT !.l = s], 0)
      BY <1>6, <2>1 DEF check
    <3> HIDE DEF s
    <3>2. c.verdict = "accept" /\ c.rx = [rx EXCEPT !.l = s] /\ c.gap = 0
      BY <3>1 DEF Verdict
    <3>3. c.rx \in [l : Nat, beyondN : Nat, beyondLast : Nat] /\ c.rx.l = s
      BY <1>1, <3>2
    <3> QED
      BY <1>6, <3>2, <3>3 DEF s
  <2>2. CASE s # (rx.l + 1) % Modulus
    <3>1. c = Verdict("protocol", rx, 0)
      BY <1>6, <2>2 DEF check
    <3>2. ~(n = top + 1 /\ n < Modulus)
      <4> SUFFICES ASSUME n = top + 1, n < Modulus
                   PROVE  FALSE
        OBVIOUS
      <4>1. n % Modulus = n /\ top % Modulus = top /\ (top + 1) % Modulus = n
        BY <1>1, NumberSpace
      <4> QED
        BY <2>2, <4>1 DEF WInv
    <3> QED
      BY <1>1, <1>6, <3>1, <3>2 DEF Verdict
  <2> QED
    BY Zenon, <2>1, <2>2
<1>7. CASE s # 0 /\ Loose /\ (d = 0 \/ d >= Half)
  <2>1. c = Verdict("dup", rx, 0)
    <3>1. c = check(rx, s)
      OBVIOUS
    <3>2. \A r, a : a # 0 /\ Loose /\ ((a - r.l) % Modulus = 0 \/ (a - r.l) % Modulus >= Half)
                   => check(r, a) = Verdict("dup", r, 0)
      BY NumberSpace DEF check, Half
    <3> QED
      BY Zenon, <1>7, <3>1, <3>2
  <2> QED
    BY <1>1, <1>7, <2>1 DEF Verdict
<1>8. CASE s # 0 /\ Loose /\ ~(d = 0 \/ d >= Half) /\ d \in 1..WFwd
  <2>1. c = Verdict("accept", [rx EXCEPT !.l = s, !.beyondN = 0], d - 1)
    BY <1>8 DEF check
  <2>2. n > top /\ d = n - top
    BY <1>4, <1>8
  <2> HIDE DEF s, d
  <2>3. c.verdict = "accept" /\ c.rx = [rx EXCEPT !.l = s, !.beyondN = 0] /\ c.gap = d - 1
    BY <2>1 DEF Verdict
  <2>4. c.rx \in [l : Nat, beyondN : Nat, beyondLast : Nat] /\ c.rx.l = s
    <3> DEFINE u == [rx EXCEPT !.l = s]
    <3>1. u \in [l : Nat, beyondN : Nat, beyondLast : Nat] /\ u.l = s
      BY <1>1
    <3>2. c.rx = [u EXCEPT !.beyondN = 0]
      BY <1>1, <2>3
    <3> HIDE DEF u
    <3> QED
      BY <3>1, <3>2
  <2> QED
    BY <1>8, <2>2, <2>3, <2>4 DEF s
<1>9. CASE s # 0 /\ Loose /\ ~(d = 0 \/ d >= Half) /\ d \notin 1..WFwd
  <2>1. c = Verdict(IF m >= KLoud THEN "loss" ELSE "beyond",
                    [rx EXCEPT !.beyondN = m, !.beyondLast = s], 0)
    BY <1>9 DEF check
  <2>2. n > top /\ d = n - top /\ n - top > WFwd
    BY <1>1, <1>4, <1>9, NumberSpace
  <2> HIDE DEF s, d, m
  <2>3. /\ c.verdict \in {"loss", "beyond"}
        /\ c.rx = [rx EXCEPT !.beyondN = m, !.beyondLast = s]
    BY <2>1 DEF Verdict
  <2>4. c.rx \in [l : Nat, beyondN : Nat, beyondLast : Nat] /\ c.rx.l = rx.l
    <3> DEFINE u == [rx EXCEPT !.beyondN = m]
    <3>1. u \in [l : Nat, beyondN : Nat, beyondLast : Nat] /\ u.l = rx.l
      BY <1>1
    <3>2. c.rx = [u EXCEPT !.beyondLast = s]
      BY <1>1, <2>3
    <3> HIDE DEF u
    <3> QED
      BY <1>1, <3>1, <3>2
  <2> QED
    BY <1>9, <2>2, <2>3, <2>4
<1> HIDE DEF s, d
<1> QED
  BY Zenon, <1>5, <1>6, <1>7, <1>8, <1>9

LEMMA AscendsAppend ==
  ASSUME NEW q \in Seq(Nat), NEW lo \in Nat, NEW hi \in Nat, Ascends(q, lo, hi),
         NEW n \in Nat, n > hi, lo <= hi
  PROVE  /\ Append(q, n) \in Seq(Nat) /\ Len(Append(q, n)) = Len(q) + 1
         /\ Ascends(Append(q, n), lo, n)
<1> DEFINE r == Append(q, n)
<1>1. /\ r \in Seq(Nat) /\ Len(r) = Len(q) + 1 /\ Len(q) \in Nat /\ r[Len(q) + 1] = n
      /\ \A i \in 1..Len(q) : r[i] = q[i]
  BY AppendProperties, LenProperties
<1> HIDE DEF r
<1>2. \A i \in 1..Len(r) : i \in 1..Len(q) \/ i = Len(q) + 1
  BY <1>1
<1>3. \A i \in 1..Len(q) : q[i] \in Nat
  BY ElementOfSeq
<1>4. \A i \in 1..Len(r) : lo < r[i] /\ r[i] <= n
  <2> TAKE i \in 1..Len(r)
  <2>1. CASE i \in 1..Len(q)
    <3>1. lo < q[i] /\ q[i] <= hi /\ q[i] \in Nat /\ r[i] = q[i]
      BY <1>1, <1>3, <2>1 DEF Ascends
    <3> QED
      BY <3>1
  <2>2. CASE i = Len(q) + 1
    BY <1>1, <2>2
  <2> QED
    BY <1>2, <2>1, <2>2
<1>5. \A i, j \in 1..Len(r) : i < j => r[i] < r[j]
  <2> TAKE i, j \in 1..Len(r)
  <2> HAVE i < j
  <2>1. i \in 1..Len(q)
    BY <1>1, <1>2
  <2>2. CASE j \in 1..Len(q)
    BY <1>1, <2>1, <2>2 DEF Ascends
  <2>3. CASE j = Len(q) + 1
    <3>1. q[i] <= hi /\ q[i] \in Nat /\ r[i] = q[i] /\ r[j] = n
      BY <1>1, <1>3, <2>1, <2>3 DEF Ascends
    <3> QED
      BY <3>1
  <2> QED
    BY <1>2, <2>2, <2>3
<1> QED
  BY <1>1, <1>4, <1>5 DEF Ascends, r

LEMMA AscendsTail ==
  ASSUME NEW q \in Seq(Nat), NEW lo \in Nat, NEW hi \in Nat, Ascends(q, lo, hi), q # <<>>
  PROVE  /\ Tail(q) \in Seq(Nat) /\ Len(Tail(q)) = Len(q) - 1
         /\ Ascends(Tail(q), lo, hi)
<1> DEFINE r == Tail(q)
<1>1. /\ r \in Seq(Nat) /\ Len(r) = Len(q) - 1 /\ Len(q) \in Nat
      /\ \A i \in 1..Len(r) : r[i] = q[i + 1]
  BY HeadTailProperties, LenProperties
<1> HIDE DEF r
<1>2. \A i \in 1..Len(r) : i + 1 \in 1..Len(q)
  BY <1>1
<1>3. \A i \in 1..Len(r) : lo < r[i] /\ r[i] <= hi
  BY Zenon, <1>1, <1>2 DEF Ascends
<1>4. \A i, j \in 1..Len(r) : i < j => r[i] < r[j]
  <2> TAKE i, j \in 1..Len(r)
  <2> HAVE i < j
  <2>1. i + 1 < j + 1 /\ i + 1 \in 1..Len(q) /\ j + 1 \in 1..Len(q)
    BY <1>2
  <2>2. q[i + 1] < q[j + 1]
    BY <2>1 DEF Ascends
  <2> QED
    BY <1>1, <2>2
<1> QED
  BY <1>1, <1>3, <1>4 DEF Ascends, r

LEMMA AscendsWider ==
  ASSUME NEW q \in Seq(Nat), NEW lo \in Nat, NEW hi \in Nat, Ascends(q, lo, hi),
         NEW n \in Nat, n > hi
  PROVE  Ascends(q, lo, n)
<1>1. \A i \in 1..Len(q) : q[i] \in Nat
  BY ElementOfSeq
<1> QED
  BY <1>1 DEF Ascends

\* A put adds one message or drops one, and keeps the order.
LEMMA PutFacts ==
  ASSUME NEW q \in Seq(Nat), NEW lo \in Nat, NEW hi \in Nat, Ascends(q, lo, hi), lo <= hi,
         NEW n \in Nat, n > hi, QueueCap \in Nat \ {0}, NEW put, put = putDrop(q, n)
  PROVE  /\ put.queue \in Seq(Nat) /\ put.dropped \in Nat
         /\ Len(put.queue) + put.dropped = Len(q) + 1
         /\ Ascends(put.queue, lo, n)
<1>0. Len(q) \in Nat
  BY LenProperties
<1>1. CASE Len(q) < QueueCap
  <2>1. put.queue = Append(q, n) /\ put.dropped = 0
    BY <1>1 DEF putDrop
  <2>2. /\ Append(q, n) \in Seq(Nat) /\ Len(Append(q, n)) = Len(q) + 1
        /\ Ascends(Append(q, n), lo, n)
    BY AscendsAppend
  <2> QED
    BY <1>0, <2>1, <2>2
<1>2. CASE ~(Len(q) < QueueCap) /\ mode = "oldest"
  <2> DEFINE r == Tail(q)
  <2>1. put.queue = Append(r, n) /\ put.dropped = 1
    BY <1>2 DEF putDrop
  <2>2. q # <<>>
    BY <1>0, <1>2
  <2>3. r \in Seq(Nat) /\ Len(r) = Len(q) - 1 /\ Ascends(r, lo, hi)
    BY <2>2, AscendsTail
  <2> HIDE DEF r
  <2>4. /\ Append(r, n) \in Seq(Nat) /\ Len(Append(r, n)) = Len(r) + 1
        /\ Ascends(Append(r, n), lo, n)
    BY <2>3, AscendsAppend
  <2> QED
    BY <1>0, <2>1, <2>3, <2>4
<1>3. CASE ~(Len(q) < QueueCap) /\ mode # "oldest"
  <2>1. put.queue = q /\ put.dropped = 1
    BY <1>3 DEF putDrop
  <2> QED
    BY <1>0, <2>1, AscendsWider
<1> QED
  BY <1>1, <1>2, <1>3

LEMMA HandleKeeps ==
  ASSUME SeqInv, KLoud \in Nat, QueueCap \in Nat \ {0}, handleRx
  PROVE  SeqInv'
<1>0. KInv /\ NInv /\ WInv /\ QInv /\ AInv /\ FInv
  BY DEF SeqInv
<1>1. PICK n \in IF Loose \/ net = {} THEN net ELSE {Min(net)} :
        LET c == check(rx, n % Modulus)
            put == IF n \in finals THEN [queue |-> queue, dropped |-> 0] ELSE putDrop(queue, n)
        IN  /\ net' \in {net \ {n}} \cup (IF Loose THEN {net} ELSE {})
            /\ rx' = c.rx
            /\ failed' = IF c.verdict \in {"loss", "protocol"} THEN c.verdict ELSE "no"
            /\ IF c.verdict = "accept"
               THEN /\ top' = n
                    /\ queue' = put.queue
                    /\ counted' = counted + put.dropped + c.gap + IF n \in finals THEN 1 ELSE 0
               ELSE UNCHANGED <<top, queue, counted>>
  BY Zenon DEF handleRx
<1> DEFINE c == check(rx, n % Modulus)
           put == IF n \in finals THEN [queue |-> queue, dropped |-> 0] ELSE putDrop(queue, n)
<1>2. n \in net /\ (~Loose => \A m \in net : n <= m)
  <2>1. CASE Loose \/ net = {}
    BY <2>1
  <2>2. CASE ~Loose /\ net # {}
    <3>1. net \in SUBSET Nat
      BY <1>0 DEF KInv
    <3> QED
      BY <2>2, <3>1, MinOfNats
  <2> QED
    BY <2>1, <2>2
<1>3. /\ failed = "no" /\ UNCHANGED <<mode, v, refused, tx, tardy, read>>
      /\ net' \subseteq net /\ net \ {n} \subseteq net' /\ (~Loose => net' = net \ {n})
      /\ Loose' = Loose /\ SentTop' = SentTop
  BY <1>1, <1>2 DEF handleRx, Loose, SentTop
<1>4. /\ rx' = c.rx
      /\ failed' = IF c.verdict \in {"loss", "protocol"} THEN c.verdict ELSE "no"
      /\ c.verdict = "accept" =>
           /\ top' = n /\ queue' = put.queue
           /\ counted' = counted + put.dropped + c.gap + IF n \in finals THEN 1 ELSE 0
      /\ c.verdict # "accept" => UNCHANGED <<top, queue, counted>>
  BY Zenon, <1>1
<1>5. /\ c.verdict \in {"accept", "dup", "beyond", "loss", "protocol"}
      /\ c.rx \in [l : Nat, beyondN : Nat, beyondLast : Nat]
      /\ c.rx.l = IF c.verdict = "accept" THEN n % Modulus ELSE rx.l
      /\ c.verdict = "accept" /\ Loose => n > top /\ c.gap = n - top - 1
      /\ c.verdict = "accept" /\ ~Loose => c.gap = 0
      /\ c.verdict = "loss" => Loose /\ n - top > WFwd
      /\ c.verdict = "protocol" => ~Loose
      /\ ~Loose /\ n = top + 1 /\ n < Modulus => c.verdict = "accept"
  BY <1>0, <1>2, CheckFacts
<1>6. /\ n \in Nat /\ n # 0 /\ top \in Nat /\ read \in Nat /\ queue \in Seq(Nat)
      /\ v \in Nat /\ SentTop \in Int /\ SentTop <= v /\ n <= SentTop /\ v - n < Half
      /\ Len(queue) \in Nat
  BY <1>0, <1>2, LenProperties DEF KInv, NInv, SentTop
<1> HIDE DEF c
<1>7. c.verdict = "accept" => n > top /\ c.gap \in Nat
  BY <1>0, <1>2, <1>5, <1>6 DEF FInv
<1>8. ASSUME c.verdict = "accept"
      PROVE  /\ put.queue \in Seq(Nat) /\ put.dropped \in Nat
             /\ Len(put.queue) + put.dropped = Len(queue) + (IF n \in finals THEN 0 ELSE 1)
             /\ Ascends(put.queue, read, n)
  <2>1. Ascends(queue, read, top) /\ read <= top /\ n > top
    BY <1>0, <1>7, <1>8 DEF QInv
  <2>2. CASE n \in finals
    <3>1. put.queue = queue /\ put.dropped = 0
      BY <2>2
    <3> HIDE DEF put
    <3>2. Ascends(queue, read, n)
      BY <1>6, <2>1, AscendsWider
    <3> QED
      BY <1>6, <2>2, <3>1, <3>2
  <2>3. CASE n \notin finals
    <3>1. put = putDrop(queue, n)
      BY <2>3
    <3> HIDE DEF put
    <3>2. /\ put.queue \in Seq(Nat) /\ put.dropped \in Nat
          /\ Len(put.queue) + put.dropped = Len(queue) + 1
          /\ Ascends(put.queue, read, n)
      BY <1>6, <2>1, <3>1, PutFacts
    <3> QED
      BY <2>3, <3>2
  <2> QED
    BY <2>2, <2>3
<1> HIDE DEF put
<1> DEFINE e == IF n \in finals THEN 1 ELSE 0
<1>9. counted' \in Nat
  <2>1. CASE c.verdict = "accept"
    <3>1. put.dropped \in Nat /\ c.gap \in Nat /\ e \in Nat /\ counted \in Nat
      BY <1>0, <1>7, <1>8, <2>1 DEF KInv
    <3>2. counted' = counted + put.dropped + c.gap + e
      BY Zenon, <1>4, <2>1
    <3> HIDE DEF e
    <3> QED
      BY <3>1, <3>2
  <2>2. CASE c.verdict # "accept"
    BY <1>0, <1>4, <2>2 DEF KInv
  <2> QED
    BY <2>1, <2>2
<1>10. KInv'
  <2>1. top' \in Nat /\ queue' \in Seq(Nat)
    BY <1>4, <1>6, <1>8
  <2>2. failed' \in {"no", "loss", "protocol"}
    BY <1>4, <1>5
  <2> QED
    BY <1>0, <1>3, <1>4, <1>5, <1>9, <2>1, <2>2 DEF KInv
<1>11. NInv'
  BY <1>0, <1>3, <1>4, <1>6 DEF NInv
<1>12. WInv'
  <2>1. rx'.l = top' % Modulus
    BY Zenon, <1>0, <1>4, <1>5 DEF WInv
  <2>2. failed' = "loss" => Loose' /\ SentTop' - top' > WFwd
    <3> SUFFICES ASSUME failed' = "loss"
                 PROVE  Loose' /\ SentTop' - top' > WFwd
      OBVIOUS
    <3>1. c.verdict = "loss"
      BY <1>4
    <3>2. Loose /\ n - top > WFwd /\ top' = top
      BY <1>4, <1>5, <3>1
    <3> QED
      BY <1>3, <1>6, <3>2, NumberSpace
  <2> QED
    BY <2>1, <2>2 DEF WInv
<1>13. QInv'
  <2>1. CASE c.verdict = "accept"
    BY <1>0, <1>3, <1>4, <1>6, <1>7, <1>8, <2>1 DEF QInv
  <2>2. CASE c.verdict # "accept"
    BY <1>0, <1>3, <1>4, <2>2 DEF QInv
  <2> QED
    BY <2>1, <2>2
<1>14. AInv'
  <2> SUFFICES ASSUME Loose
               PROVE  counted' + Len(queue') = top'
    BY <1>3 DEF AInv
  <2>0. counted + Len(queue) = top /\ counted \in Nat
    BY <1>0 DEF AInv, KInv
  <2>1. CASE c.verdict = "accept"
    <3>1. e \in Nat /\ (IF n \in finals THEN 0 ELSE 1) = 1 - e
      OBVIOUS
    <3>2. counted' = counted + put.dropped + c.gap + e /\ queue' = put.queue /\ top' = n
      BY Zenon, <1>4, <2>1
    <3>3. /\ put.dropped \in Nat /\ Len(put.queue) \in Nat
          /\ Len(put.queue) + put.dropped = Len(queue) + (IF n \in finals THEN 0 ELSE 1)
      BY Zenon, <1>8, <2>1, LenProperties
    <3>4. c.gap = n - top - 1
      BY <1>5, <2>1
    <3> DEFINE le == Len(queue)
               lp == Len(put.queue)
               dp == put.dropped
    <3>5. lp \in Nat /\ dp \in Nat /\ le \in Nat /\ lp + dp = le + (1 - e) /\ counted + le = top
      BY Zenon, <1>6, <2>0, <3>1, <3>3
    <3>6. counted' = counted + dp + (n - top - 1) + e /\ Len(queue') = lp /\ top' = n
      BY Zenon, <3>2, <3>4
    <3> HIDE DEF le, lp, dp, e
    <3> QED
      BY <1>6, <2>0, <3>1, <3>5, <3>6
  <2>2. CASE c.verdict # "accept"
    BY <1>4, <2>0, <2>2
  <2> QED
    BY <2>1, <2>2
<1>15. FInv'
  <2>1. ~Loose => \A m \in net' : m > top'
    <3> SUFFICES ASSUME ~Loose, NEW m \in net'
                 PROVE  m > top'
      OBVIOUS
    <3>1. m \in net /\ m # n /\ n <= m /\ m > top /\ m \in Nat
      BY <1>0, <1>2, <1>3 DEF FInv, KInv
    <3> QED
      BY <1>4, <1>6, <3>1
  <2>2. ASSUME ~Loose, ~tardy, top' + 1 < Modulus
        PROVE  /\ failed' = "no"
               /\ \A m \in Nat : top' < m /\ m <= SentTop => m \in net'
    <3>1. top + 1 < Modulus /\ n > top
      BY <1>0, <1>2, <1>4, <1>6, <2>2, NumberSpace DEF FInv
    <3>2. \A m \in Nat : top < m /\ m <= SentTop => m \in net
      BY <1>0, <2>2, <3>1 DEF FInv
    <3>3. n = top + 1
      <4>1. top + 1 \in net
        BY <1>6, <3>1, <3>2
      <4> QED
        BY <1>2, <1>6, <2>2, <3>1, <4>1
    <3>4. c.verdict = "accept"
      BY <1>5, <1>6, <2>2, <3>1, <3>3, NumberSpace
    <3>5. failed' = "no" /\ top' = n
      BY <1>4, <3>4
    <3>6. \A m \in Nat : n < m /\ m <= SentTop => m \in net'
      BY <1>3, <1>6, <3>1, <3>2
    <3> QED
      BY <3>5, <3>6
  <2>3. Loose => failed' # "protocol"
    BY <1>4, <1>5
  <2> QED
    BY <1>3, <2>1, <2>2, <2>3 DEF FInv
<1> QED
  BY <1>10, <1>11, <1>12, <1>13, <1>14, <1>15 DEF SeqInv

-----------------------------------------------------------------------------
(***************************************************************************)
(* The theorems.                                                           *)
(***************************************************************************)
LEMMA SeqInvariant ==
  ASSUME KLoud \in Nat, QueueCap \in Nat \ {0}
  PROVE  SeqSpec => []SeqInv
<1>1. SeqInv /\ [SeqNext]_seqVars => SeqInv'
  <2> SUFFICES ASSUME SeqInv, [SeqNext]_seqVars
               PROVE  SeqInv'
    OBVIOUS
  <2>1. CASE UNCHANGED seqVars
    BY Zenon, <2>1 DEF seqVars, SeqInv, KInv, NInv, WInv, QInv, AInv, FInv, SentTop, Loose
  <2> QED
    BY <2>1, SentKeeps, RefusedKeeps, UndoKeeps, CloseKeeps, AbortKeeps, LoseKeeps, HandleKeeps,
       RecvKeeps DEF SeqNext
<1> QED
  BY <1>1, SeqInitInv, PTL DEF SeqSpec

\* The application takes every message at most once and in the order they were
\* sent, whatever the channel repeats, reorders or loses, whichever policy the
\* queue drops by, and across the wrap of the number space (check, putDrop).
THEOREM TakenInOrder ==
  ASSUME KLoud \in Nat, QueueCap \in Nat \ {0}
  PROVE  SeqSpec => []InOrder
<1>1. SeqInv => InOrder
  <2> SUFFICES ASSUME SeqInv
               PROVE  InOrder
    OBVIOUS
  <2> DEFINE all == <<read>> \o queue
  <2>1. /\ queue \in Seq(Nat) /\ read \in Nat /\ top \in Nat /\ Len(queue) \in Nat
        /\ read <= top /\ Ascends(queue, read, top)
    BY LenProperties DEF SeqInv, KInv, QInv
  <2>2. /\ Len(all) = Len(queue) + 1 /\ all[1] = read
        /\ \A i \in 2..Len(queue) + 1 : all[i] = queue[i - 1]
    BY <2>1
  <2> HIDE DEF all
  <2>3. \A i \in 1..Len(all) - 1 : all[i] < all[i + 1]
    <3> TAKE i \in 1..Len(all) - 1
    <3>1. i \in 1..Len(queue) /\ i + 1 \in 2..Len(queue) + 1 /\ (i + 1) - 1 = i
      BY <2>1, <2>2
    <3>2. all[i + 1] = queue[i]
      BY <2>2, <3>1
    <3>3. CASE i = 1
      BY <2>1, <2>2, <3>1, <3>2, <3>3 DEF Ascends
    <3>4. CASE i # 1
      <4>1. i \in 2..Len(queue) + 1 /\ i - 1 \in 1..Len(queue) /\ i - 1 < i
        BY <2>1, <3>1, <3>4
      <4>2. queue[i - 1] < queue[i]
        BY Zenon, <2>1, <3>1, <4>1 DEF Ascends
      <4> QED
        BY <2>2, <3>2, <4>1, <4>2
    <3> QED
      BY <3>3, <3>4
  <2>4. all[Len(all)] <= top
    <3>1. CASE Len(queue) = 0
      BY <2>1, <2>2, <3>1
    <3>2. CASE Len(queue) # 0
      <4>1. Len(queue) \in 1..Len(queue) /\ Len(queue) + 1 \in 2..Len(queue) + 1
            /\ (Len(queue) + 1) - 1 = Len(queue)
        BY <2>1, <3>2
      <4>2. all[Len(all)] = queue[Len(queue)]
        BY <2>2, <4>1
      <4> QED
        BY <2>1, <4>1, <4>2 DEF Ascends
    <3> QED
      BY <3>1, <3>2
  <2> QED
    BY <2>3, <2>4 DEF InOrder, all
<1> QED
  BY <1>1, SeqInvariant, PTL

\* The messages taken, buffered, dropped and skipped add up to the highest
\* number accepted, and a stream fails with DATA_LOSS only when its sender is
\* more than W_FWD numbers ahead (check, putDrop, takeGap, undoRefused).
THEOREM NumbersAccounted ==
  ASSUME KLoud \in Nat, QueueCap \in Nat \ {0}
  PROVE  SeqSpec => []Accounted
<1>1. SeqInv => Accounted
  <2> SUFFICES ASSUME SeqInv, Loose
               PROVE  counted + Len(queue) = top /\ (failed = "loss" => v - top > WFwd)
    BY DEF Accounted
  <2>1. counted + Len(queue) = top
    BY DEF SeqInv, AInv
  <2>2. failed = "loss" => v - top > WFwd
    <3>1. SentTop \in Int /\ SentTop <= v /\ v \in Int /\ top \in Int
      BY DEF SeqInv, KInv, SentTop
    <3> QED
      BY <3>1, NumberSpace DEF SeqInv, WInv
  <2> QED
    BY <2>1, <2>2
<1> QED
  BY <1>1, SeqInvariant, PTL

\* On a reliable channel the strict window fails a stream only when its half was
\* ended before the number of a refused frame was taken back, or when it has used
\* up its numbers (closeSend, sendAbort, undoRefused, check).
THEOREM StrictStreamsFailRarely ==
  ASSUME KLoud \in Nat, QueueCap \in Nat \ {0}
  PROVE  SeqSpec => []StrictFailsRarely
<1>1. SeqInv => StrictFailsRarely
  BY NumberSpace DEF SeqInv, KInv, FInv, StrictFailsRarely
<1> QED
  BY <1>1, SeqInvariant, PTL
=============================================================================
