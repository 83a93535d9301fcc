-------------------------- MODULE PeerStateProofs --------------------------
(***************************************************************************)
(* Facts about the container operators of PeerState, for every value of    *)
(* the constants.                                                          *)
(***************************************************************************)
EXTENDS PeerState, FiniteSetTheorems, SequenceTheorems, WellFoundedInduction,
        TLAPS

\* A set of naturals that is not empty has a least element.
LEMMA LeastExists ==
  ASSUME NEW S \in SUBSET Nat, S # {}
  PROVE  \E m \in S : \A n \in S : m <= n
<1>1. PICK m \in S : \A n \in S : <<n, m>> \notin OpToRel(<, Nat)
  BY Zenon, NatLessThanWellFounded, WFMin
<1>2. \A n \in S : ~(n < m)
  BY Zenon, <1>1 DEF OpToRel
<1> QED
  BY <1>2

\* A bounded set of naturals that is not empty has a greatest element.
LEMMA GreatestExists ==
  ASSUME NEW S \in SUBSET Nat, S # {}, NEW b \in Nat, \A n \in S : n <= b
  PROVE  \E m \in S : \A n \in S : n <= m
<1> DEFINE D == {b - n : n \in S}
<1>1. D \in SUBSET Nat /\ D # {}
  <2>1. PICK n \in S : TRUE
    BY Zenon
  <2>2. b - n \in D
    OBVIOUS
  <2>3. ASSUME NEW x \in D PROVE x \in Nat
    <3>1. PICK m \in S : x = b - m
      OBVIOUS
    <3> QED
      BY <3>1
  <2> QED
    BY <2>2, <2>3
<1>2. PICK d \in D : \A x \in D : d <= x
  BY Zenon, <1>1, LeastExists
<1>3. PICK m \in S : d = b - m
  OBVIOUS
<1>4. ASSUME NEW n \in S PROVE n <= m
  <2>1. b - n \in D
    BY Zenon
  <2> QED
    BY <2>1, <1>2, <1>3
<1> QED
  BY <1>4

-----------------------------------------------------------------------------
(***************************************************************************)
(* The aged watermark.                                                     *)
(***************************************************************************)

\* Of a non-empty set of checkpoint indices, Last is the greatest.
LEMMA LastIsGreatest ==
  ASSUME NEW n \in Nat, NEW S \in SUBSET (1..n), S # {}
  PROVE  Last(S) \in S /\ \A j \in S : j <= Last(S)
<1>1. S \in SUBSET Nat /\ \A i \in S : i <= n
  OBVIOUS
<1>2. \E i \in S : \A j \in S : j <= i
  BY Zenon, <1>1, GreatestExists
<1> QED
  BY Zenon, <1>2 DEF Last

\* With ordered checkpoints, hwmAged covers a sid exactly when some
\* checkpoint at least TTL old does.
LEMMA AgedCovers ==
  ASSUME NEW p \in PeerStateType, NEW t \in Nat, NEW u \in Nat,
         WatermarkOrdered(p, u), NEW s \in Sid
  PROVE  s <= hwmAged(p, t) <=> \E i \in OldCps(p.cps, t) : s <= p.cps[i].hwm
<1> DEFINE O == OldCps(p.cps, t)
<1>1. p.cps \in Seq(Checkpoint) /\ Len(p.cps) \in Nat
  BY DEF PeerStateType
<1>2. \A i \in 1..Len(p.cps) : p.cps[i].hwm \in Nat
  <2>1. \A i \in 1..Len(p.cps) : p.cps[i] \in Checkpoint
    BY <1>1, ElementOfSeq
  <2> QED
    BY <2>1 DEF Checkpoint
<1>3. s \in Nat /\ s > 0
  BY PeerStateAssumption DEF Sid
<1>4. CASE O = {}
  BY <1>3, <1>4 DEF hwmAged
<1>5. CASE O # {}
  <2>1. O \in SUBSET (1..Len(p.cps))
    BY DEF OldCps
  <2>2. Last(O) \in O /\ \A j \in O : j <= Last(O)
    BY Zenon, <1>1, <1>5, <2>1, LastIsGreatest
  <2>3. hwmAged(p, t) = p.cps[Last(O)].hwm
    BY <1>5 DEF hwmAged
  <2>4. ASSUME NEW i \in O, s <= p.cps[i].hwm PROVE s <= p.cps[Last(O)].hwm
    <3>1. p.cps[i].hwm <= p.cps[Last(O)].hwm
      BY <2>1, <2>2, <1>1 DEF WatermarkOrdered
    <3> QED
      BY <3>1, <2>1, <2>2, <2>4, <1>2, <1>3
  <2> QED
    BY <2>2, <2>3, <2>4
<1> QED
  BY <1>4, <1>5

-----------------------------------------------------------------------------
(***************************************************************************)
(* Tombstones. An operator may store less, but it never forgets a sid.     *)
(***************************************************************************)

\* q keeps p's watermark, its checkpoints and its live count.
SameMarks(p, q) ==
  /\ q.cps = p.cps
  /\ q.hwm = p.hwm
  /\ q.live = p.live
  /\ q.dead = p.dead

LEMMA SidFinite == IsFiniteSet(Sid) /\ Sid \subseteq Nat \ {0}
BY FS_Interval, PeerStateAssumption DEF Sid

LEMMA BytesType ==
  ASSUME NEW p \in PeerStateType, NEW D \in SUBSET Sid
  PROVE  Bytes(p, D) \in Nat
<1> DEFINE U == D \X (1..MaxTermSize)
           B == {b \in U : b[2] <= SizeOf(p.tombs[b[1]].term)}
<1>1. IsFiniteSet(D)
  BY Zenon, SidFinite, FS_Subset
<1>2. IsFiniteSet(U)
  <2>1. IsFiniteSet(1..MaxTermSize)
    BY FS_Interval, PeerStateAssumption
  <2> QED
    BY Zenon, <1>1, <2>1, FS_Product
<1>3. B \in SUBSET U
  OBVIOUS
<1>4. IsFiniteSet(B)
  BY <1>2, <1>3, FS_Subset
<1> QED
  BY <1>4, FS_CardinalityType DEF Bytes

LEMMA BytesLess ==
  ASSUME NEW p \in PeerStateType, NEW D \in SUBSET Sid
  PROVE  p.bytes - Bytes(p, D) \in Int
<1>1. Bytes(p, D) \in Nat
  BY BytesType
<1>2. p.bytes \in Int
  BY DEF PeerStateType
<1> QED
  BY <1>1, <1>2

\* Degrading tombstones to their keys keeps every one of them.
LEMMA DegradeKeeps ==
  ASSUME NEW p \in PeerStateType, NEW D \in SUBSET Tombed(p)
  PROVE  LET q == Degrade(p, D)
         IN  /\ q \in PeerStateType
             /\ Tombed(q) = Tombed(p)
             /\ q.floor = p.floor
             /\ SameMarks(p, q)
<1> DEFINE q == Degrade(p, D)
<1>1. D \in SUBSET Sid
  BY DEF Tombed
<1>2. \A s \in D : p.tombs[s] \in Tomb
  BY <1>1 DEF Tombed, PeerStateType
<1>3. \A s \in D : [p.tombs[s] EXCEPT !.term = NoTerm] \in Tomb
  BY <1>2 DEF Tomb, Stored
<1>4. q.tombs = [s \in Sid |-> IF s \in D THEN [p.tombs[s] EXCEPT !.term = NoTerm]
                                          ELSE p.tombs[s]]
  BY DEF Degrade, PeerStateType
<1>5. q.tombs \in [Sid -> Tomb \cup {NoTomb}]
  BY <1>3, <1>4 DEF PeerStateType
<1>6. p.bytes - Bytes(p, D) \in Int
  BY <1>1, BytesLess
<1>7. q \in PeerStateType
  BY Zenon, <1>4, <1>5, <1>6 DEF Degrade, PeerStateType
<1>8. NoTomb \notin Tomb
  BY PeerStateAssumption DEF NoTomb, Tomb, Stored, NoTerm
<1>9. Tombed(q) = Tombed(p)
  BY <1>1, <1>3, <1>4, <1>8 DEF Tombed
<1>10. q.floor = p.floor /\ SameMarks(p, q)
  BY DEF Degrade, PeerStateType, SameMarks
<1> QED
  BY <1>7, <1>9, <1>10

\* So does the byte cap, wherever its loop stops.
LEMMA CapBytesKeeps ==
  ASSUME NEW p \in PeerStateType
  PROVE  LET q == CapBytes(p)
         IN  /\ q \in PeerStateType
             /\ Tombed(q) = Tombed(p)
             /\ q.floor = p.floor
             /\ SameMarks(p, q)
<1>1. \E k : CapBytes(p) = Degrade(p, OldestTombs(p, k))
  BY Zenon DEF CapBytes
<1>2. \A k : OldestTombs(p, k) \in SUBSET Tombed(p)
  BY DEF OldestTombs
<1> QED
  BY <1>1, <1>2, DegradeKeeps

\* The entry cap trades the lowest tombstone for a floor that covers it.
LEMMA CapEntriesKeeps ==
  ASSUME NEW p \in PeerStateType
  PROVE  LET q == CapEntries(p)
         IN  /\ q \in PeerStateType
             /\ Held(p) \subseteq Held(q)
             /\ SameMarks(p, q)
<1> DEFINE q == CapEntries(p)
<1>1. CASE Cardinality(Tombed(p)) <= MaxTombs
  BY <1>1 DEF CapEntries, SameMarks
<1>2. CASE ~(Cardinality(Tombed(p)) <= MaxTombs)
  <2> DEFINE low == Lowest(p)
  <2>1. Tombed(p) \subseteq Sid /\ Tombed(p) \in SUBSET Nat
    BY SidFinite DEF Tombed
  <2>2. Tombed(p) # {}
    BY <1>2, FS_EmptySet, PeerStateAssumption
  <2>3. \E s \in Tombed(p) : \A r \in Tombed(p) : s <= r
    BY <2>1, <2>2, LeastExists
  <2>4. low \in Tombed(p)
    BY <2>3 DEF Lowest
  <2>5. low \in Sid /\ low \in Nat /\ p.tombs[low] \in Tomb
    BY <2>1, <2>4 DEF Tombed, PeerStateType
  <2>6. SizeOf(p.tombs[low].term) \in Nat
    BY <2>5, PeerStateAssumption DEF Tomb, Stored, SizeOf
  <2>7. q = [p EXCEPT !.tombs[low] = NoTomb,
                      !.bytes = @ - SizeOf(p.tombs[low].term),
                      !.floor = IF @ < low THEN low ELSE @]
    BY <1>2 DEF CapEntries
  <2>8. q \in PeerStateType
    <3>1. [p.tombs EXCEPT ![low] = NoTomb] \in [Sid -> Tomb \cup {NoTomb}]
      BY <2>5 DEF PeerStateType
    <3>2. p.bytes - SizeOf(p.tombs[low].term) \in Int
      BY <2>6 DEF PeerStateType
    <3>3. (IF p.floor < low THEN low ELSE p.floor) \in Nat
      BY <2>5 DEF PeerStateType
    <3> QED
      BY Zenon, <2>7, <3>1, <3>2, <3>3 DEF PeerStateType
  <2>9. /\ q.tombs = [p.tombs EXCEPT ![low] = NoTomb]
        /\ q.floor = IF p.floor < low THEN low ELSE p.floor
    BY <2>7 DEF PeerStateType
  <2>10. SameMarks(p, q)
    BY <2>7 DEF PeerStateType, SameMarks
  <2>11. ASSUME NEW r \in Held(p) PROVE r \in Held(q)
    <3>1. r \in Sid /\ r \in Nat /\ p.floor \in Nat
      BY SidFinite DEF Held, PeerStateType
    <3>2. CASE r = low
      BY <2>5, <2>9, <3>1, <3>2 DEF Held
    <3>3. CASE r # low /\ r \in Tombed(p)
      BY <2>9, <3>1, <3>3 DEF Held, Tombed, PeerStateType
    <3>4. CASE r <= p.floor
      BY <2>5, <2>9, <3>1, <3>4 DEF Held
    <3> QED
      BY <3>2, <3>3, <3>4 DEF Held
  <2> QED
    BY <2>8, <2>10, <2>11
<1> QED
  BY <1>1, <1>2

\* addTomb remembers its sid, forgets no other and leaves the marks
\* alone, whichever of its caps run.
LEMMA AddTombKeeps ==
  ASSUME NEW p \in PeerStateType, NEW s \in Sid, NEW term \in Stored,
         NEW expire \in Nat
  PROVE  LET q == addTomb(p, s, term, expire)
         IN  /\ q \in PeerStateType
             /\ Held(p) \cup {s} \subseteq Held(q)
             /\ SameMarks(p, q)
<1> DEFINE q == addTomb(p, s, term, expire)
<1>0. SizeOf(term) \in Nat
  BY PeerStateAssumption DEF Stored, SizeOf
<1>1. CASE s <= p.floor
  BY <1>1 DEF addTomb, SameMarks, Held
<1>2. CASE ~(s <= p.floor) /\ s \in Tombed(p)
  <2>1. q = ReplaceTomb(p, s, term, expire)
    BY <1>2 DEF addTomb
  <2>2. p.tombs[s] \in Tomb
    BY <1>2 DEF Tombed, PeerStateType
  <2>3. SizeOf(p.tombs[s].term) \in Nat
    BY <2>2, PeerStateAssumption DEF Tomb, Stored, SizeOf
  <2> DEFINE new == [term |-> term,
                     expire |-> IF expire > p.tombs[s].expire THEN expire
                                                              ELSE p.tombs[s].expire]
  <2>4. new \in Tomb
    BY <2>2 DEF Tomb
  <2>5. q.tombs = [p.tombs EXCEPT ![s] = new]
    BY <2>1 DEF ReplaceTomb, PeerStateType
  <2>6. q \in PeerStateType
    <3>1. [p.tombs EXCEPT ![s] = new] \in [Sid -> Tomb \cup {NoTomb}]
      BY <2>4 DEF PeerStateType
    <3>2. p.bytes + SizeOf(term) - SizeOf(p.tombs[s].term) \in Int
      BY <1>0, <2>3 DEF PeerStateType
    <3> QED
      BY Zenon, <2>1, <3>1, <3>2 DEF ReplaceTomb, PeerStateType
  <2>7. SameMarks(p, q) /\ q.floor = p.floor
    BY <2>1 DEF ReplaceTomb, PeerStateType, SameMarks
  <2>8. new # NoTomb
    BY <2>4, PeerStateAssumption DEF NoTomb, Tomb, Stored, NoTerm
  <2>9. Tombed(q) = Tombed(p)
    BY <1>2, <2>5, <2>8 DEF Tombed, PeerStateType
  <2> QED
    BY <1>2, <2>6, <2>7, <2>9 DEF Held
<1>3. CASE ~(s <= p.floor) /\ s \notin Tombed(p)
  <2> DEFINE i == InsertTomb(p, s, term, expire)
             c == CapBytes(i)
             new == [term |-> term, expire |-> expire]
  <2>1. q = CapEntries(c)
    BY <1>3 DEF addTomb
  <2>2. new \in Tomb /\ new # NoTomb
    BY PeerStateAssumption DEF NoTomb, Tomb, Stored, NoTerm
  <2>3. i.tombs = [p.tombs EXCEPT ![s] = new] /\ i.floor = p.floor
    BY DEF InsertTomb, PeerStateType
  <2>4. i \in PeerStateType
    <3>1. [p.tombs EXCEPT ![s] = new] \in [Sid -> Tomb \cup {NoTomb}]
      BY <2>2 DEF PeerStateType
    <3>2. [p.order EXCEPT ![s] = IF @ = 0 THEN p.stamp + 1 ELSE @] \in [Sid -> Nat]
      BY DEF PeerStateType
    <3>3. p.bytes + SizeOf(term) \in Int /\ p.stamp + 1 \in Nat
      BY <1>0 DEF PeerStateType
    <3> QED
      BY Zenon, <3>1, <3>2, <3>3 DEF InsertTomb, PeerStateType
  <2>5. SameMarks(p, i)
    BY DEF InsertTomb, PeerStateType, SameMarks
  <2>6. Tombed(i) = Tombed(p) \cup {s}
    BY <2>2, <2>3 DEF Tombed, PeerStateType
  <2>7. Held(p) \cup {s} \subseteq Held(i)
    BY <2>3, <2>6 DEF Held
  <2>8. c \in PeerStateType /\ Held(c) = Held(i) /\ SameMarks(i, c)
    BY <2>4, CapBytesKeeps DEF Held
  <2>9. q \in PeerStateType /\ Held(c) \subseteq Held(q) /\ SameMarks(c, q)
    BY <2>1, <2>8, CapEntriesKeeps
  <2> QED
    BY <2>5, <2>7, <2>8, <2>9 DEF SameMarks
<1> QED
  BY <1>1, <1>2, <1>3

-----------------------------------------------------------------------------
(***************************************************************************)
(* Time and the sweep.                                                     *)
(***************************************************************************)

\* What is deduplicated stays so as time passes.
LEMMA DedupedLater ==
  ASSUME NEW p \in PeerStateType, NEW t \in Nat, NEW u \in Nat, t <= u,
         WatermarkOrdered(p, t), NEW s \in Sid, Deduped(p, s, t)
  PROVE  Deduped(p, s, u)
<1>1. CASE s \in Held(p)
  BY <1>1 DEF Deduped
<1>2. CASE s <= hwmAged(p, t)
  <2>1. PICK i \in OldCps(p.cps, t) : s <= p.cps[i].hwm
    BY <1>2, AgedCovers
  <2>2. p.cps \in Seq(Checkpoint) /\ i \in 1..Len(p.cps)
    BY DEF OldCps, PeerStateType
  <2>3. p.cps[i].at \in Nat
    <3>1. p.cps[i] \in Checkpoint
      BY <2>2, ElementOfSeq
    <3> QED
      BY <3>1 DEF Checkpoint
  <2>4. i \in OldCps(p.cps, u)
    BY <2>1, <2>2, <2>3, PeerStateAssumption DEF OldCps
  <2>5. s <= hwmAged(p, u)
    BY <2>1, <2>4, AgedCovers
  <2> QED
    BY <2>5 DEF Deduped
<1> QED
  BY <1>1, <1>2 DEF Deduped

LEMMA SuffixProperties ==
  ASSUME NEW S, NEW q \in Seq(S), NEW m \in 1..Len(q)
  PROVE  /\ SubSeq(q, m, Len(q)) \in Seq(S)
         /\ Len(SubSeq(q, m, Len(q))) = Len(q) - m + 1
         /\ \A i \in 1..(Len(q) - m + 1) : SubSeq(q, m, Len(q))[i] = q[m + i - 1]
OBVIOUS

\* A new checkpoint keeps the order, and pruning the old ones does not lower
\* the aged watermark.
LEMMA AddCheckpointKeeps ==
  ASSUME NEW p \in PeerStateType, NEW t \in Nat, WatermarkOrdered(p, t)
  PROVE  LET q == AddCheckpoint(p, t)
         IN  /\ q \in PeerStateType
             /\ WatermarkOrdered(q, t)
             /\ q.tombs = p.tombs /\ q.floor = p.floor
             /\ q.live = p.live /\ q.hwm = p.hwm /\ q.dead = p.dead
             /\ \A s \in Sid : s <= hwmAged(p, t) => s <= hwmAged(q, t)
             /\ \A i \in 1..Len(q.cps) :
                  \/ q.cps[i] = [at |-> t, hwm |-> p.hwm]
                  \/ \E j \in 1..Len(p.cps) : q.cps[i] = p.cps[j]
<1> DEFINE q == AddCheckpoint(p, t)
           cp == [at |-> t, hwm |-> p.hwm]
           n == Len(p.cps)
           cps == Append(p.cps, cp)
           S == OldCps(cps, t) \cup {1}
           L == Last(S)
<1>1. p.cps \in Seq(Checkpoint) /\ n \in Nat /\ p.hwm \in Nat /\ cp \in Checkpoint
  BY DEF PeerStateType, Checkpoint
<1>2. /\ cps \in Seq(Checkpoint)
      /\ Len(cps) = n + 1
      /\ \A i \in 1..n : cps[i] = p.cps[i]
      /\ cps[n + 1] = cp
  BY <1>1, AppendProperties
<1>3. \A i \in 1..(n + 1) : cps[i].at \in Nat /\ cps[i].hwm \in Nat
  <2>1. \A i \in 1..(n + 1) : cps[i] \in Checkpoint
    BY <1>2, ElementOfSeq
  <2> QED
    BY <2>1 DEF Checkpoint
<1>4. \A i \in 1..(n + 1) : /\ cps[i].at <= t
                            /\ cps[i].hwm <= p.hwm
  <2>1. ASSUME NEW i \in 1..n PROVE cps[i].at <= t /\ cps[i].hwm <= p.hwm
    BY <1>2 DEF WatermarkOrdered
  <2>2. cps[n + 1].at <= t /\ cps[n + 1].hwm <= p.hwm
    BY <1>1, <1>2
  <2> QED
    BY <1>1, <2>1, <2>2
<1>5. \A i \in 1..(n + 1) : \A j \in i..(n + 1) : /\ cps[i].at <= cps[j].at
                                                 /\ cps[i].hwm <= cps[j].hwm
  <2> SUFFICES ASSUME NEW i \in 1..(n + 1), NEW j \in i..(n + 1)
               PROVE  cps[i].at <= cps[j].at /\ cps[i].hwm <= cps[j].hwm
    OBVIOUS
  <2>1. CASE j = n + 1
    BY <1>2, <1>4, <2>1
  <2>2. CASE j # n + 1
    <3>1. i \in 1..n /\ j \in i..n
      BY <1>1, <2>2
    <3> QED
      BY <1>1, <1>2, <3>1 DEF WatermarkOrdered
  <2> QED
    BY <2>1, <2>2
<1>6. L \in S /\ (\A i \in S : i <= L) /\ L \in 1..(n + 1)
  <2>1. S \in SUBSET (1..(n + 1)) /\ S # {} /\ n + 1 \in Nat
    BY <1>1, <1>2 DEF OldCps
  <2> HIDE DEF S
  <2>2. L \in S /\ \A i \in S : i <= L
    BY Zenon, <2>1, LastIsGreatest
  <2> QED
    BY Zenon, <2>1, <2>2
<1>7. L = 1 \/ L \in OldCps(cps, t)
  BY <1>6
<1>8. q.cps = SubSeq(cps, L, n + 1)
  BY Zenon, <1>2 DEF AddCheckpoint, PeerStateType
<1>9. /\ q.cps \in Seq(Checkpoint)
      /\ Len(q.cps) = n + 2 - L
      /\ \A i \in 1..(n + 2 - L) : q.cps[i] = cps[L + i - 1]
  <2> HIDE DEF cps, L, n, q
  <2>1. L \in 1..Len(cps) /\ n + 1 = Len(cps)
    BY <1>2, <1>6
  <2>2. /\ q.cps \in Seq(Checkpoint)
        /\ Len(q.cps) = Len(cps) - L + 1
        /\ \A i \in 1..(Len(cps) - L + 1) : q.cps[i] = cps[L + i - 1]
    BY <1>2, <1>8, <2>1, SuffixProperties
  <2>3. Len(cps) - L + 1 = n + 2 - L
    BY <1>1, <1>6, <2>1
  <2> QED
    BY <2>2, <2>3
<1>10. q \in PeerStateType
  BY Zenon, <1>8, <1>9 DEF AddCheckpoint, PeerStateType
<1>11. /\ q.tombs = p.tombs /\ q.floor = p.floor
       /\ q.live = p.live /\ q.hwm = p.hwm /\ q.dead = p.dead
  BY DEF AddCheckpoint, PeerStateType
<1> HIDE DEF q, cps, n, S, L
<1>12. WatermarkOrdered(q, t)
  <2> SUFFICES ASSUME NEW i \in 1..Len(q.cps)
               PROVE  /\ q.cps[i].at <= t
                      /\ q.cps[i].hwm <= q.hwm
                      /\ \A j \in i..Len(q.cps) : /\ q.cps[i].at <= q.cps[j].at
                                                  /\ q.cps[i].hwm <= q.cps[j].hwm
    BY DEF WatermarkOrdered
  <2>1. q.cps[i] = cps[L + i - 1] /\ L + i - 1 \in 1..(n + 1)
    BY <1>1, <1>6, <1>9
  <2>2. ASSUME NEW j \in i..Len(q.cps)
        PROVE  /\ q.cps[i].at <= q.cps[j].at
               /\ q.cps[i].hwm <= q.cps[j].hwm
    <3>1. q.cps[j] = cps[L + j - 1] /\ L + j - 1 \in (L + i - 1)..(n + 1)
      BY <1>1, <1>6, <1>9
    <3> QED
      BY <1>5, <2>1, <3>1
  <2> QED
    BY <1>4, <1>11, <2>1, <2>2
<1>13. ASSUME NEW s \in Sid, s <= hwmAged(p, t) PROVE s <= hwmAged(q, t)
  <2>1. PICK i \in OldCps(p.cps, t) : s <= p.cps[i].hwm
    BY <1>13, AgedCovers
  <2>2. i \in 1..n /\ i \in 1..(n + 1) /\ cps[i] = p.cps[i]
    BY <1>1, <1>2 DEF OldCps, n
  <2>3. i \in OldCps(cps, t)
    BY <1>2, <2>1, <2>2 DEF OldCps
  <2>4. i <= L /\ L \in OldCps(cps, t)
    BY <1>6, <1>7, <2>2, <2>3 DEF S
  <2>5. s <= cps[L].hwm
    <3>1. cps[i].hwm <= cps[L].hwm
      BY <1>5, <1>6, <2>2, <2>4
    <3>2. s \in Nat
      BY SidFinite
    <3> QED
      BY <1>3, <1>6, <2>1, <2>2, <3>1, <3>2
  <2>6. q.cps[1] = cps[L] /\ 1 \in 1..Len(q.cps)
    BY <1>1, <1>6, <1>9
  <2>7. 1 \in OldCps(q.cps, t)
    BY <2>4, <2>6 DEF OldCps
  <2> QED
    BY <1>10, <1>12, <2>5, <2>6, <2>7, AgedCovers
<1>14. ASSUME NEW i \in 1..Len(q.cps)
       PROVE  q.cps[i] = cp \/ \E j \in 1..Len(p.cps) : q.cps[i] = p.cps[j]
  <2>1. q.cps[i] = cps[L + i - 1] /\ (L + i - 1 \in 1..n \/ L + i - 1 = n + 1)
    BY <1>1, <1>6, <1>9
  <2> QED
    BY <1>2, <2>1 DEF n
<1> QED
  BY <1>10, <1>11, <1>12, <1>13, <1>14 DEF q

\* Expiry removes only tombstones the aged watermark covers.
LEMMA ExpireTombsKeeps ==
  ASSUME NEW p \in PeerStateType, NEW t \in Nat
  PROVE  LET q == ExpireTombs(p, t)
         IN  /\ q \in PeerStateType
             /\ SameMarks(p, q)
             /\ q.floor = p.floor
             /\ \A s \in Held(p) : s \in Held(q) \/ s <= hwmAged(q, t)
<1> DEFINE q == ExpireTombs(p, t)
           gone == ExpiredTombs(p, t)
           left == [s \in Sid |-> IF s \in gone THEN NoTomb ELSE p.tombs[s]]
<1>1. gone \in SUBSET Sid
  BY DEF ExpiredTombs, Tombed
<1>3. left \in [Sid -> Tomb \cup {NoTomb}]
  BY DEF PeerStateType
<1>4. q = [p EXCEPT !.tombs = left, !.bytes = @ - Bytes(p, gone)]
  BY DEF ExpireTombs
<1> HIDE DEF gone, left, q
<1>2. p.bytes - Bytes(p, gone) \in Int
  BY <1>1, BytesLess
<1>5. q \in PeerStateType
  BY Zenon, <1>2, <1>3, <1>4 DEF PeerStateType
<1>6. SameMarks(p, q) /\ q.tombs = left /\ q.floor = p.floor
  BY <1>4 DEF PeerStateType, SameMarks
<1>7. hwmAged(q, t) = hwmAged(p, t)
  BY <1>6 DEF hwmAged, SameMarks
<1>8. ASSUME NEW s \in Held(p) PROVE s \in Held(q) \/ s <= hwmAged(q, t)
  <2>1. CASE s \in gone
    BY <1>7, <2>1 DEF gone, ExpiredTombs
  <2>2. CASE s \notin gone
    BY <1>6, <2>2 DEF Held, Tombed, left
  <2> QED
    BY <2>1, <2>2
<1> QED
  BY <1>5, <1>6, <1>8 DEF q

LEMMA CompactOrderKeeps ==
  ASSUME NEW p \in PeerStateType
  PROVE  LET q == CompactOrder(p)
         IN  /\ q \in PeerStateType
             /\ SameMarks(p, q)
             /\ q.tombs = p.tombs
             /\ q.floor = p.floor
<1> DEFINE kept == [s \in Sid |-> IF s \in Tombed(p) THEN p.order[s] ELSE 0]
<1>1. kept \in [Sid -> Nat]
  BY DEF PeerStateType
<1>2. CompactOrder(p) \in {p, [p EXCEPT !.order = kept]}
  BY DEF CompactOrder, PeerStateType
<1> QED
  BY Zenon, <1>1, <1>2 DEF PeerStateType, SameMarks

\* A lost peer's tombstones survive as keys.
LEMMA LosePeerKeeps ==
  ASSUME NEW p \in PeerStateType
  PROVE  LET q == LosePeer(p)
         IN  /\ q \in PeerStateType
             /\ Held(q) = Held(p)
             /\ q.cps = p.cps /\ q.hwm = p.hwm /\ q.live = p.live
<1> DEFINE d == Degrade(p, Tombed(p))
<1>1. /\ d \in PeerStateType /\ SameMarks(p, d)
      /\ Tombed(d) = Tombed(p) /\ d.floor = p.floor
  BY DegradeKeeps
<1> HIDE DEF d
<1> DEFINE q == LosePeer(p)
<1>2. q = [d EXCEPT !.dead = TRUE]
  BY DEF LosePeer, d
<1> HIDE DEF q
<1>3. q \in PeerStateType
  BY Zenon, <1>1, <1>2 DEF PeerStateType
<1>4. /\ q.tombs = d.tombs /\ q.floor = d.floor
      /\ q.cps = d.cps /\ q.hwm = d.hwm /\ q.live = d.live
  BY <1>1, <1>2 DEF PeerStateType
<1>5. Held(q) = Held(p)
  BY <1>1, <1>4 DEF Held, Tombed
<1> QED
  BY <1>1, <1>3, <1>4, <1>5 DEF q, SameMarks

-----------------------------------------------------------------------------
(***************************************************************************)
(* The container as a whole: Fit is what every operator preserves.         *)
(***************************************************************************)
Fit(p, t) == p \in PeerStateType /\ WatermarkOrdered(p, t)

\* q deduplicates at time t whatever p did.
DedupsAll(p, q, t) == \A s \in Sid : Deduped(p, s, t) => Deduped(q, s, t)

LEMMA FitNew ==
  ASSUME NEW t \in Nat
  PROVE  Fit(NewPeerState(t), t) /\ NewPeerState(t).live = 0 /\ ~NewPeerState(t).dead
<1>1. NewPeerState(t) \in PeerStateType
  BY DEF NewPeerState, PeerStateType
<1>2. Len(NewPeerState(t).cps) = 0
  BY DEF NewPeerState
<1> QED
  BY <1>1, <1>2 DEF Fit, WatermarkOrdered, NewPeerState

LEMMA FitLater ==
  ASSUME NEW p, NEW t \in Nat, NEW u \in Nat, t <= u, Fit(p, t)
  PROVE  Fit(p, u) /\ \A s \in Sid : Deduped(p, s, t) => Deduped(p, s, u)
<1>1. p.cps \in Seq(Checkpoint)
  BY DEF Fit, PeerStateType
<1>2. \A i \in 1..Len(p.cps) : p.cps[i].at \in Nat
  <2>1. \A i \in 1..Len(p.cps) : p.cps[i] \in Checkpoint
    BY <1>1, ElementOfSeq
  <2> QED
    BY <2>1 DEF Checkpoint
<1>3. WatermarkOrdered(p, u)
  BY <1>2 DEF Fit, WatermarkOrdered
<1> QED
  BY <1>3, DedupedLater DEF Fit

\* The watermark may rise, and the counters move, without forgetting anything.
LEMMA FitTouched ==
  ASSUME NEW p, NEW t \in Nat, Fit(p, t), NEW q \in PeerStateType,
         q.cps = p.cps, q.tombs = p.tombs, q.floor = p.floor, p.hwm <= q.hwm
  PROVE  Fit(q, t) /\ DedupsAll(p, q, t) /\ Held(q) = Held(p)
<1>1. p.cps \in Seq(Checkpoint) /\ p.hwm \in Nat /\ q.hwm \in Nat
  BY DEF Fit, PeerStateType
<1>2. \A i \in 1..Len(p.cps) : p.cps[i].hwm \in Nat
  <2>1. \A i \in 1..Len(p.cps) : p.cps[i] \in Checkpoint
    BY <1>1, ElementOfSeq
  <2> QED
    BY <2>1 DEF Checkpoint
<1>3. WatermarkOrdered(q, t)
  BY <1>1, <1>2 DEF Fit, WatermarkOrdered
<1>4. Held(q) = Held(p) /\ hwmAged(q, t) = hwmAged(p, t)
  BY DEF Held, Tombed, hwmAged
<1> QED
  BY <1>3, <1>4 DEF Fit, DedupsAll, Deduped

LEMMA FitSameMarks ==
  ASSUME NEW p, NEW t \in Nat, Fit(p, t), NEW q \in PeerStateType,
         SameMarks(p, q), Held(p) \subseteq Held(q)
  PROVE  Fit(q, t) /\ DedupsAll(p, q, t) /\ q.live = p.live /\ q.dead = p.dead
BY DEF Fit, SameMarks, WatermarkOrdered, DedupsAll, Deduped, hwmAged

LEMMA FitAdmit ==
  ASSUME NEW p, NEW t \in Nat, Fit(p, t), NEW s \in Sid
  PROVE  LET q == Admit(p, s, t)
         IN  Fit(q, t) /\ DedupsAll(p, q, t) /\ q.live = p.live + 1 /\ ~q.dead
<1>1. p.hwm \in Nat /\ p.live + 1 \in Int /\ s \in Nat
  BY SidFinite DEF Fit, PeerStateType
<1>2. Larger(p.hwm, s) \in Nat /\ p.hwm <= Larger(p.hwm, s)
  BY <1>1 DEF Larger
<1> DEFINE r == [p EXCEPT !.hwm = Larger(p.hwm, s), !.live = p.live + 1, !.lastRx = t]
           q == Admit(p, s, t)
<1>3. /\ q \in PeerStateType
      /\ q.cps = p.cps /\ q.tombs = p.tombs /\ q.floor = p.floor
      /\ q.hwm = Larger(p.hwm, s) /\ q.live = p.live + 1 /\ ~q.dead
  <2>1. /\ r \in PeerStateType
        /\ r.cps = p.cps /\ r.tombs = p.tombs /\ r.floor = p.floor
        /\ r.hwm = Larger(p.hwm, s) /\ r.live = p.live + 1
    BY Zenon, <1>1, <1>2 DEF Fit, PeerStateType
  <2>2. q = [r EXCEPT !.dead = FALSE]
    BY Zenon DEF Admit, Fit, PeerStateType
  <2> HIDE DEF q, r
  <2> QED
    BY Zenon, <2>1, <2>2 DEF PeerStateType
<1> HIDE DEF q
<1>4. Fit(q, t) /\ DedupsAll(p, q, t)
  BY <1>2, <1>3, FitTouched
<1> QED
  BY <1>3, <1>4 DEF q

LEMMA FitBurn ==
  ASSUME NEW p, NEW t \in Nat, Fit(p, t), NEW s \in Sid, NEW term \in Stored
  PROVE  LET q == Burn(p, s, term, t)
         IN  /\ Fit(q, t) /\ DedupsAll(p, q, t) /\ q.live = p.live
             /\ s \in Held(q) /\ q.dead = p.dead
<1> DEFINE r == [p EXCEPT !.hwm = Larger(p.hwm, s), !.lastRx = t]
           q == Burn(p, s, term, t)
<1>1. p.hwm \in Nat /\ s \in Nat
  BY SidFinite DEF Fit, PeerStateType
<1>2. Larger(p.hwm, s) \in Nat /\ p.hwm <= Larger(p.hwm, s)
  BY <1>1 DEF Larger
<1>3. /\ r \in PeerStateType
      /\ r.cps = p.cps /\ r.tombs = p.tombs /\ r.floor = p.floor
      /\ r.hwm = Larger(p.hwm, s) /\ r.live = p.live /\ r.dead = p.dead
  BY Zenon, <1>2 DEF Fit, PeerStateType
<1> HIDE DEF r
<1>4. Fit(r, t) /\ DedupsAll(p, r, t)
  BY <1>2, <1>3, FitTouched
<1>5. q = addTomb(r, s, term, t + TTL) /\ t + TTL \in Nat
  BY PeerStateAssumption DEF Burn, r
<1> HIDE DEF q
<1>6. q \in PeerStateType /\ Held(r) \cup {s} \subseteq Held(q) /\ SameMarks(r, q)
  BY <1>4, <1>5, AddTombKeeps DEF Fit
<1>7. Fit(q, t) /\ DedupsAll(r, q, t) /\ q.live = r.live /\ q.dead = r.dead
  BY <1>4, <1>6, FitSameMarks
<1> QED
  BY <1>3, <1>4, <1>6, <1>7 DEF DedupsAll, q

LEMMA FitRetire ==
  ASSUME NEW p, NEW t \in Nat, Fit(p, t), NEW s \in Sid, NEW term \in Stored,
         NEW expire \in Nat
  PROVE  LET q == Retire(p, s, term, expire)
         IN  /\ Fit(q, t) /\ DedupsAll(p, q, t) /\ q.live = p.live - 1
             /\ s \in Held(q) /\ q.dead = p.dead
<1> DEFINE r == [p EXCEPT !.live = p.live - 1]
           q == Retire(p, s, term, expire)
           kept == IF p.dead THEN NoTerm ELSE term
<1>1. p.hwm \in Nat /\ p.live - 1 \in Int
  BY DEF Fit, PeerStateType
<1>2. /\ r \in PeerStateType
      /\ r.cps = p.cps /\ r.tombs = p.tombs /\ r.floor = p.floor
      /\ r.hwm = p.hwm /\ r.live = p.live - 1 /\ r.dead = p.dead
  BY Zenon, <1>1 DEF Fit, PeerStateType
<1> HIDE DEF r
<1>3. p.hwm <= r.hwm
  BY <1>1, <1>2
<1>4. Fit(r, t) /\ DedupsAll(p, r, t)
  BY <1>2, <1>3, FitTouched
<1>5. q = addTomb(r, s, kept, expire)
  BY DEF Retire, r, Fit, PeerStateType
<1>6. kept \in Stored
  BY DEF Stored
<1> HIDE DEF q, kept
<1>7. q \in PeerStateType /\ Held(r) \cup {s} \subseteq Held(q) /\ SameMarks(r, q)
  BY <1>4, <1>5, <1>6, AddTombKeeps DEF Fit
<1>8. Fit(q, t) /\ DedupsAll(r, q, t) /\ q.live = r.live /\ q.dead = r.dead
  BY <1>4, <1>7, FitSameMarks
<1> QED
  BY <1>2, <1>4, <1>7, <1>8 DEF DedupsAll, q

\* One sweep: checkpoint, expiry, compaction, and liveness or not.
LEMMA FitSwept ==
  ASSUME NEW p, NEW t \in Nat, Fit(p, t)
  PROVE  LET q == CompactOrder(ExpireTombs(AddCheckpoint(p, t), t))
             r == LosePeer(q)
         IN  /\ Fit(q, t) /\ DedupsAll(p, q, t) /\ q.live = p.live /\ q.dead = p.dead
             /\ Fit(r, t) /\ DedupsAll(p, r, t) /\ r.live = p.live
<1> DEFINE a == AddCheckpoint(p, t)
           x == ExpireTombs(a, t)
           q == CompactOrder(x)
           r == LosePeer(q)
<1>1. /\ Fit(a, t) /\ a.live = p.live /\ Held(a) = Held(p) /\ a.dead = p.dead
      /\ \A s \in Sid : s <= hwmAged(p, t) => s <= hwmAged(a, t)
  BY Zenon, AddCheckpointKeeps DEF Fit, Held, Tombed
<1> HIDE DEF a
<1>2. /\ x \in PeerStateType /\ SameMarks(a, x)
      /\ \A s \in Held(a) : s \in Held(x) \/ s <= hwmAged(x, t)
  BY <1>1, ExpireTombsKeeps DEF Fit
<1> HIDE DEF x
<1>3. q \in PeerStateType /\ SameMarks(x, q) /\ q.tombs = x.tombs /\ q.floor = x.floor
  BY <1>2, CompactOrderKeeps
<1> HIDE DEF q
<1>4. /\ r \in PeerStateType /\ Held(r) = Held(q)
      /\ r.cps = q.cps /\ r.hwm = q.hwm /\ r.live = q.live
  BY <1>3, LosePeerKeeps
<1> HIDE DEF r
<1>5. hwmAged(x, t) = hwmAged(a, t) /\ hwmAged(q, t) = hwmAged(x, t)
      /\ hwmAged(r, t) = hwmAged(q, t)
  BY <1>2, <1>3, <1>4 DEF hwmAged, SameMarks
<1>6. Held(q) = Held(x)
  BY <1>3 DEF Held, Tombed
<1>7. q.cps = a.cps /\ q.hwm = a.hwm /\ q.live = p.live /\ q.dead = p.dead
  BY <1>1, <1>2, <1>3 DEF SameMarks
<1>8. Fit(q, t) /\ Fit(r, t)
  BY <1>1, <1>3, <1>4, <1>7 DEF Fit, WatermarkOrdered
<1>9. DedupsAll(p, q, t) /\ DedupsAll(p, r, t)
  BY <1>1, <1>2, <1>4, <1>5, <1>6 DEF DedupsAll, Deduped
<1> QED
  BY <1>4, <1>7, <1>8, <1>9 DEF a, x, q, r
=============================================================================
