------------------------- MODULE ServerLimitProofs --------------------------
(***************************************************************************)
(* Further theorems about Server, for any caps and any timing: the aged    *)
(* watermark refuses stale calls only, the tombstone caps hold and their   *)
(* byte count is exact, and the containers of a peer are bounded. Each     *)
(* needs an invariant of its own on top of IInv.                           *)
(***************************************************************************)
EXTENDS ServerProofs
-----------------------------------------------------------------------------
(***************************************************************************)
(* The aged watermark of a Server container refuses stale calls only. The  *)
(* watermark is a number, and a call is refused for being below it although *)
(* the server never saw it: that the refusal is justified rests on the     *)
(* order in which a client allocates its sids, and on every checkpoint     *)
(* having been taken after the sids below it were allocated.               *)
(***************************************************************************)

\* When the incarnation e allocated each of its sids.
BornOf(e) == [s \in Sid |-> born[<<e, s>>]]

\* The sids up to m were allocated, by time t.
AllocatedBy(b, m, t) == \A s \in Sid : s <= m => b[s] # Never /\ b[s] <= t

\* The watermark, and each checkpoint at the time it was taken, cover only
\* allocated sids.
Dated(p, b, t) ==
  /\ AllocatedBy(b, p.hwm, t)
  /\ \A i \in 1..Len(p.cps) : AllocatedBy(b, p.cps[i].hwm, p.cps[i].at)

\* Sids are allocated in order.
SidsInOrder(b, t) == \A s \in Sid : b[s] # Never => AllocatedBy(b, s, t)

AInv ==
  \A e \in Epoch : /\ SidsInOrder(BornOf(e), now)
                   /\ Known(e) => Dated(ps[e], BornOf(e), now)

Birth == [Sid -> Nat \cup {Never}]

-----------------------------------------------------------------------------
(***************************************************************************)
(* Containers.                                                             *)
(***************************************************************************)
LEMMA BornOfType == ASSUME TypeOK, NEW e \in Epoch PROVE BornOf(e) \in Birth
BY DEF TypeOK, BornOf, Birth, Key

LEMMA CheckpointNats ==
  ASSUME NEW p \in PeerStateType
  PROVE  /\ p.hwm \in Nat /\ Len(p.cps) \in Nat
         /\ \A i \in 1..Len(p.cps) : p.cps[i].at \in Nat /\ p.cps[i].hwm \in Nat
<1>1. p.cps \in Seq(Checkpoint) /\ p.hwm \in Nat /\ Len(p.cps) \in Nat
  BY DEF PeerStateType
<1>2. \A i \in 1..Len(p.cps) : p.cps[i] \in Checkpoint
  BY <1>1, ElementOfSeq
<1> QED
  BY <1>1, <1>2 DEF Checkpoint

LEMMA DatedNew ==
  ASSUME NEW t \in Nat, NEW b \in Birth
  PROVE  Dated(NewPeerState(t), b, t)
<1>1. Len(NewPeerState(t).cps) = 0 /\ NewPeerState(t).hwm = 0
  BY DEF NewPeerState
<1> QED
  BY <1>1, SidFinite DEF Dated, AllocatedBy

\* Time passes, and the marks stay.
LEMMA DatedSame ==
  ASSUME NEW t \in Nat, NEW u \in Nat, t <= u, NEW b \in Birth, NEW p, NEW q,
         Dated(p, b, t), q.cps = p.cps, q.hwm = p.hwm
  PROVE  Dated(q, b, u)
<1>1. \A s \in Sid : b[s] \in Nat \cup {Never} /\ (b[s] <= t => b[s] <= u)
  BY DEF Birth, Never
<1> QED
  BY <1>1 DEF Dated, AllocatedBy

\* An allocated sid raises the watermark.
LEMMA DatedRaised ==
  ASSUME NEW t \in Nat, NEW b \in Birth, NEW p \in PeerStateType, NEW q, NEW s \in Sid,
         Dated(p, b, t), SidsInOrder(b, t), b[s] # Never,
         q.cps = p.cps, q.hwm = Larger(p.hwm, s)
  PROVE  Dated(q, b, t)
<1>1. q.hwm = p.hwm \/ q.hwm = s
  BY DEF Larger
<1>2. AllocatedBy(b, q.hwm, t)
  BY <1>1 DEF SidsInOrder, Dated
<1> QED
  BY <1>2 DEF Dated

\* A sweep dates the watermark with the present.
LEMMA DatedCheckpoint ==
  ASSUME NEW t \in Nat, NEW b \in Birth, NEW p, Fit(p, t), Dated(p, b, t)
  PROVE  Dated(AddCheckpoint(p, t), b, t)
<1> DEFINE q == AddCheckpoint(p, t)
<1>1. /\ q.hwm = p.hwm
      /\ \A i \in 1..Len(q.cps) : \/ q.cps[i] = [at |-> t, hwm |-> p.hwm]
                                  \/ \E j \in 1..Len(p.cps) : q.cps[i] = p.cps[j]
  BY AddCheckpointKeeps DEF Fit
<1> HIDE DEF q
<1>2. ASSUME NEW i \in 1..Len(q.cps) PROVE AllocatedBy(b, q.cps[i].hwm, q.cps[i].at)
  BY <1>1 DEF Dated
<1>3. Dated(q, b, t)
  BY <1>1, <1>2 DEF Dated
<1> QED
  BY <1>3 DEF q

LEMMA SweptMarks ==
  ASSUME now \in Nat, NEW p, Fit(p, now)
  PROVE  LET a == AddCheckpoint(p, now)
         IN  Swept(p).cps = a.cps /\ Swept(p).hwm = a.hwm
<1> DEFINE a == AddCheckpoint(p, now)
           x == ExpireTombs(a, now)
           q == CompactOrder(x)
           r == LosePeer(q)
<1>1. a \in PeerStateType
  BY Zenon, AddCheckpointKeeps DEF Fit
<1>2. Swept(p) = IF Lost(p) THEN r ELSE q
  BY DEF Swept
<1> HIDE DEF a
<1>3. x \in PeerStateType /\ x.cps = a.cps /\ x.hwm = a.hwm
  BY <1>1, ExpireTombsKeeps DEF SameMarks
<1> HIDE DEF x
<1>4. q \in PeerStateType /\ q.cps = x.cps /\ q.hwm = x.hwm
  BY <1>3, CompactOrderKeeps DEF SameMarks
<1> HIDE DEF q
<1>5. r.cps = q.cps /\ r.hwm = q.hwm
  BY <1>4, LosePeerKeeps
<1> HIDE DEF r
<1>6. Swept(p).cps = a.cps /\ Swept(p).hwm = a.hwm
  BY <1>2, <1>3, <1>4, <1>5
<1> QED
  BY <1>6 DEF a

LEMMA OpenMarks ==
  ASSUME NEW p \in PeerStateType, NEW s \in Sid, NEW term \in Stored, NEW t \in Nat
  PROVE  /\ Admit(p, s, t).cps = p.cps /\ Admit(p, s, t).hwm = Larger(p.hwm, s)
         /\ Burn(p, s, term, t).cps = p.cps /\ Burn(p, s, term, t).hwm = Larger(p.hwm, s)
<1> DEFINE r == [p EXCEPT !.hwm = Larger(p.hwm, s), !.lastRx = t]
<1>1. p.hwm \in Nat /\ s \in Nat /\ t + TTL \in Nat
  BY SidFinite, PeerStateAssumption DEF PeerStateType
<1>2. Larger(p.hwm, s) \in Nat
  BY <1>1 DEF Larger
<1>3. r \in PeerStateType /\ r.cps = p.cps /\ r.hwm = Larger(p.hwm, s)
  BY Zenon, <1>2 DEF PeerStateType
<1>4. Burn(p, s, term, t) = addTomb(r, s, term, t + TTL)
  BY DEF Burn
<1> HIDE DEF r
<1>5. SameMarks(r, addTomb(r, s, term, t + TTL))
  BY <1>1, <1>3, AddTombKeeps
<1>6. Admit(p, s, t).cps = p.cps /\ Admit(p, s, t).hwm = Larger(p.hwm, s)
  BY DEF Admit, PeerStateType
<1> QED
  BY <1>3, <1>4, <1>5, <1>6 DEF SameMarks

LEMMA RetireMarks ==
  ASSUME NEW p \in PeerStateType, NEW s \in Sid, NEW term \in Stored, NEW x \in Nat
  PROVE  Retire(p, s, term, x).cps = p.cps /\ Retire(p, s, term, x).hwm = p.hwm
<1> DEFINE r == [p EXCEPT !.live = p.live - 1]
           kept == IF p.dead THEN NoTerm ELSE term
<1>1. p.live - 1 \in Int
  BY DEF PeerStateType
<1>2. r \in PeerStateType /\ r.cps = p.cps /\ r.hwm = p.hwm
  BY Zenon, <1>1 DEF PeerStateType
<1>3. Retire(p, s, term, x) = addTomb(r, s, kept, x) /\ kept \in Stored
  BY DEF Retire, Stored
<1> HIDE DEF r, kept
<1> QED
  BY <1>2, <1>3, AddTombKeeps DEF SameMarks

-----------------------------------------------------------------------------
(***************************************************************************)
(* Steps.                                                                  *)
(***************************************************************************)
LEMMA AInvInit == Init => AInv
BY DEF Init, AInv, SidsInOrder, BornOf, Known, Key

\* Steps after which every container is gone, or has the marks it had.
LEMMA MarksKept ==
  ASSUME TypeOK, AInv, now' \in Nat, now <= now', born' = born,
         \A e \in Epoch : \/ ps'[e] = NoPS
                          \/ Known(e) /\ ps'[e].cps = ps[e].cps /\ ps'[e].hwm = ps[e].hwm
  PROVE  AInv'
<1> SUFFICES ASSUME NEW e \in Epoch
             PROVE  /\ SidsInOrder(BornOf(e), now')
                    /\ ps'[e] # NoPS => Dated(ps'[e], BornOf(e), now')
  BY DEF AInv, BornOf, Known
<1>1. now \in Nat /\ BornOf(e) \in Birth
  BY BornOfType DEF TypeOK
<1>2. SidsInOrder(BornOf(e), now) /\ (Known(e) => Dated(ps[e], BornOf(e), now))
  BY DEF AInv
<1>3. \A s \in Sid : BornOf(e)[s] <= now => BornOf(e)[s] <= now'
  BY <1>1 DEF Birth, Never
<1>4. SidsInOrder(BornOf(e), now')
  BY <1>2, <1>3 DEF SidsInOrder, AllocatedBy
<1> QED
  BY <1>1, <1>2, <1>4, DatedSame

LEMMA TouchedAge ==
  ASSUME TypeOK, AInv, NEW d \in Epoch, Known(d), ps' = Touched(d),
         now' = now, born' = born
  PROVE  AInv'
<1>1. now \in Nat /\ ps \in [Epoch -> PeerStateType \cup {NoPS}] /\ ps[d] \in PeerStateType
  BY DEF TypeOK, Known
<1>2. ps' = [ps EXCEPT ![d] = [ps[d] EXCEPT !.lastRx = now]]
  BY TouchedType
<1>3. ASSUME NEW e \in Epoch
      PROVE  \/ ps'[e] = NoPS
             \/ Known(e) /\ ps'[e].cps = ps[e].cps /\ ps'[e].hwm = ps[e].hwm
  BY <1>1, <1>2 DEF Known, PeerStateType
<1>4. now <= now' /\ now' \in Nat
  BY <1>1
<1> QED
  BY <1>3, <1>4, MarksKept

LEMMA CreateAge ==
  ASSUME IInv, AInv, NEW k \in Key, createStream(k)
  PROVE  AInv'
<1> SUFFICES ASSUME NEW e \in Epoch
             PROVE  /\ SidsInOrder(BornOf(e)', now)
                    /\ Known(e) => Dated(ps[e], BornOf(e)', now)
  BY DEF AInv, createStream, Known
<1>1. /\ TypeOK /\ now \in Nat /\ k[1] \in Epoch /\ k[2] \in Sid /\ k = <<k[1], k[2]>>
      /\ born \in [Key -> Nat \cup {Never}]
  BY DEF IInv, TypeOK, Key
<1>2. SidsInOrder(BornOf(e), now) /\ (Known(e) => Dated(ps[e], BornOf(e), now))
  BY DEF AInv
<1>3. CASE e # k[1]
  <2>1. BornOf(e)' = BornOf(e)
    BY <1>1, <1>3 DEF BornOf, createStream, Key
  <2> QED
    BY <1>2, <2>1
<1>4. CASE e = k[1]
  <2> DEFINE b == BornOf(e)
             c == BornOf(e)'
             s == k[2]
  <2>1. b \in Birth /\ s \in Nat /\ Sid \subseteq Nat
    BY <1>1, BornOfType, SidFinite
  <2>2. b[s] = Never /\ c = [b EXCEPT ![s] = now]
    <3>1. born[k] = Never /\ born' = [born EXCEPT ![k] = now]
      BY DEF createStream
    <3>2. \A r \in Sid : born'[<<e, r>>] = IF r = s THEN now ELSE born[<<e, r>>]
      BY <1>1, <1>4, <3>1 DEF Key
    <3> QED
      BY Zenon, <1>1, <1>4, <3>1, <3>2 DEF BornOf
  <2>3. \A r \in Sid : r < s => b[r] # Never
    <3>1. \A r \in Sid : r < s => r \in 1..(s - 1)
      BY <2>1 DEF Sid
    <3> QED
      BY <1>4, <3>1 DEF BornOf, createStream
  <2>4. now # Never
    BY <1>1 DEF Never
  <2> HIDE DEF b, c, s
  <2>5. \A r \in Sid : /\ r # s => c[r] = b[r]
                       /\ c[s] = now
    BY <1>1, <2>1, <2>2 DEF Birth, s
  <2>6. \A r \in Sid : b[r] # Never => c[r] = b[r]
    BY <2>2, <2>5
  <2>7. \A m, t : AllocatedBy(b, m, t) => AllocatedBy(c, m, t)
    BY <2>6 DEF AllocatedBy
  <2>8. \A r \in Sid : b[r] # Never => b[r] <= now
    BY <1>2, <2>1 DEF SidsInOrder, AllocatedBy, b
  <2>9. AllocatedBy(c, s, now)
    <3> SUFFICES ASSUME NEW r \in Sid, r <= s PROVE c[r] # Never /\ c[r] <= now
      BY DEF AllocatedBy
    <3>1. CASE r = s
      BY <1>1, <2>4, <2>5, <3>1
    <3>2. CASE r # s
      <4>1. b[r] # Never
        BY <2>1, <2>3, <3>2
      <4> QED
        BY <2>6, <2>8, <4>1
    <3> QED
      BY <3>1, <3>2
  <2>10. SidsInOrder(c, now)
    <3> SUFFICES ASSUME NEW r \in Sid, c[r] # Never PROVE AllocatedBy(c, r, now)
      BY DEF SidsInOrder
    <3>1. CASE r = s
      BY <2>9, <3>1
    <3>2. CASE r # s
      <4>1. b[r] # Never
        BY <2>5, <3>2
      <4>2. AllocatedBy(b, r, now)
        BY <1>2, <4>1 DEF SidsInOrder, b
      <4> QED
        BY <2>7, <4>2
    <3> QED
      BY <3>1, <3>2
  <2>11. Known(e) => Dated(ps[e], c, now)
    BY <1>2, <2>7 DEF Dated, b
  <2> QED
    BY <2>10, <2>11 DEF c
<1> QED
  BY <1>3, <1>4

LEMMA OpenAge ==
  ASSUME IInv, AInv, NEW k \in Key, open(k) \/ rejectOpen(k)
  PROVE  AInv'
<1> DEFINE e == k[1]
           s == k[2]
<1>1. /\ TypeOK /\ now \in Nat /\ now' = now /\ born' = born
      /\ e \in Epoch /\ s \in Sid /\ born[<<e, s>>] # Never
  <2>1. TypeOK /\ now \in Nat
    BY DEF IInv, TypeOK
  <2>2. now' = now /\ born' = born /\ born[k] # Never
    BY Zenon DEF open, rejectOpen, Admissible
  <2>3. e \in Epoch /\ s \in Sid /\ k = <<e, s>>
    BY DEF Key
  <2> QED
    BY <2>1, <2>2, <2>3
<1>2. PICK q \in ensurePeer(e) :
           \/ ps' = [q EXCEPT ![e] = Admit(q[e], s, now)]
           \/ ps' = [q EXCEPT ![e] = Burn(q[e], s, Reject, now)]
  BY Zenon DEF open, rejectOpen
<1>3. /\ q \in [Epoch -> PeerStateType \cup {NoPS}] /\ q[e] # NoPS
      /\ q[e] = IF Known(e) THEN ps[e] ELSE NewPeerState(now)
      /\ \A o \in Epoch \ {e} : q[o] = ps[o] \/ q[o] = NoPS
  BY <1>1, EnsurePeer
<1>4. Reject \in Stored /\ q[e] \in PeerStateType
  BY <1>1, <1>3, ServerAssumption DEF Stored
<1> SUFFICES ASSUME NEW o \in Epoch, ps'[o] # NoPS
             PROVE  Dated(ps'[o], BornOf(o), now)
  BY <1>1 DEF AInv, BornOf, Known
<1>5. /\ BornOf(o) \in Birth /\ SidsInOrder(BornOf(o), now)
      /\ Known(o) => Dated(ps[o], BornOf(o), now)
  BY <1>1, BornOfType DEF AInv
<1>6. CASE o = e
  <2>1. ps'[e].cps = q[e].cps /\ ps'[e].hwm = Larger(q[e].hwm, s)
    BY SMTT(30), <1>1, <1>2, <1>3, <1>4, OpenMarks
  <2>2. Dated(q[e], BornOf(e), now)
    BY <1>1, <1>3, <1>5, <1>6, DatedNew
  <2>3. BornOf(e)[s] # Never
    BY <1>1 DEF BornOf
  <2> QED
    BY SMTT(30), <1>1, <1>4, <1>5, <1>6, <2>1, <2>2, <2>3, DatedRaised
<1>7. CASE o # e
  BY Zenon, <1>1, <1>2, <1>3, <1>5, <1>7 DEF Known
<1> QED
  BY <1>6, <1>7

LEMMA FinishAge ==
  ASSUME IInv, AInv, NEW k \in Key, NEW v \in Term, NEW x \in 0..ExtraTTL, finish(k, v, x)
  PROVE  AInv'
<1> DEFINE term == IF k \in suppress THEN NoTerm ELSE v
<1>1. /\ TypeOK /\ now \in Nat /\ now' = now /\ born' = born
      /\ ps \in [Epoch -> PeerStateType \cup {NoPS}]
      /\ k[1] \in Epoch /\ k[2] \in Sid /\ k = <<k[1], k[2]>> /\ term \in Stored /\ Live(k)
      /\ ps' = [ps EXCEPT ![k[1]] = Retire(ps[k[1]], k[2], term, now + TTL + x)]
  BY FinishTerm DEF IInv, TypeOK, finish, Key
<1> HIDE DEF term
<1>2. Known(k[1]) /\ ps[k[1]] \in PeerStateType
  BY <1>1, OwnerKnown DEF IInv, Known
<1>3. now + TTL + x \in Nat /\ now <= now' /\ now' \in Nat
  BY <1>1, PeerStateAssumption, ServerAssumption
<1>4. ASSUME NEW e \in Epoch
      PROVE  \/ ps'[e] = NoPS
             \/ Known(e) /\ ps'[e].cps = ps[e].cps /\ ps'[e].hwm = ps[e].hwm
  BY <1>1, <1>2, <1>3, RetireMarks DEF Known
<1> QED
  BY <1>1, <1>3, <1>4, MarksKept

LEMMA SweepAge ==
  ASSUME IInv, AInv, sweep
  PROVE  AInv'
<1> DEFINE q == [o \in Epoch |-> IF Known(o) THEN SweepPeer(ps[o]) ELSE NoPS]
<1>1. TypeOK /\ now \in Nat /\ now' = now /\ born' = born /\ ps' = q
  BY Zenon DEF IInv, TypeOK, sweep
<1> SUFFICES ASSUME NEW e \in Epoch, q[e] # NoPS
             PROVE  Dated(q[e], BornOf(e), now)
  BY <1>1 DEF AInv, BornOf, Known
<1>2. Known(e) /\ q[e] = Swept(ps[e])
  BY DEF SweepPeer
<1>3. Fit(ps[e], now)
  BY <1>2 DEF IInv, Sound, SoundAs, Known
<1>4. BornOf(e) \in Birth /\ Dated(ps[e], BornOf(e), now)
  BY <1>1, <1>2, BornOfType DEF AInv
<1>5. Dated(AddCheckpoint(ps[e], now), BornOf(e), now)
  BY Zenon, <1>1, <1>3, <1>4, DatedCheckpoint
<1>6. q[e].cps = AddCheckpoint(ps[e], now).cps /\ q[e].hwm = AddCheckpoint(ps[e], now).hwm
  BY <1>1, <1>2, <1>3, SweptMarks
<1>7. now <= now
  BY <1>1
<1> HIDE DEF q
<1> QED
  BY <1>1, <1>4, <1>5, <1>6, <1>7, DatedSame

LEMMA AInvStep == IInv /\ AInv /\ [Next]_vars => AInv'
<1> SUFFICES ASSUME IInv, AInv, [Next]_vars PROVE AInv'
  OBVIOUS
<1>0. TypeOK /\ now \in Nat /\ now <= now
  <2>1. TypeOK /\ now \in Nat
    BY DEF IInv, TypeOK
  <2> QED
    BY <2>1
<1>q. ASSUME ps' = ps, born' = born, now' \in Nat, now <= now' PROVE AInv'
  BY <1>0, <1>q, MarksKept DEF Known
<1> USE DEF streamVars, stopVars, historyVars
<1>1. CASE Tick
  <2>1. now' \in Nat /\ now <= now'
    BY <1>0, <1>1 DEF Tick
  <2> QED
    BY <1>1, <1>q, <2>1 DEF Tick
<1>2. ASSUME NEW k \in Key, HandleReset(k) \/ CallTimeout(k) PROVE AInv'
  BY <1>0, <1>2, <1>q DEF HandleReset, CallTimeout
<1>3. ASSUME NEW k \in Key, HandleStraggler(k) \/ HandleAbort(k) PROVE AInv'
  <2>1. Remembered(k) /\ k[1] \in Epoch
    BY <1>3 DEF HandleStraggler, HandleAbort, Remembered, Key
  <2>2. Known(k[1])
    BY <2>1, OwnerKnown DEF IInv
  <2> QED
    BY <1>0, <1>3, <2>1, <2>2, TouchedAge DEF HandleStraggler, HandleAbort
<1>4. ASSUME NEW k \in Key, NEW v \in Term, NEW x \in 0..ExtraTTL, finish(k, v, x)
      PROVE  AInv'
  BY <1>4, FinishAge
<1>5. ASSUME NEW e \in Epoch, HandlePing(e) PROVE AInv'
  BY <1>0, <1>5, TouchedAge DEF HandlePing
<1>6. ASSUME NEW k \in Key, open(k) \/ rejectOpen(k) PROVE AInv'
  BY <1>6, OpenAge
<1>7. CASE sweep
  BY <1>7, SweepAge
<1>8. CASE gracefulStop \/ stop \/ StopReturns \/ finishOrphan
  BY <1>0, <1>8, <1>q DEF gracefulStop, stop, StopReturns, finishOrphan
<1>9. CASE disconnectPeer
  BY Zenon, <1>0, <1>9, MarksKept DEF disconnectPeer
<1>10. ASSUME NEW k \in Key, createStream(k) PROVE AInv'
  BY <1>10, CreateAge
<1>11. CASE UNCHANGED vars
  BY <1>0, <1>11, <1>q DEF vars
<1> QED
  BY <1>1, <1>2, <1>3, <1>4, <1>5, <1>6, <1>7, <1>8, <1>9, <1>10, <1>11
     DEF Next, Serve, Teardown

-----------------------------------------------------------------------------
\* A call the aged watermark refuses was allocated at least TTL ago, whatever
\* overtook it on the way and however the sweeps fell.
THEOREM RefusesOnlyStale == Spec => []OnlyStaleRefused
<1>1. ASSUME IInv, AInv PROVE OnlyStaleRefused
  <2> SUFFICES ASSUME NEW k \in Key, Known(k[1]), born[k] # Never,
                      k[2] <= hwmAged(ps[k[1]], now)
               PROVE  now - born[k] >= TTL
    BY DEF OnlyStaleRefused
  <2> DEFINE p == ps[k[1]]
  <2>1. /\ now \in Nat /\ k[1] \in Epoch /\ k[2] \in Sid
        /\ BornOf(k[1])[k[2]] = born[k] /\ born[k] \in Nat
    BY <1>1 DEF IInv, TypeOK, Key, BornOf
  <2>2. Fit(p, now) /\ Dated(p, BornOf(k[1]), now)
    BY Zenon, <1>1, <2>1 DEF IInv, AInv, Sound, SoundAs, Known
  <2> HIDE DEF p
  <2>3. PICK i \in OldCps(p.cps, now) : k[2] <= p.cps[i].hwm
    BY Zenon, <2>1, <2>2, AgedCovers DEF Fit, p
  <2>4. i \in 1..Len(p.cps) /\ now - p.cps[i].at >= TTL
    BY <2>3 DEF OldCps
  <2>5. p.cps[i].at \in Nat
    BY Zenon, <2>2, <2>4, CheckpointNats DEF Fit
  <2>6. born[k] <= p.cps[i].at
    BY <2>1, <2>2, <2>3, <2>4 DEF Dated, AllocatedBy
  <2> QED
    BY SMTT(30), <2>1, <2>4, <2>5, <2>6, PeerStateAssumption
<1> QED
  BY <1>1, AInvInit, AInvStep, Invariance, PTL DEF Spec
-----------------------------------------------------------------------------
(***************************************************************************)
(* The tombstone caps of a Server container hold after every step, and the *)
(* running byte count is the size of what is stored, for any caps. addTomb *)
(* corrects the count in five places; the replacement of a tombstone is    *)
(* the one place that could break the byte cap, and it is never reached:   *)
(* a live call has no tombstone.                                           *)
(***************************************************************************)

-----------------------------------------------------------------------------
(***************************************************************************)
(* Counting bytes.                                                         *)
(***************************************************************************)
\* The bytes of the tombstones of D, as the pairs Bytes counts.
Units(p, D) ==
  {b \in D \X (1..MaxTermSize) : b[2] <= SizeOf(p.tombs[b[1]].term)}

LEMMA UnitsFinite ==
  ASSUME NEW p, NEW D \in SUBSET Sid
  PROVE  IsFiniteSet(Units(p, D)) /\ Bytes(p, D) = Cardinality(Units(p, D))
<1>1. IsFiniteSet(D) /\ IsFiniteSet(1..MaxTermSize)
  <2>1. IsFiniteSet(D)
    BY Zenon, SidFinite, FS_Subset
  <2>2. IsFiniteSet(1..MaxTermSize)
    BY FS_Interval, PeerStateAssumption
  <2> QED
    BY <2>1, <2>2
<1>2. IsFiniteSet(D \X (1..MaxTermSize))
  BY Zenon, <1>1, FS_Product
<1>3. Units(p, D) \in SUBSET (D \X (1..MaxTermSize))
  BY DEF Units
<1>4. IsFiniteSet(Units(p, D))
  BY Zenon, <1>2, <1>3, FS_Subset
<1> QED
  BY <1>4 DEF Bytes, Units

LEMMA BytesEmpty == ASSUME NEW p PROVE Bytes(p, {}) = 0
<1>1. Units(p, {}) = {}
  BY DEF Units
<1>2. Bytes(p, {}) = Cardinality(Units(p, {}))
  BY UnitsFinite
<1> QED
  BY <1>1, <1>2, FS_EmptySet

\* Containers that store the same for D.
LEMMA BytesSame ==
  ASSUME NEW p, NEW q, NEW D, \A s \in D : q.tombs[s].term = p.tombs[s].term
  PROVE  Bytes(q, D) = Bytes(p, D)
<1>1. \A b \in D \X (1..MaxTermSize) : q.tombs[b[1]].term = p.tombs[b[1]].term
  OBVIOUS
<1>2. Units(q, D) = Units(p, D)
  BY <1>1 DEF Units
<1> QED
  BY <1>2 DEF Bytes, Units

\* Keys are free.
LEMMA BytesKeys ==
  ASSUME NEW p, NEW D \in SUBSET Sid, \A s \in D : p.tombs[s].term = NoTerm
  PROVE  Bytes(p, D) = 0
<1>1. ASSUME NEW b \in D \X (1..MaxTermSize)
      PROVE  ~(b[2] <= SizeOf(p.tombs[b[1]].term))
  <2>1. b[1] \in D /\ b[2] \in 1..MaxTermSize
    OBVIOUS
  <2>2. SizeOf(p.tombs[b[1]].term) = 0
    BY <2>1 DEF SizeOf
  <2> QED
    BY <2>1, <2>2, PeerStateAssumption
<1>2. Units(p, D) = {}
  BY <1>1 DEF Units
<1>3. Bytes(p, D) = Cardinality(Units(p, D))
  BY UnitsFinite
<1> QED
  BY <1>2, <1>3, FS_EmptySet

LEMMA BytesSplit ==
  ASSUME NEW p \in PeerStateType, NEW D \in SUBSET Sid, NEW E \in SUBSET D
  PROVE  /\ Bytes(p, D) = Bytes(p, E) + Bytes(p, D \ E)
         /\ Bytes(p, E) \in Nat /\ Bytes(p, D \ E) \in Nat
<1> DEFINE F == D \ E
<1>1. F \in SUBSET Sid /\ E \in SUBSET Sid
  OBVIOUS
<1>2. Units(p, D) = Units(p, E) \cup Units(p, F) /\ Units(p, E) \cap Units(p, F) = {}
  BY Zenon DEF Units
<1> HIDE DEF F
<1>3. /\ IsFiniteSet(Units(p, E)) /\ Bytes(p, E) = Cardinality(Units(p, E))
      /\ IsFiniteSet(Units(p, F)) /\ Bytes(p, F) = Cardinality(Units(p, F))
      /\ Bytes(p, D) = Cardinality(Units(p, D))
  BY <1>1, UnitsFinite
<1>4. Cardinality(Units(p, D)) = Cardinality(Units(p, E)) + Cardinality(Units(p, F)) - 0
  BY <1>2, <1>3, FS_Union, FS_EmptySet
<1>5. Bytes(p, E) \in Nat /\ Bytes(p, F) \in Nat
  BY <1>1, BytesType
<1> QED
  BY <1>3, <1>4, <1>5 DEF F

LEMMA BytesOne ==
  ASSUME NEW p, NEW s \in Sid, p.tombs[s].term \in Stored
  PROVE  Bytes(p, {s}) = SizeOf(p.tombs[s].term)
<1> DEFINE z == SizeOf(p.tombs[s].term)
           f == [i \in 1..z |-> <<s, i>>]
<1>1. z \in 0..MaxTermSize /\ z \in Nat
  BY PeerStateAssumption DEF SizeOf, Stored
<1>2. Units(p, {s}) = {b \in {s} \X (1..MaxTermSize) : b[2] <= z}
  <2>1. \A b \in {s} \X (1..MaxTermSize) : b[1] = s
    OBVIOUS
  <2> QED
    BY <2>1 DEF Units
<1> HIDE DEF z
<1>3. f \in [1..z -> Units(p, {s})]
  <2>1. \A i \in 1..z : i \in 1..MaxTermSize /\ i <= z
    BY <1>1, PeerStateAssumption
  <2>2. \A i \in 1..z : <<s, i>> \in Units(p, {s})
    BY Zenon, <1>2, <2>1
  <2> QED
    BY <2>2
<1>4. \A i, j \in 1..z : f[i] = f[j] => i = j
  OBVIOUS
<1>5. \A b \in Units(p, {s}) : \E i \in 1..z : f[i] = b
  <2> SUFFICES ASSUME NEW b \in Units(p, {s}) PROVE \E i \in 1..z : f[i] = b
    OBVIOUS
  <2>1. b[2] \in 1..z /\ b = <<s, b[2]>>
    BY <1>1, <1>2, PeerStateAssumption
  <2> QED
    BY <2>1
<1> HIDE DEF f
<1>6. f \in Bijection(1..z, Units(p, {s}))
  BY Zenon, <1>3, <1>4, <1>5 DEF Bijection, Injection, Surjection, IsInjective
<1>7. IsFiniteSet(1..z) /\ Cardinality(1..z) = z
  BY <1>1, FS_Interval
<1>8. Cardinality(Units(p, {s})) = z
  BY <1>6, <1>7, FS_Bijection DEF ExistsBijection
<1>9. Bytes(p, {s}) = Cardinality(Units(p, {s}))
  BY UnitsFinite
<1> QED
  BY <1>8, <1>9 DEF z

-----------------------------------------------------------------------------
(***************************************************************************)
(* Containers.                                                             *)
(***************************************************************************)
\* The count is right, and no order entry is younger than the last one.
Exact(p) ==
  /\ p.bytes = Bytes(p, Tombed(p))
  /\ \A s \in Sid : p.order[s] <= p.stamp

Booked(p) ==
  /\ Exact(p)
  /\ p.bytes <= MaxTombBytes
  /\ Cardinality(Tombed(p)) <= MaxTombs

\* q has p's tombstones and p's books.
SameBooks(p, q) ==
  /\ q.tombs = p.tombs
  /\ q.bytes = p.bytes
  /\ q.order = p.order
  /\ q.stamp = p.stamp

LEMMA BookedSame ==
  ASSUME NEW p, NEW q, SameBooks(p, q)
  PROVE  /\ Exact(p) => Exact(q)
         /\ Booked(p) => Booked(q)
         /\ Tombed(q) = Tombed(p)
<1>1. Tombed(q) = Tombed(p) /\ Bytes(q, Tombed(q)) = Bytes(p, Tombed(p))
  BY DEF SameBooks, Tombed, Bytes
<1> QED
  BY <1>1 DEF SameBooks, Exact, Booked

LEMMA TombedSids ==
  ASSUME NEW p
  PROVE  Tombed(p) \in SUBSET Sid /\ IsFiniteSet(Tombed(p)) /\ Cardinality(Tombed(p)) \in Nat
<1>1. Tombed(p) \in SUBSET Sid
  BY DEF Tombed
<1>2. IsFiniteSet(Tombed(p))
  BY Zenon, <1>1, SidFinite, FS_Subset
<1> QED
  BY <1>1, <1>2, FS_CardinalityType

LEMMA TombedStored ==
  ASSUME NEW p \in PeerStateType, NEW s \in Tombed(p)
  PROVE  p.tombs[s] \in Tomb /\ p.tombs[s].term \in Stored
<1>1. p.tombs[s] \in Tomb
  BY DEF Tombed, PeerStateType
<1> QED
  BY <1>1 DEF Tomb

LEMMA BookedNew ==
  ASSUME NEW t \in Nat
  PROVE  Booked(NewPeerState(t)) /\ Tombed(NewPeerState(t)) = {}
<1> DEFINE p == NewPeerState(t)
<1>1. Tombed(p) = {} /\ p.bytes = 0 /\ \A s \in Sid : p.order[s] <= p.stamp
  BY DEF NewPeerState, Tombed
<1> HIDE DEF p
<1>2. Bytes(p, Tombed(p)) = 0
  BY <1>1, BytesEmpty
<1>3. Booked(p)
  <2>1. Cardinality(Tombed(p)) = 0
    BY <1>1, FS_EmptySet
  <2> QED
    BY <1>1, <1>2, <2>1, PeerStateAssumption DEF Booked, Exact
<1> QED
  BY <1>1, <1>3 DEF p

LEMMA DegradeBooks ==
  ASSUME NEW p \in PeerStateType, NEW D \in SUBSET Tombed(p), Exact(p)
  PROVE  LET q == Degrade(p, D)
         IN  /\ Exact(q)
             /\ q.bytes <= p.bytes
             /\ D = Tombed(p) => q.bytes = 0
<1> DEFINE q == Degrade(p, D)
           T == Tombed(p)
<1>1. T \in SUBSET Sid /\ D \in SUBSET Sid /\ Tombed(q) = T
  BY DegradeKeeps, TombedSids
<1>2. /\ q.tombs = [s \in Sid |-> IF s \in D THEN [p.tombs[s] EXCEPT !.term = NoTerm]
                                             ELSE p.tombs[s]]
      /\ q.bytes = p.bytes - Bytes(p, D)
      /\ q.order = p.order /\ q.stamp = p.stamp
  BY DEF Degrade, PeerStateType
<1>3. q \in PeerStateType
  BY DegradeKeeps
<1>4. \A s \in D : q.tombs[s].term = NoTerm
  <2> SUFFICES ASSUME NEW s \in D PROVE q.tombs[s].term = NoTerm
    OBVIOUS
  <2>1. q.tombs[s] = [p.tombs[s] EXCEPT !.term = NoTerm]
    BY <1>1, <1>2
  <2>2. p.tombs[s] \in Tomb
    BY TombedStored
  <2> QED
    BY <2>1, <2>2 DEF Tomb
<1>5. \A s \in T \ D : q.tombs[s].term = p.tombs[s].term
  BY <1>1, <1>2
<1> HIDE DEF q, T
<1>6. Bytes(q, D) = 0 /\ Bytes(q, T \ D) = Bytes(p, T \ D)
  BY <1>1, <1>4, <1>5, BytesKeys, BytesSame
<1>7. /\ Bytes(p, T) = Bytes(p, D) + Bytes(p, T \ D)
      /\ Bytes(p, D) \in Nat /\ Bytes(p, T \ D) \in Nat
  BY Zenon, <1>1, BytesSplit DEF T
<1>8. Bytes(q, T) = Bytes(q, D) + Bytes(q, T \ D)
  BY Zenon, <1>1, <1>3, BytesSplit DEF T
<1>9. p.bytes = Bytes(p, T) /\ \A s \in Sid : p.order[s] <= p.stamp
  BY DEF Exact, T
<1>10. q.bytes = Bytes(q, T) /\ q.bytes <= p.bytes
  BY <1>2, <1>6, <1>7, <1>8, <1>9
<1>11. D = T => q.bytes = 0
  <2>1. T \ T = {}
    OBVIOUS
  <2>2. D = T => Bytes(p, T \ D) = 0
    BY <2>1, BytesEmpty
  <2> QED
    BY <1>2, <1>7, <1>9, <2>2
<1>12. Exact(q)
  BY Zenon, <1>1, <1>2, <1>9, <1>10 DEF Exact
<1> QED
  BY <1>10, <1>11, <1>12 DEF q, T

\* The byte cap stops as soon as the stored terminals fit, and they fit at the
\* latest when all are gone.
LEMMA CapBytesBooks ==
  ASSUME NEW p \in PeerStateType, Exact(p)
  PROVE  Exact(CapBytes(p)) /\ CapBytes(p).bytes <= MaxTombBytes
<1> DEFINE after(k) == Degrade(p, OldestTombs(p, k))
           enough == {k \in 0..p.stamp : k = p.stamp \/ after(k).bytes <= MaxTombBytes}
<1>1. p.stamp \in Nat /\ p.stamp \in enough /\ enough \in SUBSET Nat
  BY DEF PeerStateType
<1>2. CapBytes(p) = after(Min(enough))
  BY Zenon DEF CapBytes
<1>3. Min(enough) \in enough
  <2> HIDE DEF enough
  <2>1. \E k \in enough : \A j \in enough : k <= j
    BY Zenon, <1>1, LeastExists
  <2> QED
    BY Zenon, <2>1 DEF Min
<1>4. PICK k \in enough : CapBytes(p) = after(k)
  BY Zenon, <1>2, <1>3
<1>5. OldestTombs(p, k) \in SUBSET Tombed(p)
  BY DEF OldestTombs
<1>6. Exact(after(k))
  BY <1>5, DegradeBooks
<1>7. CASE k = p.stamp
  <2>1. OldestTombs(p, k) = Tombed(p)
    BY <1>7, TombedSids DEF OldestTombs, Exact
  <2>2. after(k).bytes = 0
    BY <1>5, <2>1, DegradeBooks
  <2> QED
    BY <1>4, <1>6, <2>2, PeerStateAssumption
<1>8. CASE after(k).bytes <= MaxTombBytes
  BY <1>4, <1>6, <1>8
<1> QED
  BY <1>7, <1>8

\* The entry cap makes room for the one entry too many.
LEMMA CapEntriesBooks ==
  ASSUME NEW p \in PeerStateType, Exact(p), p.bytes <= MaxTombBytes,
         Cardinality(Tombed(p)) <= MaxTombs + 1
  PROVE  Booked(CapEntries(p)) /\ Tombed(CapEntries(p)) \subseteq Tombed(p)
<1> DEFINE q == CapEntries(p)
           T == Tombed(p)
<1>0. T \in SUBSET Sid /\ IsFiniteSet(T) /\ Cardinality(T) \in Nat
  BY TombedSids
<1>1. CASE Cardinality(Tombed(p)) <= MaxTombs
  BY <1>1 DEF CapEntries, Booked
<1>2. CASE ~(Cardinality(Tombed(p)) <= MaxTombs)
  <2> DEFINE low == Lowest(p)
  <2>1. T # {} /\ T \in SUBSET Nat
    <3>1. T # {}
      BY <1>2, FS_EmptySet, PeerStateAssumption
    <3> QED
      BY Zenon, <1>0, <3>1, SidFinite
  <2>2. \E s \in T : \A r \in T : s <= r
    BY <2>1, LeastExists
  <2>3. low \in T
    BY <2>2 DEF Lowest
  <2>4. low \in Sid /\ p.tombs[low].term \in Stored
    BY <1>0, <2>3, TombedStored
  <2>5. q = [p EXCEPT !.tombs[low] = NoTomb,
                      !.bytes = @ - SizeOf(p.tombs[low].term),
                      !.floor = IF @ < low THEN low ELSE @]
    BY <1>2 DEF CapEntries
  <2>6. /\ q.tombs = [p.tombs EXCEPT ![low] = NoTomb]
        /\ q.bytes = p.bytes - SizeOf(p.tombs[low].term)
        /\ q.order = p.order /\ q.stamp = p.stamp
    BY <2>5 DEF PeerStateType
  <2> HIDE DEF q, low
  <2>7. Tombed(q) = T \ {low}
    BY <2>4, <2>6 DEF Tombed, PeerStateType
  <2>8. Bytes(q, T \ {low}) = Bytes(p, T \ {low})
    <3>1. \A s \in T \ {low} : q.tombs[s].term = p.tombs[s].term
      BY <1>0, <2>4, <2>6 DEF PeerStateType
    <3> QED
      BY <3>1, BytesSame
  <2>9. /\ Bytes(p, T) = Bytes(p, {low}) + Bytes(p, T \ {low})
        /\ Bytes(p, {low}) \in Nat /\ Bytes(p, T \ {low}) \in Nat
    <3>1. {low} \in SUBSET T
      BY <2>3
    <3> QED
      BY Zenon, <1>0, <3>1, BytesSplit
  <2>10. Bytes(p, {low}) = SizeOf(p.tombs[low].term)
    BY <2>4, BytesOne
  <2>11. p.bytes = Bytes(p, T) /\ \A s \in Sid : p.order[s] <= p.stamp
    BY DEF Exact
  <2> HIDE DEF T
  <2>12. q.bytes = Bytes(q, Tombed(q)) /\ q.bytes <= p.bytes
    BY SMTT(30), <2>6, <2>7, <2>8, <2>9, <2>10, <2>11
  <2>13. Cardinality(Tombed(q)) = Cardinality(T) - 1
    BY Zenon, <1>0, <2>3, <2>7, FS_RemoveElement
  <2>14. Cardinality(Tombed(q)) <= MaxTombs
    BY SMTT(30), <1>0, <2>13, PeerStateAssumption DEF T
  <2>15. p.bytes \in Int /\ q.bytes \in Int
    BY <2>9, <2>11, <2>6, <2>10
  <2>16. q.bytes <= MaxTombBytes
    BY <2>12, <2>15, PeerStateAssumption
  <2> QED
    BY <2>6, <2>7, <2>11, <2>12, <2>14, <2>16 DEF Booked, Exact, q, T
<1> QED
  BY <1>1, <1>2

\* What the step from one insertion stamp to the next needs of arithmetic.
LEMMA StampArithmetic ==
  /\ \A a \in Nat : a + 1 \in Nat
  /\ \A a \in Int, b \in Nat : a + b \in Int
  /\ \A a, b \in Nat : a <= b \/ a = b + 1 => a <= b + 1
OBVIOUS

LEMMA InsertBooks ==
  ASSUME NEW p \in PeerStateType, NEW s \in Sid, s \notin Tombed(p), NEW term \in Stored,
         NEW x \in Nat, Booked(p)
  PROVE  LET q == InsertTomb(p, s, term, x)
         IN  /\ q \in PeerStateType
             /\ Exact(q)
             /\ Tombed(q) = Tombed(p) \cup {s}
             /\ Cardinality(Tombed(q)) <= MaxTombs + 1
<1> DEFINE q == InsertTomb(p, s, term, x)
           T == Tombed(p)
           new == [term |-> term, expire |-> x]
<1>0. T \in SUBSET Sid /\ IsFiniteSet(T) /\ Cardinality(T) \in Nat /\ SizeOf(term) \in Nat
  BY TombedSids, PeerStateAssumption DEF SizeOf, Stored
<1>1. /\ q.tombs = [p.tombs EXCEPT ![s] = new]
      /\ q.order = [p.order EXCEPT ![s] = IF @ = 0 THEN p.stamp + 1 ELSE @]
      /\ q.stamp = p.stamp + 1
      /\ q.bytes = p.bytes + SizeOf(term)
  BY DEF InsertTomb, PeerStateType
<1>2. new \in Tomb /\ NoTomb \notin Tomb
  BY PeerStateAssumption DEF Tomb, NoTomb, Stored, NoTerm
<1>3. /\ p.stamp \in Nat /\ p.bytes \in Int /\ p.order \in [Sid -> Nat]
      /\ p.tombs \in [Sid -> Tomb \cup {NoTomb}]
  BY DEF PeerStateType
<1>4. q \in PeerStateType
  <2>1. q.tombs \in [Sid -> Tomb \cup {NoTomb}]
    BY Zenon, <1>1, <1>2, <1>3
  <2>2. q = [p EXCEPT !.tombs = q.tombs, !.order = q.order,
                      !.stamp = q.stamp, !.bytes = q.bytes]
    BY DEF InsertTomb, PeerStateType
  <2> HIDE DEF q
  <2>3. p.stamp + 1 \in Nat /\ p.bytes + SizeOf(term) \in Int
    BY Zenon, <1>0, <1>3, StampArithmetic
  <2>4. q.order \in [Sid -> Nat]
    BY Zenon, <1>1, <1>3, <2>3
  <2>5. q.stamp \in Nat /\ q.bytes \in Int
    BY Zenon, <1>1, <2>3
  <2> QED
    BY Zenon, <2>1, <2>2, <2>4, <2>5 DEF PeerStateType
<1>5. q.tombs[s] = new /\ \A r \in Sid : r # s => q.tombs[r] = p.tombs[r]
  BY Zenon, <1>1, <1>3
<1>6. Tombed(q) = T \cup {s}
  BY ZenonT(40), <1>2, <1>5 DEF Tombed
<1>7. \A r \in Sid : q.order[r] <= q.stamp
  <2> SUFFICES ASSUME NEW r \in Sid PROVE q.order[r] <= q.stamp
    BY Zenon
  <2>1. q.order[r] = p.order[r] \/ q.order[r] = p.stamp + 1
    BY Zenon, <1>1, <1>3
  <2>2. p.order[r] \in Nat /\ p.order[r] <= p.stamp
    BY <1>3 DEF Booked, Exact
  <2>3. q.stamp = p.stamp + 1 /\ p.stamp \in Nat /\ q.stamp \in Nat
    BY Zenon, <1>1, <1>3, StampArithmetic
  <2>4. q.order[r] \in Nat
    BY Zenon, <2>1, <2>2, <2>3
  <2> HIDE DEF q
  <2>5. q.order[r] <= p.stamp \/ q.order[r] = p.stamp + 1
    BY Zenon, <2>1, <2>2
  <2> QED
    BY Zenon, <2>3, <2>4, <2>5, StampArithmetic
<1>8. Bytes(q, T) = Bytes(p, T) /\ Bytes(q, {s}) = SizeOf(term)
  <2>1. \A r \in T : q.tombs[r].term = p.tombs[r].term
    BY Zenon, <1>0, <1>5
  <2>2. q.tombs[s].term = term
    BY SMTT(30), <1>5
  <2> HIDE DEF q
  <2> QED
    BY ZenonT(40), <2>1, <2>2, BytesSame, BytesOne
<1> HIDE DEF q, T
<1>9. Bytes(q, T \cup {s}) = Bytes(q, T) + SizeOf(term)
  <2>1. (T \cup {s}) \ {s} = T /\ {s} \in SUBSET (T \cup {s}) /\ T \cup {s} \in SUBSET Sid
    BY <1>0 DEF T
  <2>2. /\ Bytes(q, T \cup {s}) = Bytes(q, {s}) + Bytes(q, T)
        /\ Bytes(q, {s}) \in Nat /\ Bytes(q, T) \in Nat
    BY SMTT(30), <1>4, <2>1, BytesSplit
  <2> QED
    BY <1>8, <2>2
<1>10. p.bytes = Bytes(p, T) /\ Cardinality(T) <= MaxTombs
  BY DEF Booked, Exact, T
<1>11. Exact(q)
  BY Zenon, <1>1, <1>6, <1>7, <1>8, <1>9, <1>10 DEF Exact
<1>12. Cardinality(Tombed(q)) <= MaxTombs + 1
  <2>1. Cardinality(T \cup {s}) = Cardinality(T) + 1
    BY Zenon, <1>0, FS_AddElement DEF T
  <2> QED
    BY <1>0, <1>6, <1>10, <2>1, PeerStateAssumption
<1> QED
  BY <1>4, <1>6, <1>11, <1>12 DEF q, T

\* addTomb of a sid that has no tombstone.
LEMMA AddTombBooks ==
  ASSUME NEW p \in PeerStateType, NEW s \in Sid, s \notin Tombed(p), NEW term \in Stored,
         NEW x \in Nat, Booked(p)
  PROVE  LET q == addTomb(p, s, term, x)
         IN  Booked(q) /\ Tombed(q) \subseteq Tombed(p) \cup {s}
<1> DEFINE i == InsertTomb(p, s, term, x)
           c == CapBytes(i)
           q == addTomb(p, s, term, x)
<1>1. q = IF s <= p.floor THEN p ELSE CapEntries(c)
  BY DEF addTomb
<1>2. /\ i \in PeerStateType /\ Exact(i) /\ Tombed(i) = Tombed(p) \cup {s}
      /\ Cardinality(Tombed(i)) <= MaxTombs + 1
  BY InsertBooks
<1> HIDE DEF i, q
<1>3. c \in PeerStateType /\ Exact(c) /\ c.bytes <= MaxTombBytes /\ Tombed(c) = Tombed(i)
  BY Zenon, <1>2, CapBytesBooks, CapBytesKeeps
<1> HIDE DEF c
<1>4. Booked(CapEntries(c)) /\ Tombed(CapEntries(c)) \subseteq Tombed(c)
  BY <1>2, <1>3, CapEntriesBooks
<1>5. Booked(q) /\ Tombed(q) \subseteq Tombed(p) \cup {s}
  BY Zenon, <1>1, <1>2, <1>3, <1>4
<1> QED
  BY <1>5 DEF q

LEMMA ExpireBooks ==
  ASSUME NEW p \in PeerStateType, NEW t \in Nat, Booked(p)
  PROVE  LET q == ExpireTombs(p, t)
         IN  Booked(q) /\ Tombed(q) \subseteq Tombed(p)
<1> DEFINE q == ExpireTombs(p, t)
           T == Tombed(p)
           gone == ExpiredTombs(p, t)
<1>0. T \in SUBSET Sid /\ IsFiniteSet(T) /\ Cardinality(T) \in Nat /\ gone \in SUBSET T
  BY Zenon, TombedSids DEF ExpiredTombs
<1>1. /\ q.tombs = [s \in Sid |-> IF s \in gone THEN NoTomb ELSE p.tombs[s]]
      /\ q.bytes = p.bytes - Bytes(p, gone)
      /\ q.order = p.order /\ q.stamp = p.stamp
  BY DEF ExpireTombs, PeerStateType
<1> HIDE DEF q, gone
<1>2. Tombed(q) = T \ gone
  BY Zenon, <1>0, <1>1 DEF Tombed
<1>3. Bytes(q, T \ gone) = Bytes(p, T \ gone)
  <2>1. \A s \in T \ gone : q.tombs[s].term = p.tombs[s].term
    BY Zenon, <1>0, <1>1
  <2> QED
    BY <2>1, BytesSame
<1> HIDE DEF T
<1>4. /\ Bytes(p, T) = Bytes(p, gone) + Bytes(p, T \ gone)
      /\ Bytes(p, gone) \in Nat /\ Bytes(p, T \ gone) \in Nat
  BY Zenon, <1>0, BytesSplit
<1>5. /\ p.bytes = Bytes(p, T) /\ p.bytes <= MaxTombBytes
      /\ Cardinality(T) <= MaxTombs /\ \A s \in Sid : p.order[s] <= p.stamp
  BY Zenon DEF Booked, Exact, T
<1>6. q.bytes = Bytes(q, Tombed(q)) /\ q.bytes <= MaxTombBytes
  BY SMTT(30), <1>1, <1>2, <1>3, <1>4, <1>5, PeerStateAssumption
<1>7. Cardinality(Tombed(q)) <= MaxTombs
  <2>1. T \ gone \in SUBSET T
    OBVIOUS
  <2>2. IsFiniteSet(T \ gone) /\ Cardinality(T \ gone) <= Cardinality(T)
    BY Zenon, <1>0, <2>1, FS_Subset
  <2>3. Cardinality(T \ gone) \in Nat
    BY <2>2, FS_CardinalityType
  <2> QED
    BY SMTT(30), <1>0, <1>2, <1>5, <2>2, <2>3, PeerStateAssumption
<1>8. Booked(q)
  BY Zenon, <1>1, <1>5, <1>6, <1>7 DEF Booked, Exact
<1> QED
  BY <1>2, <1>8 DEF q, T

LEMMA CompactBooks ==
  ASSUME NEW p \in PeerStateType, Booked(p)
  PROVE  LET q == CompactOrder(p)
         IN  Booked(q) /\ Tombed(q) = Tombed(p)
<1> DEFINE q == CompactOrder(p)
<1>1. /\ q.tombs = p.tombs /\ q.bytes = p.bytes /\ q.stamp = p.stamp
      /\ \A s \in Sid : q.order[s] = p.order[s] \/ q.order[s] = 0
  BY DEF CompactOrder, PeerStateType
<1> HIDE DEF q
<1>2. Tombed(q) = Tombed(p) /\ Bytes(q, Tombed(q)) = Bytes(p, Tombed(p))
  BY Zenon, <1>1 DEF Tombed, Bytes
<1>3. p.stamp \in Nat /\ \A s \in Sid : p.order[s] <= p.stamp
  BY DEF Booked, Exact, PeerStateType
<1>4. \A s \in Sid : q.order[s] <= q.stamp
  BY <1>1, <1>3
<1> QED
  BY Zenon, <1>1, <1>2, <1>4 DEF Booked, Exact, q

LEMMA LoseBooks ==
  ASSUME NEW p \in PeerStateType, Booked(p)
  PROVE  LET q == LosePeer(p)
         IN  Booked(q) /\ Tombed(q) = Tombed(p)
<1> DEFINE d == Degrade(p, Tombed(p))
           q == LosePeer(p)
<1>1. d \in PeerStateType /\ Tombed(d) = Tombed(p) /\ Exact(d) /\ d.bytes = 0
  BY DegradeKeeps, DegradeBooks DEF Booked
<1>2. q = [d EXCEPT !.dead = TRUE]
  BY DEF LosePeer
<1> HIDE DEF d, q
<1>3. SameBooks(d, q)
  BY <1>1, <1>2 DEF SameBooks, PeerStateType
<1>4. Booked(d)
  BY <1>1, PeerStateAssumption DEF Booked
<1> QED
  BY <1>1, <1>3, <1>4, BookedSame DEF q

LEMMA SweptBooks ==
  ASSUME now \in Nat, NEW p, Fit(p, now), Booked(p)
  PROVE  Booked(Swept(p)) /\ Tombed(Swept(p)) \subseteq Tombed(p)
<1> DEFINE a == AddCheckpoint(p, now)
           x == ExpireTombs(a, now)
           q == CompactOrder(x)
           r == LosePeer(q)
<1>0. p \in PeerStateType
  BY DEF Fit
<1>1. a \in PeerStateType
  BY Zenon, AddCheckpointKeeps DEF Fit
<1>2. SameBooks(p, a)
  BY <1>0 DEF AddCheckpoint, SameBooks, PeerStateType
<1>3. Swept(p) = IF Lost(p) THEN r ELSE q
  BY DEF Swept
<1> HIDE DEF a
<1>4. Booked(a) /\ Tombed(a) = Tombed(p)
  BY <1>2, BookedSame
<1>5. x \in PeerStateType /\ Booked(x) /\ Tombed(x) \subseteq Tombed(a)
  BY <1>1, <1>4, ExpireBooks, ExpireTombsKeeps
<1> HIDE DEF x
<1>6. q \in PeerStateType /\ Booked(q) /\ Tombed(q) = Tombed(x)
  BY <1>5, CompactBooks, CompactOrderKeeps
<1> HIDE DEF q
<1>7. Booked(r) /\ Tombed(r) = Tombed(q)
  BY <1>6, LoseBooks
<1> HIDE DEF r
<1> QED
  BY <1>3, <1>4, <1>5, <1>6, <1>7

LEMMA OpenBooks ==
  ASSUME NEW p \in PeerStateType, NEW s \in Sid, s \notin Tombed(p), NEW term \in Stored,
         NEW t \in Nat, Booked(p)
  PROVE  /\ Booked(Admit(p, s, t)) /\ Tombed(Admit(p, s, t)) = Tombed(p)
         /\ Booked(Burn(p, s, term, t)) /\ Tombed(Burn(p, s, term, t)) \subseteq Tombed(p) \cup {s}
<1> DEFINE r == [p EXCEPT !.hwm = Larger(p.hwm, s), !.lastRx = t]
<1>1. p.hwm \in Nat /\ s \in Nat /\ t + TTL \in Nat
  BY SidFinite, PeerStateAssumption DEF PeerStateType
<1>2. Larger(p.hwm, s) \in Nat
  BY <1>1 DEF Larger
<1>3. r \in PeerStateType /\ SameBooks(p, r)
  BY Zenon, <1>2 DEF PeerStateType, SameBooks
<1>4. Burn(p, s, term, t) = addTomb(r, s, term, t + TTL)
  BY DEF Burn
<1> HIDE DEF r
<1>5. Booked(r) /\ Tombed(r) = Tombed(p)
  BY <1>3, BookedSame
<1>6. SameBooks(p, Admit(p, s, t))
  BY DEF Admit, PeerStateType, SameBooks
<1>7. Booked(Admit(p, s, t)) /\ Tombed(Admit(p, s, t)) = Tombed(p)
  BY <1>6, BookedSame
<1>8. /\ Booked(addTomb(r, s, term, t + TTL))
      /\ Tombed(addTomb(r, s, term, t + TTL)) \subseteq Tombed(r) \cup {s}
  BY Zenon, <1>1, <1>3, <1>5, AddTombBooks
<1> QED
  BY <1>4, <1>5, <1>7, <1>8

LEMMA RetireBooks ==
  ASSUME NEW p \in PeerStateType, NEW s \in Sid, s \notin Tombed(p), NEW term \in Stored,
         NEW x \in Nat, Booked(p)
  PROVE  LET q == Retire(p, s, term, x)
         IN  Booked(q) /\ Tombed(q) \subseteq Tombed(p) \cup {s}
<1> DEFINE r == [p EXCEPT !.live = p.live - 1]
           kept == IF p.dead THEN NoTerm ELSE term
<1>1. p.live - 1 \in Int
  BY DEF PeerStateType
<1>2. r \in PeerStateType /\ SameBooks(p, r)
  BY Zenon, <1>1 DEF PeerStateType, SameBooks
<1>3. Retire(p, s, term, x) = addTomb(r, s, kept, x) /\ kept \in Stored
  BY DEF Retire, Stored
<1> HIDE DEF r, kept
<1>4. Booked(r) /\ Tombed(r) = Tombed(p)
  BY <1>2, BookedSame
<1> QED
  BY SMTT(30), <1>2, <1>3, <1>4, AddTombBooks

-----------------------------------------------------------------------------
(***************************************************************************)
(* Steps.                                                                  *)
(***************************************************************************)
\* A container's books are right, and none of its live calls has a tombstone.
Kept(p, own) == Booked(p) /\ own \cap Tombed(p) = {}

BInv == \A e \in Epoch : Known(e) => Kept(ps[e], Own(e))

LEMMA BInvInit == Init => BInv
BY DEF Init, BInv, Known

\* Steps after which every container is gone, or has the books it had.
LEMMA BooksKept ==
  ASSUME BInv,
         \A e \in Epoch : \/ ps'[e] = NoPS
                          \/ /\ Known(e) /\ SameBooks(ps[e], ps'[e])
                             /\ Own(e)' \subseteq Own(e)
  PROVE  BInv'
<1> SUFFICES ASSUME NEW e \in Epoch, ps'[e] # NoPS
             PROVE  Kept(ps'[e], Own(e)')
  BY Zenon DEF BInv, Known
<1>1. Known(e) /\ SameBooks(ps[e], ps'[e]) /\ Own(e)' \subseteq Own(e)
  OBVIOUS
<1>2. Booked(ps[e]) /\ Own(e) \cap Tombed(ps[e]) = {}
  BY Zenon, <1>1 DEF BInv, Kept
<1>3. Booked(ps'[e]) /\ Tombed(ps'[e]) = Tombed(ps[e])
  BY Zenon, <1>1, <1>2, BookedSame
<1> QED
  BY Zenon, <1>1, <1>2, <1>3 DEF Kept

LEMMA QuietBooks == ASSUME BInv, ps' = ps, live' = live PROVE BInv'
<1>1. \A e \in Epoch : SameBooks(ps[e], ps'[e]) /\ Own(e)' \subseteq Own(e)
  BY DEF SameBooks, Own
<1> QED
  BY <1>1, BooksKept DEF Known

LEMMA TouchedBooks ==
  ASSUME TypeOK, BInv, NEW d \in Epoch, Known(d), ps' = Touched(d), live' = live
  PROVE  BInv'
<1>1. ps \in [Epoch -> PeerStateType \cup {NoPS}] /\ ps[d] \in PeerStateType
  BY Zenon DEF TypeOK, Known
<1>2. ps' = [ps EXCEPT ![d] = [ps[d] EXCEPT !.lastRx = now]]
  BY TouchedType
<1>3. ASSUME NEW e \in Epoch
      PROVE  \/ ps'[e] = NoPS
             \/ Known(e) /\ SameBooks(ps[e], ps'[e]) /\ Own(e)' \subseteq Own(e)
  <2>1. Own(e)' \subseteq Own(e)
    BY DEF Own
  <2>2. CASE e = d
    BY Zenon, <1>1, <1>2, <2>1, <2>2 DEF SameBooks, PeerStateType
  <2>3. CASE e # d
    BY <1>1, <1>2, <2>1, <2>3 DEF SameBooks, Known
  <2> QED
    BY Zenon, <2>2, <2>3
<1> QED
  BY Zenon, <1>3, BooksKept

LEMMA OpenStepBooks ==
  ASSUME IInv, BInv, NEW k \in Key, open(k) \/ rejectOpen(k)
  PROVE  BInv'
<1> DEFINE e == k[1]
           s == k[2]
<1>1. TypeOK /\ now \in Nat /\ e \in Epoch /\ s \in Sid /\ k = <<e, s>>
  <2>1. TypeOK /\ now \in Nat
    BY DEF IInv, TypeOK
  <2>2. e \in Epoch /\ s \in Sid /\ k = <<e, s>>
    BY DEF Key
  <2> QED
    BY <2>1, <2>2
<1>2. ~Live(k) /\ (Known(e) => ~Deduped(ps[e], s, now))
  BY Zenon DEF open, rejectOpen, Admissible
<1>3. PICK q \in ensurePeer(e) :
           \/ ps' = [q EXCEPT ![e] = Admit(q[e], s, now)] /\ live' = live \cup {k}
           \/ ps' = [q EXCEPT ![e] = Burn(q[e], s, Reject, now)] /\ live' = live
  BY Zenon DEF open, rejectOpen, streamVars
<1>4. /\ q \in [Epoch -> PeerStateType \cup {NoPS}] /\ q[e] # NoPS
      /\ q[e] = IF Known(e) THEN ps[e] ELSE NewPeerState(now)
      /\ \A o \in Epoch \ {e} : q[o] = ps[o] \/ q[o] = NoPS
  BY <1>1, EnsurePeer
<1>5. Reject \in Stored /\ q[e] \in PeerStateType
  BY <1>1, <1>4, ServerAssumption DEF Stored
<1> SUFFICES ASSUME NEW o \in Epoch, ps'[o] # NoPS
             PROVE  Kept(ps'[o], Own(o)')
  BY Zenon DEF BInv, Known
<1>6. CASE o = e
  <2>1. Booked(q[e]) /\ Own(e) \cap Tombed(q[e]) = {} /\ s \notin Tombed(q[e])
    <3>1. CASE Known(e)
      BY Zenon, <1>1, <1>2, <1>4, <3>1 DEF BInv, Kept, Deduped, Held
    <3>2. CASE ~Known(e)
      BY Zenon, <1>1, <1>4, <3>2, BookedNew
    <3> QED
      BY Zenon, <3>1, <3>2
  <2>2. s \notin Own(e)
    BY <1>1, <1>2 DEF Own, Live
  <2>3. CASE ps' = [q EXCEPT ![e] = Admit(q[e], s, now)] /\ live' = live \cup {k}
    <3>1. ps'[e] = Admit(q[e], s, now) /\ Own(e)' = Own(e) \cup {s}
      BY SMTT(30), <1>1, <1>4, <2>3 DEF Own
    <3>2. Booked(ps'[e]) /\ Tombed(ps'[e]) = Tombed(q[e])
      BY SMTT(30), <1>1, <1>5, <2>1, <3>1, OpenBooks
    <3> QED
      BY Zenon, <1>6, <2>1, <3>1, <3>2 DEF Kept
  <2>4. CASE ps' = [q EXCEPT ![e] = Burn(q[e], s, Reject, now)] /\ live' = live
    <3>1. ps'[e] = Burn(q[e], s, Reject, now) /\ Own(e)' = Own(e)
      BY Zenon, <1>1, <1>4, <2>4 DEF Own
    <3>2. Booked(ps'[e]) /\ Tombed(ps'[e]) \subseteq Tombed(q[e]) \cup {s}
      BY SMTT(30), <1>1, <1>5, <2>1, <3>1, OpenBooks
    <3> QED
      BY Zenon, <1>6, <2>1, <2>2, <3>1, <3>2 DEF Kept
  <2> QED
    BY Zenon, <1>3, <2>3, <2>4
<1>7. CASE o # e
  <2>1. ps'[o] = q[o] /\ q[o] = ps[o]
    BY Zenon, <1>3, <1>4, <1>7
  <2>2. Own(o)' = Own(o)
    BY <1>1, <1>3, <1>7 DEF Own
  <2> QED
    BY Zenon, <2>1, <2>2 DEF BInv, Known
<1> QED
  BY Zenon, <1>6, <1>7

LEMMA FinishStepBooks ==
  ASSUME IInv, BInv, NEW k \in Key, NEW v \in Term, NEW x \in 0..ExtraTTL, finish(k, v, x)
  PROVE  BInv'
<1> DEFINE term == IF k \in suppress THEN NoTerm ELSE v
<1>1. /\ TypeOK /\ now \in Nat /\ live' = live \ {k}
      /\ ps \in [Epoch -> PeerStateType \cup {NoPS}]
      /\ k[1] \in Epoch /\ k[2] \in Sid /\ k = <<k[1], k[2]>> /\ term \in Stored /\ Live(k)
      /\ ps' = [ps EXCEPT ![k[1]] = Retire(ps[k[1]], k[2], term, now + TTL + x)]
  <2>1. k[1] \in Epoch /\ k[2] \in Sid /\ k = <<k[1], k[2]>>
    BY DEF Key
  <2>2. /\ live' = live \ {k} /\ Live(k)
        /\ ps' = [ps EXCEPT ![k[1]] = Retire(ps[k[1]], k[2], term, now + TTL + x)]
    BY Zenon DEF finish
  <2>3. term \in Stored
    BY FinishTerm
  <2>4. TypeOK /\ now \in Nat /\ ps \in [Epoch -> PeerStateType \cup {NoPS}]
    BY Zenon DEF IInv, TypeOK
  <2> QED
    BY Zenon, <2>1, <2>2, <2>3, <2>4
<1> HIDE DEF term
<1>2. Known(k[1]) /\ ps[k[1]] \in PeerStateType
  BY Zenon, <1>1, OwnerKnown DEF IInv, Known
<1>3. now + TTL + x \in Nat
  BY SMTT(30), <1>1, PeerStateAssumption, ServerAssumption
<1> SUFFICES ASSUME NEW e \in Epoch, ps'[e] # NoPS
             PROVE  Kept(ps'[e], Own(e)')
  BY Zenon DEF BInv, Known
<1>4. CASE e = k[1]
  <2>1. Booked(ps[e]) /\ Own(e) \cap Tombed(ps[e]) = {} /\ k[2] \in Own(e)
    BY Zenon, <1>1, <1>2, <1>4 DEF BInv, Kept, Own, Live
  <2>2. ps'[e] = Retire(ps[e], k[2], term, now + TTL + x) /\ Own(e)' = Own(e) \ {k[2]}
    BY <1>1, <1>4 DEF Own
  <2>3. Booked(ps'[e]) /\ Tombed(ps'[e]) \subseteq Tombed(ps[e]) \cup {k[2]}
    BY SMTT(30), <1>1, <1>2, <1>3, <1>4, <2>1, <2>2, RetireBooks
  <2> QED
    BY Zenon, <2>1, <2>2, <2>3 DEF Kept
<1>5. CASE e # k[1]
  <2>1. ps'[e] = ps[e] /\ Own(e)' = Own(e)
    BY <1>1, <1>5 DEF Own
  <2> QED
    BY Zenon, <2>1 DEF BInv, Known
<1> QED
  BY Zenon, <1>4, <1>5

LEMMA SweepBooks ==
  ASSUME IInv, BInv, sweep
  PROVE  BInv'
<1> DEFINE q == [o \in Epoch |-> IF Known(o) THEN SweepPeer(ps[o]) ELSE NoPS]
<1>1. now \in Nat /\ live' = live /\ ps' = q
  BY Zenon DEF IInv, TypeOK, sweep
<1> SUFFICES ASSUME NEW e \in Epoch, q[e] # NoPS
             PROVE  Kept(q[e], Own(e))
  BY <1>1 DEF BInv, Own, Known
<1>2. Known(e) /\ q[e] = Swept(ps[e])
  BY DEF SweepPeer
<1>3. Fit(ps[e], now)
  BY <1>2 DEF IInv, Sound, SoundAs, Known
<1>4. Booked(ps[e]) /\ Own(e) \cap Tombed(ps[e]) = {}
  BY <1>2 DEF BInv, Kept
<1> HIDE DEF q
<1>5. Booked(q[e]) /\ Tombed(q[e]) \subseteq Tombed(ps[e])
  BY Zenon, <1>1, <1>2, <1>3, <1>4, SweptBooks
<1> QED
  BY Zenon, <1>4, <1>5 DEF Kept

LEMMA BInvStep == IInv /\ BInv /\ [Next]_vars => BInv'
<1> SUFFICES ASSUME IInv, BInv, [Next]_vars PROVE BInv'
  OBVIOUS
<1>0. TypeOK
  BY DEF IInv
<1> USE DEF streamVars, stopVars, historyVars
<1>1. CASE Tick
  BY <1>1, QuietBooks DEF Tick
<1>2. ASSUME NEW k \in Key, createStream(k) \/ HandleReset(k) \/ CallTimeout(k) PROVE BInv'
  BY Zenon, <1>2, QuietBooks DEF createStream, HandleReset, CallTimeout
<1>3. ASSUME NEW k \in Key, HandleStraggler(k) \/ HandleAbort(k) PROVE BInv'
  <2>1. Remembered(k) /\ k[1] \in Epoch
    BY <1>3 DEF HandleStraggler, HandleAbort, Remembered, Key
  <2>2. Known(k[1])
    BY <2>1, OwnerKnown DEF IInv
  <2> QED
    BY Zenon, <1>0, <1>3, <2>1, <2>2, TouchedBooks DEF HandleStraggler, HandleAbort
<1>4. ASSUME NEW k \in Key, NEW v \in Term, NEW x \in 0..ExtraTTL, finish(k, v, x)
      PROVE  BInv'
  BY <1>4, FinishStepBooks
<1>5. ASSUME NEW e \in Epoch, HandlePing(e) PROVE BInv'
  BY <1>0, <1>5, TouchedBooks DEF HandlePing
<1>6. ASSUME NEW k \in Key, open(k) \/ rejectOpen(k) PROVE BInv'
  BY <1>6, OpenStepBooks
<1>7. CASE sweep
  BY <1>7, SweepBooks
<1>8. CASE gracefulStop \/ stop \/ StopReturns \/ finishOrphan
  BY Zenon, <1>8, QuietBooks DEF gracefulStop, stop, StopReturns, finishOrphan
<1>9. CASE disconnectPeer
  BY <1>9 DEF disconnectPeer, BInv, Known
<1>10. CASE UNCHANGED vars
  BY <1>10, QuietBooks DEF vars
<1> QED
  BY <1>1, <1>2, <1>3, <1>4, <1>5, <1>6, <1>7, <1>8, <1>9, <1>10
     DEF Next, Serve, Teardown

-----------------------------------------------------------------------------
\* The byte count of a container is exact, and addTomb, finish and sweep keep
\* both tombstone caps, whatever the caps and the sizes of the terminals.
THEOREM TombstonesBounded == Spec => []TombsBounded
<1>1. BInv => TombsBounded
  BY Zenon DEF BInv, TombsBounded, Kept, Booked, Exact
<1> QED
  BY <1>1, BInvInit, BInvStep, Invariance, PTL DEF Spec

-----------------------------------------------------------------------------
(***************************************************************************)
(* The containers of one peer. A container with live calls is paid for by  *)
(* one of the at most MaxLiveCalls calls, and one is created only after    *)
(* the idle ones have been brought below the cap, or in the place of one.  *)
(***************************************************************************)
KnownPeers == {e \in Epoch : Known(e)}

PInv ==
  /\ Cardinality(live) <= MaxLiveCalls
  /\ IsFiniteSet(KnownPeers)
  /\ PeersBounded

\* There are no more containers with live calls than live calls.
LEMMA BusyPeers ==
  ASSUME IInv
  PROVE  /\ IsFiniteSet(KnownPeers \ IdlePeers)
         /\ Cardinality(KnownPeers \ IdlePeers) <= Cardinality(live)
<1> DEFINE B == KnownPeers \ IdlePeers
           g(e) == <<e, CHOOSE s \in Sid : <<e, s>> \in live>>
           f == [e \in B |-> g(e)]
<1>1. ASSUME NEW e \in B PROVE g(e) \in live /\ g(e)[1] = e
  <2>1. e \in Epoch /\ Known(e) /\ ps[e].live # 0
    BY <1>1 DEF KnownPeers, IdlePeers
  <2>2. ps[e].live = Cardinality(Own(e))
    BY Zenon, <2>1 DEF IInv, Sound, SoundAs, Known
  <2>3. Own(e) # {}
    BY Zenon, <2>1, <2>2, FS_EmptySet
  <2>4. \E s \in Sid : <<e, s>> \in live
    BY <2>3 DEF Own
  <2> QED
    BY <1>1, <2>4
<1> HIDE DEF g
<1>2. f \in [B -> live]
  BY <1>1
<1>3. \A d, e \in B : f[d] = f[e] => d = e
  BY <1>1
<1>4. f \in Injection(B, live)
  BY <1>2, <1>3, Zenon DEF Injection, IsInjective
<1>5. IsFiniteSet(live)
  BY DEF IInv, Finite
<1> HIDE DEF B
<1>6. IsFiniteSet(B) /\ Cardinality(B) <= Cardinality(live)
  BY <1>4, <1>5, FS_Injection
<1> QED
  BY <1>6 DEF B

\* Before a container is created, there is room for it, or an idle one goes.
LEMMA EnsureBounded ==
  ASSUME IInv, PInv, NEW e \in Epoch, NEW q \in ensurePeer(e)
  PROVE  LET K == {o \in Epoch : q[o] # NoPS}
         IN  IsFiniteSet(K) /\ Cardinality(K) <= MaxDeadPeers + MaxLiveCalls
<1> DEFINE K == {o \in Epoch : q[o] # NoPS}
<1>1. /\ ps \in [Epoch -> PeerStateType \cup {NoPS}] /\ TypeOK
      /\ IsFiniteSet(KnownPeers) /\ Cardinality(KnownPeers) <= MaxDeadPeers + MaxLiveCalls
  BY Zenon DEF IInv, TypeOK, PInv, PeersBounded, KnownPeers
<1>2. q[e] # NoPS
  BY <1>1, EnsurePeer
<1>3. CASE Known(e)
  <2>1. K = KnownPeers
    BY <1>3 DEF ensurePeer, KnownPeers, Known
  <2> QED
    BY <1>1, <2>1
<1>4. CASE ~Known(e) /\ Cardinality(IdlePeers) < MaxDeadPeers
           /\ q = [ps EXCEPT ![e] = NewPeerState(now)]
  <2>1. K = KnownPeers \cup {e} /\ e \notin KnownPeers
    BY <1>1, <1>2, <1>4 DEF KnownPeers, Known
  <2>2. IsFiniteSet(K) /\ Cardinality(K) = Cardinality(KnownPeers) + 1
    BY SMTT(30), <1>1, <2>1, FS_AddElement
  <2>3. IsFiniteSet(IdlePeers) /\ IdlePeers \subseteq KnownPeers
    <3>1. IdlePeers \in SUBSET KnownPeers
      BY Zenon DEF IdlePeers, KnownPeers
    <3> QED
      BY <1>1, <3>1, FS_Subset
  <2>4. KnownPeers \cap IdlePeers = IdlePeers
    BY <2>3
  <2>5. Cardinality(KnownPeers \ IdlePeers) = Cardinality(KnownPeers) - Cardinality(IdlePeers)
    BY Zenon, <1>1, <2>4, FS_Difference
  <2>6. Cardinality(KnownPeers \ IdlePeers) <= MaxLiveCalls
    <3>1. Cardinality(KnownPeers \ IdlePeers) \in Nat /\ Cardinality(live) \in Nat
      BY BusyPeers, FS_CardinalityType DEF IInv, Finite
    <3> QED
      BY <3>1, BusyPeers, ServerAssumption DEF PInv
  <2>7. Cardinality(KnownPeers) \in Nat /\ Cardinality(IdlePeers) \in Nat
    BY Zenon, <1>1, <2>3, FS_CardinalityType
  <2> QED
    BY SMTT(30), <1>4, <2>2, <2>5, <2>6, <2>7, ServerAssumption
<1>5. CASE ~Known(e) /\ \E o \in OldestIdle :
             q = [ps EXCEPT ![o] = NoPS, ![e] = NewPeerState(now)]
  <2>1. PICK o \in OldestIdle : q = [ps EXCEPT ![o] = NoPS, ![e] = NewPeerState(now)]
    BY <1>5, Zenon
  <2>2. o \in Epoch /\ Known(o) /\ o # e /\ e \notin KnownPeers /\ o \in KnownPeers
    BY Zenon, <1>5 DEF OldestIdle, IdlePeers, KnownPeers
  <2>3. K = (KnownPeers \ {o}) \cup {e} /\ e \notin KnownPeers \ {o}
    BY Zenon, <1>1, <1>2, <2>1, <2>2 DEF KnownPeers, Known
  <2>4. IsFiniteSet(KnownPeers \ {o}) /\ Cardinality(KnownPeers \ {o}) = Cardinality(KnownPeers) - 1
    BY Zenon, <1>1, <2>2, FS_RemoveElement
  <2>5. IsFiniteSet(K) /\ Cardinality(K) = Cardinality(KnownPeers \ {o}) + 1
    BY SMTT(30), <2>3, <2>4, FS_AddElement
  <2>6. Cardinality(KnownPeers) \in Nat
    BY <1>1, FS_CardinalityType
  <2> QED
    BY SMTT(30), <1>1, <2>4, <2>5, <2>6, ServerAssumption
<1> QED
  BY <1>3, <1>4, <1>5, Zenon DEF ensurePeer

\* A step that creates no container.
LEMMA FewerPeers ==
  ASSUME PInv, Cardinality(live') <= MaxLiveCalls, \A e \in Epoch : Known(e)' => Known(e)
  PROVE  PInv'
<1>1. KnownPeers' \in SUBSET KnownPeers
  BY DEF KnownPeers, Known
<1>2. IsFiniteSet(KnownPeers) /\ Cardinality(KnownPeers) <= MaxDeadPeers + MaxLiveCalls
  BY DEF PInv, PeersBounded, KnownPeers
<1>3. IsFiniteSet(KnownPeers') /\ Cardinality(KnownPeers') <= Cardinality(KnownPeers)
  BY <1>1, <1>2, FS_Subset
<1>4. Cardinality(KnownPeers) \in Nat /\ Cardinality(KnownPeers') \in Nat
  BY <1>2, <1>3, FS_CardinalityType
<1>5. Cardinality(KnownPeers') <= MaxDeadPeers + MaxLiveCalls
  BY <1>2, <1>3, <1>4, ServerAssumption
<1> QED
  BY Zenon, <1>3, <1>5 DEF PInv, PeersBounded, KnownPeers

\* An OPEN.
LEMMA OpenPeers ==
  ASSUME IInv, PInv, NEW k \in Key, open(k) \/ rejectOpen(k)
  PROVE  PInv'
<1>1. k[1] \in Epoch /\ TypeOK
  BY DEF Key, IInv
<1>2. PICK q \in ensurePeer(k[1]) :
        \E p \in {Admit(q[k[1]], k[2], now), Burn(q[k[1]], k[2], Reject, now)} :
           ps' = [q EXCEPT ![k[1]] = p]
  BY Zenon DEF open, rejectOpen
<1>3. /\ q \in [Epoch -> PeerStateType \cup {NoPS}] /\ q[k[1]] # NoPS
  BY Zenon, <1>1, EnsurePeer
<1>4. PICK p : ps' = [q EXCEPT ![k[1]] = p]
  BY Zenon, <1>2
<1>5. KnownPeers' \in SUBSET {o \in Epoch : q[o] # NoPS}
  BY <1>3, <1>4 DEF KnownPeers, Known
<1> DEFINE K == {o \in Epoch : q[o] # NoPS}
<1>6. IsFiniteSet(K) /\ Cardinality(K) <= MaxDeadPeers + MaxLiveCalls
  BY Zenon, <1>1, EnsureBounded
<1>7. /\ IsFiniteSet(KnownPeers') /\ Cardinality(KnownPeers') <= Cardinality(K)
      /\ Cardinality(KnownPeers') \in Nat /\ Cardinality(K) \in Nat
  BY Zenon, <1>5, <1>6, FS_Subset, FS_CardinalityType
<1>8. Cardinality(KnownPeers') <= MaxDeadPeers + MaxLiveCalls
  BY SMTT(30), <1>6, <1>7, ServerAssumption
<1>9. Cardinality(live') <= MaxLiveCalls
  <2>1. live' = live \/ (~Capped /\ live' = live \cup {k})
    BY Zenon DEF open, rejectOpen, streamVars
  <2>2. IsFiniteSet(live) /\ Cardinality(live) \in Nat
    BY FS_CardinalityType DEF IInv, Finite
  <2>3. Cardinality(live \cup {k}) \in {Cardinality(live), Cardinality(live) + 1}
    <3>1. Cardinality(live \cup {k}) = IF k \in live THEN Cardinality(live) ELSE Cardinality(live) + 1
      BY Zenon, <2>2, FS_AddElement
    <3> QED
      BY <3>1
  <2>4. Cardinality(live) <= MaxLiveCalls
    BY DEF PInv
  <2>5. CASE live' = live
    BY <2>4, <2>5
  <2>6. CASE ~Capped /\ live' = live \cup {k}
    <3>1. Cardinality(live) < MaxLiveCalls
      BY SMTT(30), <2>2, <2>6, ServerAssumption DEF Capped
    <3>2. Cardinality(live') <= Cardinality(live) + 1
      BY SMTT(30), <2>2, <2>3, <2>6
    <3>3. Cardinality(live') \in Nat
      BY <2>2, <2>3, <2>6
    <3> QED
      BY <2>2, <3>1, <3>2, <3>3, ServerAssumption
  <2> QED
    BY <2>1, <2>5, <2>6
<1> QED
  BY <1>7, <1>8, <1>9 DEF PInv, PeersBounded, KnownPeers

LEMMA PInvInit == Init => PInv
<1> SUFFICES ASSUME Init PROVE PInv
  OBVIOUS
<1>1. KnownPeers = {} /\ live = {}
  BY DEF Init, KnownPeers, Known
<1> QED
  BY <1>1, FS_EmptySet, ServerAssumption DEF PInv, PeersBounded, KnownPeers

LEMMA PInvStep == IInv /\ PInv /\ [Next]_vars => PInv'
<1> SUFFICES ASSUME IInv, PInv, [Next]_vars PROVE PInv'
  OBVIOUS
<1>1. ASSUME NEW k \in Key, open(k) \/ rejectOpen(k) PROVE PInv'
  BY <1>1, OpenPeers
<1>2. ASSUME ~(\E k \in Key : open(k) \/ rejectOpen(k)) PROVE PInv'
  <2> USE DEF streamVars, stopVars, historyVars
  <2>1. live' = live \/ live' = {} \/ \E k \in Key : live' = live \ {k}
    BY <1>2, Zenon DEF Next, Serve, Teardown, Tick, createStream, HandleStraggler,
       HandleAbort, HandleReset, CallTimeout, finish, HandlePing,
       finishOrphan, sweep, gracefulStop, stop, StopReturns, disconnectPeer, vars
  <2>2. Cardinality(live') <= MaxLiveCalls
    <3>1. IsFiniteSet(live) /\ Cardinality(live) \in Nat
      BY FS_CardinalityType DEF IInv, Finite
    <3>2. live' \in SUBSET live
      BY <2>1
    <3>3. Cardinality(live') <= Cardinality(live) /\ Cardinality(live') \in Nat
      BY <3>1, <3>2, FS_Subset, FS_CardinalityType
    <3> QED
      BY <3>1, <3>3, ServerAssumption DEF PInv
  <2>3. \A e \in Epoch : Known(e)' => Known(e)
    <3>1. ASSUME ps' = ps PROVE \A e \in Epoch : Known(e)' => Known(e)
      BY <3>1 DEF Known
    <3>2. ASSUME NEW e \in Epoch, Known(e), ps' = Touched(e) PROVE \A d \in Epoch : Known(d)' => Known(d)
      BY <3>2 DEF Touched, Known, IInv, TypeOK
    <3>3. ASSUME NEW k \in Key, NEW v \in Term, NEW x \in 0..ExtraTTL, finish(k, v, x)
          PROVE \A d \in Epoch : Known(d)' => Known(d)
      <4>1. Known(k[1]) /\ k[1] \in Epoch
        BY Zenon, <3>3, OwnerKnown DEF finish, IInv, Key
      <4>2. PICK p : ps' = [ps EXCEPT ![k[1]] = p]
        BY Zenon, <3>3 DEF finish
      <4> QED
        BY Zenon, <4>1, <4>2 DEF Known, IInv, TypeOK
    <3>4. ASSUME NEW k \in Key, HandleStraggler(k) \/ HandleAbort(k)
          PROVE \A d \in Epoch : Known(d)' => Known(d)
      <4>1. Remembered(k) /\ k[1] \in Epoch /\ ps' = Touched(k[1])
        BY <3>4, Zenon DEF HandleStraggler, HandleAbort, Remembered, Key
      <4>2. Known(k[1])
        BY <4>1, OwnerKnown DEF IInv
      <4> QED
        BY <3>2, <4>1, <4>2
    <3>5. ASSUME sweep \/ disconnectPeer PROVE \A d \in Epoch : Known(d)' => Known(d)
      BY <3>5, Zenon DEF sweep, disconnectPeer, Known
    <3> QED
      BY <1>2, <3>1, <3>2, <3>3, <3>4, <3>5, Zenon DEF Next, Serve, Teardown, Tick,
         createStream, HandleReset, CallTimeout, HandlePing,
         finishOrphan, gracefulStop, stop, StopReturns, vars
  <2> QED
    BY <2>2, <2>3, FewerPeers
<1> QED
  BY <1>1, <1>2

\* However often a peer comes back as a new incarnation, its containers stay
\* below the two caps together: one eviction per creation is enough
\* (ensurePeer), since every container that cannot be evicted has a live call.
THEOREM ContainersBounded == Spec => []PeersBounded
<1>1. PInv => PeersBounded
  BY DEF PInv
<1> QED
  BY <1>1, PInvInit, PInvStep, Invariance, PTL DEF Spec
=============================================================================
