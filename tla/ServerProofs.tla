---------------------------- MODULE ServerProofs ----------------------------
(***************************************************************************)
(* Theorems about Server, for any number of incarnations, sids and         *)
(* verdicts, any timing and any limits. The inductive invariant IInv ties  *)
(* each container to the calls it owns and to the sids it has answered;    *)
(* the container lemmas of PeerStateProofs show that every operation on a  *)
(* container keeps the tie. The safety properties are drawn from it.       *)
(***************************************************************************)
EXTENDS Server, PeerStateProofs

-----------------------------------------------------------------------------
(***************************************************************************)
(* One container: p with the live calls own, the answered sids sn, and the *)
(* cancelled and silenced calls off, at time t.                            *)
(***************************************************************************)
SoundAs(p, own, sn, off, t) ==
  IF p # NoPS
  THEN /\ Fit(p, t)
       /\ p.live = Cardinality(own)
       /\ own \subseteq sn
       /\ \A s \in sn : s \in own \/ Deduped(p, s, t)
       /\ p.dead => own \subseteq off
  ELSE own = {} /\ sn = {}

\* The absent container is not a container.
LEMMA NoPSDiffers == NoPS \notin PeerStateType
<1> SUFFICES ASSUME NoPS \in PeerStateType PROVE FALSE
  OBVIOUS
<1>1. "hwm" \in DOMAIN NoPS
  BY DEF PeerStateType
<1>2. DOMAIN NoPS = {"none"}
  BY DEF NoPS
<1> QED
  BY <1>1, <1>2

\* Sets of sids are finite.
LEMMA OwnFinite ==
  ASSUME NEW own \in SUBSET Sid
  PROVE  IsFiniteSet(own) /\ Cardinality(own) \in Nat /\ (Cardinality(own) = 0 <=> own = {})
BY SidFinite, FS_Subset, FS_CardinalityType, FS_EmptySet, Zenon

\* A container that is kept, refreshed or merely grows older stays sound.
LEMMA SoundKept ==
  ASSUME NEW p, NEW q, NEW own \in SUBSET Sid, NEW sn \in SUBSET Sid, NEW off, NEW off2,
         NEW t \in Nat, SoundAs(p, own, sn, off, t), p # NoPS,
         Fit(q, t), DedupsAll(p, q, t), q.live = p.live, q.dead = p.dead,
         own \cap off \subseteq off2
  PROVE  SoundAs(q, own, sn, off2, t)
<1>1. q # NoPS
  BY NoPSDiffers DEF Fit
<1> QED
  BY <1>1 DEF SoundAs, DedupsAll

LEMMA SoundLater ==
  ASSUME NEW p, NEW own \in SUBSET Sid, NEW sn \in SUBSET Sid, NEW off, NEW off2,
         NEW t \in Nat, NEW u \in Nat, t <= u, SoundAs(p, own, sn, off, t),
         own \cap off \subseteq off2
  PROVE  SoundAs(p, own, sn, off2, u)
<1>1. CASE p = NoPS
  BY <1>1 DEF SoundAs
<1>2. CASE p # NoPS
  <2>1. Fit(p, u) /\ \A s \in Sid : Deduped(p, s, t) => Deduped(p, s, u)
    BY <1>2, FitLater DEF SoundAs
  <2> QED
    BY <1>2, <2>1 DEF SoundAs
<1> QED
  BY <1>1, <1>2

LEMMA SoundTouched ==
  ASSUME NEW p, NEW own \in SUBSET Sid, NEW sn \in SUBSET Sid, NEW off, NEW off2,
         NEW t \in Nat, SoundAs(p, own, sn, off, t), p # NoPS,
         own \cap off \subseteq off2
  PROVE  SoundAs([p EXCEPT !.lastRx = t], own, sn, off2, t)
<1> DEFINE q == [p EXCEPT !.lastRx = t]
<1>1. p \in PeerStateType /\ Fit(p, t) /\ p.hwm \in Nat
  BY DEF SoundAs, Fit, PeerStateType
<1>2. /\ q \in PeerStateType
      /\ q.cps = p.cps /\ q.tombs = p.tombs /\ q.floor = p.floor
      /\ q.hwm = p.hwm /\ q.live = p.live /\ q.dead = p.dead
  BY <1>1, Zenon DEF PeerStateType
<1> HIDE DEF q
<1>3. p.hwm <= q.hwm
  BY <1>1, <1>2
<1>4. Fit(q, t) /\ DedupsAll(p, q, t)
  BY <1>1, <1>2, <1>3, FitTouched
<1>5. SoundAs(q, own, sn, off2, t)
  BY <1>2, <1>4, SoundKept
<1> QED
  BY <1>5 DEF q

LEMMA SoundNew ==
  ASSUME NEW off, NEW t \in Nat
  PROVE  SoundAs(NewPeerState(t), {}, {}, off, t)
<1>1. NewPeerState(t) # NoPS
  BY FitNew, NoPSDiffers DEF Fit
<1> QED
  BY <1>1, FitNew, FS_EmptySet DEF SoundAs

LEMMA SoundAdmit ==
  ASSUME NEW p, NEW own \in SUBSET Sid, NEW sn \in SUBSET Sid, NEW off,
         NEW t \in Nat, SoundAs(p, own, sn, off, t), p # NoPS,
         NEW s \in Sid, s \notin own
  PROVE  SoundAs(Admit(p, s, t), own \cup {s}, sn \cup {s}, off, t)
<1> DEFINE q == Admit(p, s, t)
<1>1. Fit(q, t) /\ DedupsAll(p, q, t) /\ q.live = p.live + 1 /\ ~q.dead
  BY FitAdmit DEF SoundAs
<1> HIDE DEF q
<1>2. q # NoPS
  BY <1>1, NoPSDiffers DEF Fit
<1>3. Cardinality(own \cup {s}) = Cardinality(own) + 1
  BY OwnFinite, FS_AddElement
<1>4. SoundAs(q, own \cup {s}, sn \cup {s}, off, t)
  BY <1>1, <1>2, <1>3 DEF SoundAs, DedupsAll
<1> QED
  BY <1>4 DEF q

LEMMA SoundBurn ==
  ASSUME NEW p, NEW own \in SUBSET Sid, NEW sn \in SUBSET Sid, NEW off,
         NEW t \in Nat, SoundAs(p, own, sn, off, t), p # NoPS,
         NEW s \in Sid, NEW term \in Stored
  PROVE  SoundAs(Burn(p, s, term, t), own, sn \cup {s}, off, t)
<1> DEFINE q == Burn(p, s, term, t)
<1>1. /\ Fit(q, t) /\ DedupsAll(p, q, t) /\ q.live = p.live
      /\ s \in Held(q) /\ q.dead = p.dead
  BY FitBurn DEF SoundAs
<1> HIDE DEF q
<1>2. q # NoPS
  BY <1>1, NoPSDiffers DEF Fit
<1>3. SoundAs(q, own, sn \cup {s}, off, t)
  BY <1>1, <1>2 DEF SoundAs, DedupsAll, Deduped
<1> QED
  BY <1>3 DEF q

LEMMA SoundRetire ==
  ASSUME NEW p, NEW own \in SUBSET Sid, NEW sn \in SUBSET Sid, NEW off, NEW off2,
         NEW t \in Nat, SoundAs(p, own, sn, off, t), p # NoPS,
         NEW s \in own, NEW term \in Stored, NEW expire \in Nat,
         off \ {s} \subseteq off2
  PROVE  SoundAs(Retire(p, s, term, expire), own \ {s}, sn, off2, t)
<1> DEFINE q == Retire(p, s, term, expire)
<1>1. /\ Fit(q, t) /\ DedupsAll(p, q, t) /\ q.live = p.live - 1
      /\ s \in Held(q) /\ q.dead = p.dead
  BY FitRetire DEF SoundAs
<1> HIDE DEF q
<1>2. q # NoPS
  BY <1>1, NoPSDiffers DEF Fit
<1>3. Cardinality(own \ {s}) = Cardinality(own) - 1
  BY OwnFinite, FS_RemoveElement
<1>4. SoundAs(q, own \ {s}, sn, off2, t)
  BY <1>1, <1>2, <1>3 DEF SoundAs, DedupsAll, Deduped
<1> QED
  BY <1>4 DEF q

LEMMA SoundSwept ==
  ASSUME now \in Nat, NEW p, NEW own \in SUBSET Sid, NEW sn \in SUBSET Sid, NEW off, NEW off2,
         SoundAs(p, own, sn, off, now), p # NoPS,
         off \subseteq off2, Lost(p) => own \subseteq off2
  PROVE  LET q == SweepPeer(p)
         IN  /\ q \in PeerStateType \cup {NoPS}
             /\ SoundAs(q, own, IF q = NoPS THEN {} ELSE sn, off2, now)
<1> DEFINE q == CompactOrder(ExpireTombs(AddCheckpoint(p, now), now))
           r == LosePeer(q)
           w == Swept(p)
<1>1. /\ Fit(q, now) /\ DedupsAll(p, q, now) /\ q.live = p.live /\ q.dead = p.dead
      /\ Fit(r, now) /\ DedupsAll(p, r, now) /\ r.live = p.live
  BY FitSwept DEF SoundAs
<1>2. w = IF Lost(p) THEN r ELSE q
  BY DEF Swept
<1> HIDE DEF q, r, w
<1>3. /\ Fit(w, now) /\ DedupsAll(p, w, now) /\ w.live = p.live
      /\ w.dead => own \subseteq off2
  BY <1>1, <1>2 DEF SoundAs
<1>4. w \in PeerStateType /\ w # NoPS
  BY <1>3, NoPSDiffers DEF Fit
<1>5. SoundAs(w, own, sn, off2, now)
  BY <1>3, <1>4 DEF SoundAs, DedupsAll
<1>6. CASE Collectable(w, now)
  <2>1. own = {}
    BY <1>3, <1>6, OwnFinite DEF Collectable, SoundAs
  <2> QED
    BY <1>6, <2>1 DEF SweepPeer, SoundAs, w
<1>7. CASE ~Collectable(w, now)
  BY <1>4, <1>5, <1>7 DEF SweepPeer, w
<1> QED
  BY <1>6, <1>7

-----------------------------------------------------------------------------
(***************************************************************************)
(* The inductive invariant.                                                *)
(***************************************************************************)
\* The live calls of the container in the map, and the silenced calls.
Own(e) == {s \in Sid : <<e, s>> \in live}
Silenced(e) == {s \in Sid : <<e, s>> \in cancelled \cap suppress}

Sound(e) == SoundAs(ps[e], Own(e), seen[e], Silenced(e), now)

\* A started call of an incarnation never dropped is on its container's record.
Started ==
  \A k \in Key : k[1] \notin dropped /\ execs[k] > 0 => k[2] \in seen[k[1]]

\* After stop resolved nothing can be admitted any more.
Stopped == returned => closed /\ Idle

\* A call with a verdict is over: on record, and no longer live.
Answered ==
  \A k \in Key : k[1] \notin dropped /\ verdicts[k] # {} => k[2] \in seen[k[1]] /\ ~Live(k)

\* The live map is finite, whatever the number of incarnations.
Finite == IsFiniteSet(live)

IInv ==
  /\ TypeOK
  /\ \A e \in Epoch : Sound(e)
  /\ Started
  /\ AtMostOnce
  /\ Stopped
  /\ Answered
  /\ OneVerdict
  /\ Finite

LEMMA OwnSids ==
  ASSUME NEW e \in Epoch
  PROVE  Own(e) \in SUBSET Sid
BY DEF Own

\* ensurePeer leaves every container alone except one without live calls.
LEMMA EnsurePeer ==
  ASSUME TypeOK, NEW e \in Epoch, NEW q \in ensurePeer(e)
  PROVE  /\ q \in [Epoch -> PeerStateType \cup {NoPS}]
         /\ q[e] = IF Known(e) THEN ps[e] ELSE NewPeerState(now)
         /\ q[e] # NoPS
         /\ \A o \in Epoch \ {e} :
              q[o] = ps[o] \/ (q[o] = NoPS /\ Known(o) /\ ps[o].live = 0)
<1>1. now \in Nat /\ ps \in [Epoch -> PeerStateType \cup {NoPS}]
  BY DEF TypeOK
<1>2. NewPeerState(now) \in PeerStateType /\ NewPeerState(now) # NoPS
  BY <1>1, FitNew, NoPSDiffers DEF Fit
<1>3. CASE Known(e)
  BY <1>1, <1>3 DEF ensurePeer, Known
<1>4. CASE ~Known(e) /\ q = [ps EXCEPT ![e] = NewPeerState(now)]
  BY <1>1, <1>2, <1>4 DEF Known
<1>5. CASE ~Known(e) /\ \E o \in OldestIdle :
             q = [ps EXCEPT ![o] = NoPS, ![e] = NewPeerState(now)]
  <2>1. PICK o \in OldestIdle : q = [ps EXCEPT ![o] = NoPS, ![e] = NewPeerState(now)]
    BY <1>5, Zenon
  <2>2. o \in Epoch /\ Known(o) /\ ps[o].live = 0 /\ o # e
    BY <1>5 DEF OldestIdle, IdlePeers
  <2> QED
    BY <1>1, <1>2, <1>5, <2>1, <2>2 DEF Known
<1> QED
  BY <1>3, <1>4, <1>5 DEF ensurePeer

-----------------------------------------------------------------------------
(***************************************************************************)
(* Type correctness.                                                       *)
(***************************************************************************)
LEMMA TouchedType ==
  ASSUME TypeOK, NEW e \in Epoch, Known(e)
  PROVE  /\ Touched(e) = [ps EXCEPT ![e] = [ps[e] EXCEPT !.lastRx = now]]
         /\ Touched(e) \in [Epoch -> PeerStateType \cup {NoPS}]
<1>1. now \in Nat /\ ps \in [Epoch -> PeerStateType \cup {NoPS}] /\ ps[e] \in PeerStateType
  BY DEF TypeOK, Known
<1>2. [ps[e] EXCEPT !.lastRx = now] \in PeerStateType
  BY <1>1, Zenon DEF PeerStateType
<1>3. Touched(e) = [ps EXCEPT ![e] = [ps[e] EXCEPT !.lastRx = now]]
  BY DEF Touched
<1> QED
  BY <1>1, <1>2, <1>3

\* A live call has its container, and so has a remembered one.
LEMMA OwnerKnown ==
  ASSUME TypeOK, \A e \in Epoch : Sound(e), NEW k \in Key
  PROVE  /\ Live(k) => Known(k[1]) /\ k[2] \in Own(k[1])
         /\ Remembered(k) => Known(k[1])
<1>1. k[1] \in Epoch /\ k[2] \in Sid /\ k = <<k[1], k[2]>>
  BY DEF Key
<1>2. Live(k) => k[2] \in Own(k[1])
  BY <1>1 DEF Own, Live
<1>3. k[2] \in Own(k[1]) => Known(k[1])
  BY <1>1 DEF Sound, SoundAs, Known
<1> QED
  BY <1>2, <1>3 DEF Remembered

LEMMA RxType ==
  ASSUME TypeOK, \A e \in Epoch : Sound(e), NEW k \in Key, Remembered(k)
  PROVE  Touched(k[1]) \in [Epoch -> PeerStateType \cup {NoPS}]
<1>1. k[1] \in Epoch /\ Known(k[1])
  BY OwnerKnown DEF Key
<1> QED
  BY <1>1, TouchedType

\* The verdict finish stores.
LEMMA FinishTerm ==
  ASSUME NEW k, NEW v \in Term
  PROVE  LET term == IF k \in suppress THEN NoTerm ELSE v
         IN  term \in Stored /\ {term} \ {NoTerm} \subseteq Term
BY DEF Stored

LEMMA SeenAfterType ==
  ASSUME TypeOK, NEW q
  PROVE  SeenAfter(q) \in [Epoch -> SUBSET Sid] /\ Removed(q) \subseteq Epoch
BY DEF TypeOK, SeenAfter, Removed

LEMMA TypeStep == IInv /\ Next => TypeOK'
<1> SUFFICES ASSUME IInv, Next PROVE TypeOK'
  OBVIOUS
<1>0. TypeOK /\ (\A e \in Epoch : Sound(e)) /\ now \in Nat
  <2>1. TypeOK /\ \A e \in Epoch : Sound(e)
    BY DEF IInv
  <2> QED
    BY <2>1 DEF TypeOK
<1> USE DEF streamVars, stopVars, historyVars
<1>1. CASE Tick
  BY <1>0, <1>1 DEF TypeOK, Tick
<1>2. ASSUME NEW k \in Key, createStream(k) PROVE TypeOK'
  BY <1>0, <1>2 DEF TypeOK, createStream
<1>3. ASSUME NEW k \in Key, HandleStraggler(k) PROVE TypeOK'
  BY <1>0, <1>3, RxType DEF TypeOK, HandleStraggler
<1>4. ASSUME NEW k \in Key, HandleAbort(k) PROVE TypeOK'
  <2>1. Remembered(k)
    BY <1>4 DEF HandleAbort, Remembered
  <2> QED
    BY <1>0, <1>4, <2>1, RxType DEF TypeOK, HandleAbort, Live
<1>5. ASSUME NEW k \in Key, HandleReset(k) \/ CallTimeout(k) PROVE TypeOK'
  BY <1>0, <1>5 DEF TypeOK, HandleReset, CallTimeout, Live
<1>6. ASSUME NEW k \in Key, NEW v \in Term, NEW x \in 0..ExtraTTL, finish(k, v, x)
      PROVE  TypeOK'
  <2> DEFINE term == IF k \in suppress THEN NoTerm ELSE v
  <2>1. k[1] \in Epoch /\ k[2] \in Sid /\ term \in Stored /\ {term} \ {NoTerm} \subseteq Term
    BY FinishTerm DEF Key
  <2>2. Live(k) /\ ps' = [ps EXCEPT ![k[1]] = Retire(ps[k[1]], k[2], term, now + TTL + x)]
    BY <1>6 DEF finish
  <2>3. verdicts' = [verdicts EXCEPT ![k] = verdicts[k] \cup ({term} \ {NoTerm})]
    BY <1>6 DEF finish
  <2> HIDE DEF term
  <2>4. ps' \in [Epoch -> PeerStateType \cup {NoPS}]
    <3>1. Known(k[1])
      BY <1>0, <2>2, OwnerKnown
    <3>2. Fit(ps[k[1]], now)
      BY <1>0, <2>1, <3>1 DEF Sound, SoundAs, Known
    <3>3. now + TTL + x \in Nat
      BY <1>0, PeerStateAssumption, ServerAssumption
    <3>4. Retire(ps[k[1]], k[2], term, now + TTL + x) \in PeerStateType
      BY <1>0, <2>1, <3>2, <3>3, FitRetire DEF Fit
    <3> QED
      BY <1>0, <2>1, <2>2, <3>4 DEF TypeOK
  <2>5. verdicts' \in [Key -> SUBSET Term]
    BY <1>0, <2>1, <2>3 DEF TypeOK
  <2>6. live' \subseteq Key /\ suppress' \subseteq live' /\ cancelled' \subseteq live'
    BY <1>0, <1>6 DEF TypeOK, finish
  <2> QED
    BY <1>0, <1>6, <2>4, <2>5, <2>6 DEF TypeOK, finish
<1>7. CASE finishOrphan
  <2>1. orphans' \in 0..MaxOrphans
    BY <1>0, <1>7, ServerAssumption DEF TypeOK, finishOrphan
  <2> QED
    BY <1>0, <1>7, <2>1 DEF TypeOK, finishOrphan
<1>8. ASSUME NEW e \in Epoch, HandlePing(e) PROVE TypeOK'
  BY <1>0, <1>8, TouchedType DEF TypeOK, HandlePing
<1>9. ASSUME NEW k \in Key, open(k) PROVE TypeOK'
  <2> DEFINE e == k[1]
             s == k[2]
  <2>1. e \in Epoch /\ s \in Sid
    BY DEF Key
  <2>2. PICK q \in ensurePeer(e) :
               /\ ps' = [q EXCEPT ![e] = Admit(q[e], s, now)]
               /\ seen' = [SeenAfter(q) EXCEPT ![e] = SeenAfter(q)[e] \cup {s}]
               /\ dropped' = dropped \cup Removed(q)
    BY <1>9, Zenon DEF open
  <2>3. q \in [Epoch -> PeerStateType \cup {NoPS}] /\ q[e] # NoPS /\ Fit(q[e], now)
    <3>1. Known(e) => Fit(ps[e], now)
      BY Zenon, <1>0, <2>1 DEF Sound, SoundAs, Known
    <3>2. /\ q \in [Epoch -> PeerStateType \cup {NoPS}] /\ q[e] # NoPS
          /\ q[e] = IF Known(e) THEN ps[e] ELSE NewPeerState(now)
      <4>1. TypeOK /\ e \in Epoch /\ q \in ensurePeer(e)
        BY <1>0, <2>1, <2>2
      <4> HIDE DEF e
      <4> QED
        BY <4>1, EnsurePeer
    <3>3. Fit(NewPeerState(now), now)
      BY <1>0, FitNew
    <3> QED
      BY <3>1, <3>2, <3>3
  <2>4. Admit(q[e], s, now) \in PeerStateType
    BY <1>0, <2>1, <2>3, FitAdmit DEF Fit
  <2>5. ps' \in [Epoch -> PeerStateType \cup {NoPS}]
    BY <2>1, <2>2, <2>3, <2>4
  <2>6. SeenAfter(q) \in [Epoch -> SUBSET Sid] /\ Removed(q) \subseteq Epoch
    BY <1>0, SeenAfterType
  <2>7. seen' \in [Epoch -> SUBSET Sid] /\ dropped' \subseteq Epoch
    BY <1>0, <2>1, <2>2, <2>6 DEF TypeOK
  <2>8. live' \subseteq Key /\ suppress' \subseteq live' /\ cancelled' \subseteq live'
    BY Zenon, <1>0, <1>9 DEF TypeOK, open
  <2>9. execs' \in [Key -> 0..2]
    BY <1>0, <1>9 DEF TypeOK, open
  <2> QED
    BY Zenon, <1>0, <1>9, <2>5, <2>7, <2>8, <2>9 DEF TypeOK, open
<1>10. ASSUME NEW k \in Key, rejectOpen(k) PROVE TypeOK'
  <2> DEFINE e == k[1]
             s == k[2]
  <2>1. e \in Epoch /\ s \in Sid
    BY DEF Key
  <2>2. PICK q \in ensurePeer(e) :
               /\ ps' = [q EXCEPT ![e] = Burn(q[e], s, Reject, now)]
               /\ seen' = [SeenAfter(q) EXCEPT ![e] = SeenAfter(q)[e] \cup {s}]
               /\ dropped' = dropped \cup Removed(q)
    BY <1>10, Zenon DEF rejectOpen
  <2>3. q \in [Epoch -> PeerStateType \cup {NoPS}] /\ q[e] # NoPS /\ Fit(q[e], now)
    <3>1. Known(e) => Fit(ps[e], now)
      BY Zenon, <1>0, <2>1 DEF Sound, SoundAs, Known
    <3>2. /\ q \in [Epoch -> PeerStateType \cup {NoPS}] /\ q[e] # NoPS
          /\ q[e] = IF Known(e) THEN ps[e] ELSE NewPeerState(now)
      <4>1. TypeOK /\ e \in Epoch /\ q \in ensurePeer(e)
        BY <1>0, <2>1, <2>2
      <4> HIDE DEF e
      <4> QED
        BY <4>1, EnsurePeer
    <3>3. Fit(NewPeerState(now), now)
      BY <1>0, FitNew
    <3> QED
      BY <3>1, <3>2, <3>3
  <2>4. Burn(q[e], s, Reject, now) \in PeerStateType
    <3>1. Reject \in Stored
      BY ServerAssumption DEF Stored
    <3> QED
      BY <1>0, <2>1, <2>3, <3>1, FitBurn DEF Fit
  <2>5. ps' \in [Epoch -> PeerStateType \cup {NoPS}]
    BY <2>1, <2>2, <2>3, <2>4
  <2>6. SeenAfter(q) \in [Epoch -> SUBSET Sid] /\ Removed(q) \subseteq Epoch
    BY <1>0, SeenAfterType
  <2>7. seen' \in [Epoch -> SUBSET Sid] /\ dropped' \subseteq Epoch
    BY <1>0, <2>1, <2>2, <2>6 DEF TypeOK
  <2>8. verdicts' \in [Key -> SUBSET Term]
    BY Zenon, <1>0, <1>10, ServerAssumption DEF rejectOpen, TypeOK
  <2> QED
    BY Zenon, <1>0, <1>10, <2>5, <2>7, <2>8 DEF TypeOK, rejectOpen
<1>11. CASE sweep
  <2> DEFINE q == [e \in Epoch |-> IF Known(e) THEN SweepPeer(ps[e]) ELSE NoPS]
  <2>1. q \in [Epoch -> PeerStateType \cup {NoPS}]
    <3> SUFFICES ASSUME NEW e \in Epoch, Known(e)
                 PROVE  SweepPeer(ps[e]) \in PeerStateType \cup {NoPS}
      OBVIOUS
    <3>1. SoundAs(ps[e], Own(e), seen[e], Silenced(e), now) /\ ps[e] # NoPS
      BY <1>0 DEF Sound, Known
    <3>2. Silenced(e) \subseteq Sid /\ Own(e) \subseteq Sid /\ seen[e] \subseteq Sid
      BY <1>0 DEF Silenced, Own, TypeOK
    <3> QED
      BY <1>0, <3>1, <3>2, SoundSwept, Zenon
  <2>2. SeenAfter(q) \in [Epoch -> SUBSET Sid] /\ Removed(q) \subseteq Epoch
    BY <1>0, SeenAfterType
  <2>3. ps' = q /\ seen' = SeenAfter(q) /\ dropped' = dropped \cup Removed(q)
    BY <1>11 DEF sweep
  <2> HIDE DEF q
  <2>4. swept' \in Nat /\ suppress' \subseteq live /\ cancelled' \subseteq live
    BY <1>0, <1>11 DEF sweep, TypeOK
  <2> QED
    BY Zenon, <1>0, <1>11, <2>1, <2>2, <2>3, <2>4 DEF TypeOK, sweep
<1>12. CASE gracefulStop
  BY <1>0, <1>12 DEF TypeOK, gracefulStop
<1>13. CASE stop
  BY <1>0, <1>13 DEF TypeOK, stop
<1>14. CASE StopReturns
  BY <1>0, <1>14 DEF TypeOK, StopReturns
<1>15. CASE disconnectPeer
  <2>1. Cardinality(live) \in Nat
    BY FS_CardinalityType DEF IInv, Finite
  <2>2. orphans' \in 0..MaxOrphans
    BY <1>0, <1>15, <2>1, ServerAssumption DEF TypeOK, disconnectPeer
  <2> QED
    BY <1>0, <1>15, <2>2 DEF TypeOK, disconnectPeer
<1> QED
  BY <1>1, <1>2, <1>3, <1>4, <1>5, <1>6, <1>7, <1>8, <1>9, <1>10, <1>11, <1>12,
     <1>13, <1>14, <1>15 DEF Next, Serve, Teardown

-----------------------------------------------------------------------------
(***************************************************************************)
(* Every container stays sound.                                            *)
(***************************************************************************)
\* Steps that leave the containers and their calls alone.
LEMMA QuietSound ==
  ASSUME TypeOK, \A e \in Epoch : Sound(e), now' \in Nat, now <= now',
         live' = live, seen' = seen, ps' = ps,
         cancelled \subseteq cancelled', suppress \subseteq suppress'
  PROVE  \A e \in Epoch : Sound(e)'
<1> SUFFICES ASSUME NEW e \in Epoch
             PROVE  SoundAs(ps[e], Own(e), seen[e], Silenced(e)', now')
  BY Zenon DEF Sound, Own
<1>1. now \in Nat /\ seen[e] \in SUBSET Sid /\ Own(e) \in SUBSET Sid
  BY OwnSids DEF TypeOK
<1>2. Silenced(e) \subseteq Silenced(e)'
  BY DEF Silenced
<1> QED
  BY <1>1, <1>2, SoundLater DEF Sound

\* Steps that refresh the liveness clock of one container.
LEMMA TouchedSound ==
  ASSUME TypeOK, \A e \in Epoch : Sound(e), now' = now, NEW d \in Epoch, Known(d),
         live' = live, seen' = seen, ps' = Touched(d),
         cancelled \subseteq cancelled', suppress \subseteq suppress'
  PROVE  \A e \in Epoch : Sound(e)'
<1> SUFFICES ASSUME NEW e \in Epoch
             PROVE  SoundAs(ps'[e], Own(e), seen[e], Silenced(e)', now)
  BY DEF Sound, Own
<1>1. now \in Nat /\ seen[e] \in SUBSET Sid /\ Own(e) \in SUBSET Sid
  BY Zenon, OwnSids DEF TypeOK
<1>2. Silenced(e) \subseteq Silenced(e)'
  BY DEF Silenced
<1>3. SoundAs(ps[e], Own(e), seen[e], Silenced(e), now)
  BY DEF Sound
<1>4. CASE e = d
  <2>1. ps'[e] = [ps[e] EXCEPT !.lastRx = now] /\ ps[e] # NoPS
    BY <1>4, TouchedType DEF TypeOK, Known
  <2> QED
    BY <1>1, <1>2, <1>3, <2>1, SoundTouched
<1>5. CASE e # d
  <2>1. ps'[e] = ps[e]
    BY <1>5, TouchedType DEF TypeOK
  <2> QED
    BY SMTT(30), <1>1, <1>2, <1>3, <2>1, SoundLater
<1> QED
  BY <1>4, <1>5

LEMMA RxSound ==
  ASSUME TypeOK, \A e \in Epoch : Sound(e), now' = now, NEW k \in Key, Remembered(k),
         live' = live, seen' = seen, ps' = Touched(k[1]),
         cancelled \subseteq cancelled', suppress \subseteq suppress'
  PROVE  \A e \in Epoch : Sound(e)'
<1>1. k[1] \in Epoch /\ Known(k[1])
  BY OwnerKnown DEF Key
<1> QED
  BY <1>1, TouchedSound

\* The containers ensurePeer leaves, with the history it leaves.
LEMMA EnsureSound ==
  ASSUME TypeOK, \A o \in Epoch : Sound(o), NEW e \in Epoch, NEW q \in ensurePeer(e),
         NEW o \in Epoch
  PROVE  SoundAs(q[o], Own(o), SeenAfter(q)[o], Silenced(o), now)
<1>1. now \in Nat /\ Own(o) \in SUBSET Sid /\ SoundAs(ps[o], Own(o), seen[o], Silenced(o), now)
  BY Zenon, OwnSids DEF TypeOK, Sound
<1>2. SeenAfter(q)[o] = IF Known(o) /\ q[o] = NoPS THEN {} ELSE seen[o]
  BY Zenon DEF SeenAfter, Removed
<1>3. CASE o = e /\ ~Known(e)
  <2>1. q[o] = NewPeerState(now) /\ q[o] # NoPS
    BY <1>3, EnsurePeer
  <2>2. Own(o) = {} /\ SeenAfter(q)[o] = {}
    BY Zenon, <1>1, <1>2, <1>3 DEF SoundAs, Known
  <2> QED
    BY Zenon, <1>1, <2>1, <2>2, SoundNew
<1>4. CASE q[o] = ps[o]
  BY Zenon, <1>1, <1>2, <1>4 DEF Known
<1>5. CASE q[o] = NoPS /\ Known(o) /\ ps[o].live = 0
  <2>1. Own(o) = {}
    BY Zenon, <1>1, <1>5, OwnFinite DEF SoundAs, Known
  <2> QED
    BY Zenon, <1>2, <1>5, <2>1 DEF SoundAs
<1> QED
  BY <1>3, <1>4, <1>5, EnsurePeer

LEMMA FinishSound ==
  ASSUME TypeOK, \A e \in Epoch : Sound(e), NEW k \in Key, NEW v \in Term,
         NEW x \in 0..ExtraTTL, finish(k, v, x)
  PROVE  \A e \in Epoch : Sound(e)'
<1> SUFFICES ASSUME NEW e \in Epoch PROVE Sound(e)'
  OBVIOUS
<1> DEFINE term == IF k \in suppress THEN NoTerm ELSE v
<1>1. /\ now \in Nat /\ now' = now /\ seen' = seen /\ live' = live \ {k}
      /\ k[1] \in Epoch /\ k[2] \in Sid /\ k = <<k[1], k[2]>>
      /\ term \in Stored /\ Live(k)
      /\ ps' = [ps EXCEPT ![k[1]] = Retire(ps[k[1]], k[2], term, now + TTL + x)]
  <2>1. k[1] \in Epoch /\ k[2] \in Sid /\ k = <<k[1], k[2]>>
    BY DEF Key
  <2>2. /\ now' = now /\ seen' = seen /\ live' = live \ {k} /\ Live(k)
        /\ ps' = [ps EXCEPT ![k[1]] = Retire(ps[k[1]], k[2], term, now + TTL + x)]
    BY Zenon DEF finish
  <2>3. term \in Stored
    BY FinishTerm
  <2>4. now \in Nat
    BY DEF TypeOK
  <2> QED
    BY <2>1, <2>2, <2>3, <2>4
<1> HIDE DEF term
<1>2. Own(e) \in SUBSET Sid /\ seen[e] \in SUBSET Sid
  BY Zenon, OwnSids DEF TypeOK
<1>3. SoundAs(ps[e], Own(e), seen[e], Silenced(e), now)
  BY Zenon DEF Sound
<1>4. CASE e = k[1]
  <2>1. k[2] \in Own(e) /\ ps[e] # NoPS
    BY <1>1, <1>4, OwnerKnown DEF Known
  <2>2. Own(e)' = Own(e) \ {k[2]} /\ Silenced(e) \ {k[2]} \subseteq Silenced(e)'
    BY <1>1, <1>4 DEF Own, Silenced, finish
  <2>3. ps'[e] = Retire(ps[e], k[2], term, now + TTL + x)
    BY Zenon, <1>1, <1>4 DEF TypeOK
  <2>4. now + TTL + x \in Nat
    BY <1>1, PeerStateAssumption, ServerAssumption
  <2>5. SoundAs(Retire(ps[e], k[2], term, now + TTL + x), Own(e) \ {k[2]},
                seen[e], Silenced(e)', now)
    BY Zenon, <1>1, <1>2, <1>3, <2>1, <2>2, <2>4, SoundRetire
  <2> QED
    BY <1>1, <2>2, <2>3, <2>5 DEF Sound
<1>5. CASE e # k[1]
  <2>1. ps'[e] = ps[e]
    BY <1>1, <1>5 DEF TypeOK
  <2>2. Own(e)' = Own(e)
    BY <1>1, <1>5 DEF Own
  <2>3. Own(e) \cap Silenced(e) \subseteq Silenced(e)'
    BY <1>1, <1>5 DEF Own, Silenced, finish
  <2>4. SoundAs(ps[e], Own(e), seen[e], Silenced(e)', now)
    BY <1>1, <1>2, <1>3, <2>3, SoundLater
  <2> QED
    BY <1>1, <2>1, <2>2, <2>4 DEF Sound
<1> QED
  BY <1>4, <1>5

LEMMA AdmitSound ==
  ASSUME TypeOK, \A e \in Epoch : Sound(e), NEW k \in Key, open(k)
  PROVE  \A e \in Epoch : Sound(e)'
<1> SUFFICES ASSUME NEW o \in Epoch PROVE Sound(o)'
  OBVIOUS
<1> DEFINE e == k[1]
           s == k[2]
<1>1. e \in Epoch /\ s \in Sid /\ k = <<e, s>>
  BY DEF Key
<1>2. /\ now \in Nat /\ now' = now /\ cancelled' = cancelled /\ suppress' = suppress
      /\ live' = live \cup {k} /\ k \notin live
  BY Zenon DEF open, Admissible, Live, TypeOK
<1>3. PICK q \in ensurePeer(e) :
             /\ ps' = [q EXCEPT ![e] = Admit(q[e], s, now)]
             /\ seen' = [SeenAfter(q) EXCEPT ![e] = SeenAfter(q)[e] \cup {s}]
  BY Zenon DEF open
<1>4. /\ q \in [Epoch -> PeerStateType \cup {NoPS}] /\ q[e] # NoPS
      /\ SeenAfter(q) \in [Epoch -> SUBSET Sid]
  BY <1>1, EnsurePeer, SeenAfterType
<1>5. SoundAs(q[o], Own(o), SeenAfter(q)[o], Silenced(o), now)
  BY <1>1, EnsureSound
<1>6. Own(o) \in SUBSET Sid /\ Silenced(o)' = Silenced(o)
  BY <1>2, OwnSids DEF Silenced
<1>7. CASE o = e
  <2>1. Own(o)' = Own(o) \cup {s} /\ s \notin Own(o)
    BY <1>1, <1>2, <1>7 DEF Own
  <2>2. ps'[o] = Admit(q[o], s, now) /\ seen'[o] = SeenAfter(q)[o] \cup {s}
    BY <1>1, <1>3, <1>4, <1>7
  <2>3. SoundAs(Admit(q[o], s, now), Own(o) \cup {s}, SeenAfter(q)[o] \cup {s},
                Silenced(o), now)
    BY <1>1, <1>2, <1>4, <1>5, <1>6, <1>7, <2>1, SoundAdmit
  <2> QED
    BY Zenon, <1>2, <1>6, <2>1, <2>2, <2>3 DEF Sound
<1>8. CASE o # e
  <2>1. Own(o)' = Own(o)
    BY <1>1, <1>2, <1>8 DEF Own
  <2>2. ps'[o] = q[o] /\ seen'[o] = SeenAfter(q)[o]
    BY <1>1, <1>3, <1>4, <1>8
  <2> QED
    BY Zenon, <1>2, <1>5, <1>6, <2>1, <2>2 DEF Sound
<1> QED
  BY <1>7, <1>8

LEMMA RejectSound ==
  ASSUME TypeOK, \A e \in Epoch : Sound(e), NEW k \in Key, rejectOpen(k)
  PROVE  \A e \in Epoch : Sound(e)'
<1> SUFFICES ASSUME NEW o \in Epoch PROVE Sound(o)'
  OBVIOUS
<1> DEFINE e == k[1]
           s == k[2]
<1>1. e \in Epoch /\ s \in Sid
  BY DEF Key
<1>2. /\ now \in Nat /\ now' = now /\ cancelled' = cancelled /\ suppress' = suppress
      /\ live' = live
  BY Zenon DEF rejectOpen, streamVars, TypeOK
<1>3. PICK q \in ensurePeer(e) :
             /\ ps' = [q EXCEPT ![e] = Burn(q[e], s, Reject, now)]
             /\ seen' = [SeenAfter(q) EXCEPT ![e] = SeenAfter(q)[e] \cup {s}]
  BY Zenon DEF rejectOpen
<1>4. /\ q \in [Epoch -> PeerStateType \cup {NoPS}] /\ q[e] # NoPS
      /\ SeenAfter(q) \in [Epoch -> SUBSET Sid] /\ Reject \in Stored
  BY Zenon, <1>1, EnsurePeer, SeenAfterType, ServerAssumption DEF Stored
<1>5. SoundAs(q[o], Own(o), SeenAfter(q)[o], Silenced(o), now)
  BY Zenon, <1>1, EnsureSound
<1>6. Own(o) \in SUBSET Sid /\ Own(o)' = Own(o) /\ Silenced(o)' = Silenced(o)
  BY <1>2 DEF Own, Silenced
<1>7. CASE o = e
  <2>1. ps'[o] = Burn(q[o], s, Reject, now) /\ seen'[o] = SeenAfter(q)[o] \cup {s}
    BY <1>1, <1>3, <1>4, <1>7
  <2>2. SoundAs(Burn(q[o], s, Reject, now), Own(o), SeenAfter(q)[o] \cup {s},
                Silenced(o), now)
    BY Zenon, <1>1, <1>2, <1>4, <1>5, <1>6, <1>7, SoundBurn
  <2> QED
    BY Zenon, <1>2, <1>6, <2>1, <2>2 DEF Sound
<1>8. CASE o # e
  <2>1. ps'[o] = q[o] /\ seen'[o] = SeenAfter(q)[o]
    BY <1>1, <1>3, <1>4, <1>8
  <2> QED
    BY Zenon, <1>2, <1>5, <1>6, <2>1 DEF Sound
<1> QED
  BY <1>7, <1>8

LEMMA SweepSound ==
  ASSUME TypeOK, \A e \in Epoch : Sound(e), sweep
  PROVE  \A e \in Epoch : Sound(e)'
<1> SUFFICES ASSUME NEW e \in Epoch PROVE Sound(e)'
  OBVIOUS
<1> DEFINE q == [o \in Epoch |-> IF Known(o) THEN SweepPeer(ps[o]) ELSE NoPS]
<1>1. now \in Nat /\ now' = now /\ live' = live /\ ps' = q /\ seen' = SeenAfter(q)
  BY Zenon DEF TypeOK, sweep
<1>2. seen'[e] = IF Known(e) /\ q[e] = NoPS THEN {} ELSE seen[e]
  BY Zenon, <1>1 DEF SeenAfter, Removed
<1>3. Own(e) \in SUBSET Sid /\ seen[e] \in SUBSET Sid /\ Own(e)' = Own(e)
  BY Zenon, <1>1 DEF TypeOK, Own
<1>4. SoundAs(ps[e], Own(e), seen[e], Silenced(e), now)
  BY DEF Sound
<1>5. CASE Known(e)
  <2>1. Silenced(e) \subseteq Silenced(e)'
    BY Zenon DEF Silenced, sweep
  <2>2. Lost(ps[e]) => Own(e) \subseteq Silenced(e)'
    BY <1>5 DEF Own, Silenced, sweep
  <2>3. q[e] = SweepPeer(ps[e]) /\ ps[e] # NoPS
    BY <1>5 DEF Known
  <2> HIDE DEF q
  <2>4. SoundAs(q[e], Own(e), IF q[e] = NoPS THEN {} ELSE seen[e], Silenced(e)', now)
    BY Zenon, <1>1, <1>3, <1>4, <2>1, <2>2, <2>3, SoundSwept
  <2> QED
    BY Zenon, <1>1, <1>2, <1>3, <1>5, <2>4 DEF Sound
<1>6. CASE ~Known(e)
  BY Zenon, <1>1, <1>2, <1>3, <1>4, <1>6 DEF Sound, SoundAs, Known
<1> QED
  BY <1>5, <1>6

LEMMA SoundStep == IInv /\ Next => \A e \in Epoch : Sound(e)'
<1> SUFFICES ASSUME IInv, Next PROVE \A e \in Epoch : Sound(e)'
  OBVIOUS
<1>0. TypeOK /\ (\A e \in Epoch : Sound(e)) /\ now \in Nat /\ now <= now
  <2>1. TypeOK /\ \A e \in Epoch : Sound(e)
    BY DEF IInv
  <2>2. now \in Nat
    BY <2>1 DEF TypeOK
  <2> QED
    BY <2>1, <2>2
<1> USE DEF streamVars, stopVars, historyVars
<1>1. CASE Tick
  <2>1. now' \in Nat /\ now <= now'
    BY <1>0, <1>1 DEF Tick
  <2> QED
    BY <1>0, <1>1, <2>1, QuietSound DEF Tick
<1>2. ASSUME NEW k \in Key, createStream(k) \/ HandleReset(k) \/ CallTimeout(k)
      PROVE  \A e \in Epoch : Sound(e)'
  BY <1>0, <1>2, QuietSound DEF createStream, HandleReset, CallTimeout
<1>3. ASSUME NEW k \in Key, HandleStraggler(k) \/ HandleAbort(k)
      PROVE  \A e \in Epoch : Sound(e)'
  <2>1. Remembered(k)
    BY Zenon, <1>3 DEF HandleStraggler, HandleAbort, Remembered
  <2> QED
    BY <1>0, <1>3, <2>1, RxSound DEF HandleStraggler, HandleAbort
<1>4. ASSUME NEW k \in Key, NEW v \in Term, NEW x \in 0..ExtraTTL, finish(k, v, x)
      PROVE  \A e \in Epoch : Sound(e)'
  BY <1>0, <1>4, FinishSound
<1>5. ASSUME NEW e \in Epoch, HandlePing(e) PROVE \A d \in Epoch : Sound(d)'
  BY <1>0, <1>5, TouchedSound DEF HandlePing
<1>6. ASSUME NEW k \in Key, open(k) \/ rejectOpen(k) PROVE \A e \in Epoch : Sound(e)'
  BY <1>0, <1>6, AdmitSound, RejectSound
<1>7. CASE sweep
  BY <1>0, <1>7, SweepSound
<1>8. CASE gracefulStop \/ stop \/ StopReturns \/ finishOrphan
  BY Zenon, <1>0, <1>8, QuietSound DEF gracefulStop, stop, StopReturns, finishOrphan
<1>9. CASE disconnectPeer
  BY <1>9 DEF disconnectPeer, Sound, SoundAs, Own
<1> QED
  BY <1>1, <1>2, <1>3, <1>4, <1>5, <1>6, <1>7, <1>8, <1>9 DEF Next, Serve, Teardown

-----------------------------------------------------------------------------
(***************************************************************************)
(* Execution at most once, one verdict, and nothing after stop.            *)
(***************************************************************************)
\* What the records say about executions and verdicts.
Recorded == Started /\ AtMostOnce /\ Answered /\ OneVerdict

\* Removed containers are dropped; the rest keep their record.
LEMMA RecordKept ==
  ASSUME TypeOK, Recorded, execs' = execs, verdicts' = verdicts, live' \subseteq live, NEW q,
         dropped' = dropped \cup Removed(q), SeenAfter(q) = seen'
  PROVE  Recorded'
<1>1. ASSUME NEW k \in Key, k[1] \notin dropped'
      PROVE  k[1] \notin dropped /\ seen'[k[1]] = seen[k[1]]
  <2>1. k[1] \in Epoch /\ k[1] \notin Removed(q)
    BY <1>1 DEF Key
  <2> QED
    BY <1>1, <2>1 DEF SeenAfter
<1>2. Started' /\ AtMostOnce'
  BY <1>1 DEF Recorded, Started, AtMostOnce
<1>3. Answered' /\ OneVerdict'
  BY Zenon, <1>1 DEF Recorded, Answered, OneVerdict, Live
<1> QED
  BY <1>2, <1>3 DEF Recorded

\* The call whose OPEN is let in or refused now is not on record.
LEMMA FreshCall ==
  ASSUME TypeOK, \A e \in Epoch : Sound(e), Started, Answered, NEW k \in Key, Admissible(k)
  PROVE  /\ k[2] \notin seen[k[1]]
         /\ k[1] \notin dropped => execs[k] = 0 /\ verdicts[k] = {}
<1>1. k[1] \in Epoch /\ k[2] \in Sid /\ k = <<k[1], k[2]>>
  BY DEF Key
<1>2. k[2] \notin Own(k[1]) /\ (Known(k[1]) => ~Deduped(ps[k[1]], k[2], now))
  BY <1>1 DEF Own, Live, Admissible
<1>3. k[2] \notin seen[k[1]]
  BY <1>1, <1>2 DEF Sound, SoundAs, Known
<1>4. execs[k] \in 0..2
  BY DEF TypeOK
<1> QED
  BY <1>3, <1>4 DEF Started, Answered

\* The record after an OPEN of k that ensurePeer turned into q.
LEMMA RecordAfterOpen ==
  ASSUME TypeOK, NEW k \in Key, NEW q,
         seen' = [SeenAfter(q) EXCEPT ![k[1]] = SeenAfter(q)[k[1]] \cup {k[2]}],
         dropped' = dropped \cup Removed(q)
  PROVE  /\ k[2] \in seen'[k[1]]
         /\ \A j \in Key : j[1] \notin dropped' =>
              j[1] \notin dropped /\ seen[j[1]] \subseteq seen'[j[1]]
<1>1. k[1] \in Epoch /\ SeenAfter(q) \in [Epoch -> SUBSET Sid]
  BY SeenAfterType DEF Key
<1>2. k[2] \in seen'[k[1]]
  BY <1>1
<1>3. ASSUME NEW j \in Key, j[1] \notin dropped'
      PROVE  j[1] \notin dropped /\ seen[j[1]] \subseteq seen'[j[1]]
  <2>1. j[1] \in Epoch /\ j[1] \notin Removed(q)
    BY <1>3 DEF Key
  <2>2. SeenAfter(q)[j[1]] = seen[j[1]]
    BY <2>1 DEF SeenAfter
  <2> QED
    BY <1>1, <1>3, <2>1, <2>2
<1> QED
  BY Zenon, <1>2, <1>3

LEMMA RecordOpen ==
  ASSUME TypeOK, \A e \in Epoch : Sound(e), Recorded, NEW k \in Key, open(k)
  PROVE  Recorded'
<1>1. /\ Admissible(k) /\ verdicts' = verdicts /\ live' = live \cup {k}
      /\ execs' = [execs EXCEPT ![k] = IF execs[k] < 2 THEN execs[k] + 1 ELSE execs[k]]
  BY DEF open
<1>2. PICK q \in ensurePeer(k[1]) :
             /\ seen' = [SeenAfter(q) EXCEPT ![k[1]] = SeenAfter(q)[k[1]] \cup {k[2]}]
             /\ dropped' = dropped \cup Removed(q)
  BY Zenon DEF open
<1>3. /\ k[2] \in seen'[k[1]]
      /\ \A j \in Key : j[1] \notin dropped' =>
           j[1] \notin dropped /\ seen[j[1]] \subseteq seen'[j[1]]
  BY Zenon, <1>2, RecordAfterOpen
<1>4. k[1] \notin dropped => execs[k] = 0 /\ verdicts[k] = {}
  BY Zenon, <1>1, FreshCall DEF Recorded
<1>5. execs \in [Key -> 0..2] /\ \A j \in Key \ {k} : execs'[j] = execs[j]
  BY Zenon, <1>1 DEF TypeOK
<1>6. k[1] \notin dropped => execs'[k] = 1
  BY <1>1, <1>4, <1>5
<1>7. ASSUME NEW j \in Key, j[1] \notin dropped'
      PROVE  /\ execs'[j] > 0 => j[2] \in seen'[j[1]]
             /\ execs'[j] <= 1
             /\ verdicts[j] # {} => j[2] \in seen'[j[1]] /\ ~Live(j)'
             /\ Cardinality(verdicts[j]) <= 1
             /\ Reject \in verdicts[j] => execs'[j] = 0
  <2>1. CASE j = k
    <3>1. verdicts[j] = {} /\ execs'[j] = 1
      BY Zenon, <1>3, <1>4, <1>6, <1>7, <2>1
    <3>2. Cardinality(verdicts[j]) = 0
      BY <3>1, FS_EmptySet
    <3>3. j[2] \in seen'[j[1]] /\ Reject \notin verdicts[j]
      BY Zenon, <1>3, <2>1, <3>1
    <3>4. execs'[j] <= 1 /\ Cardinality(verdicts[j]) <= 1
      BY <3>1, <3>2
    <3> QED
      BY Zenon, <3>1, <3>3, <3>4
  <2>2. CASE j # k
    <3>1. j[1] \notin dropped /\ seen[j[1]] \subseteq seen'[j[1]] /\ execs'[j] = execs[j]
      BY Zenon, <1>3, <1>5, <1>7, <2>2
    <3>2. ~Live(j) => ~Live(j)'
      BY <1>1, <2>2 DEF Live
    <3>3. (execs[j] > 0 => j[2] \in seen[j[1]]) /\ execs[j] <= 1
      BY Zenon, <3>1 DEF Recorded, Started, AtMostOnce
    <3>4. /\ verdicts[j] # {} => j[2] \in seen[j[1]] /\ ~Live(j)
          /\ Cardinality(verdicts[j]) <= 1
          /\ Reject \in verdicts[j] => execs[j] = 0
      BY Zenon, <3>1 DEF Recorded, Answered, OneVerdict
    <3> QED
      BY Zenon, <3>1, <3>2, <3>3, <3>4
  <2> QED
    BY Zenon, <2>1, <2>2
<1>8. Started' /\ AtMostOnce'
  BY Zenon, <1>7 DEF Started, AtMostOnce
<1>9. Answered' /\ OneVerdict'
  BY Zenon, <1>1, <1>7 DEF Answered, OneVerdict
<1> QED
  BY <1>8, <1>9 DEF Recorded

LEMMA RecordReject ==
  ASSUME TypeOK, \A e \in Epoch : Sound(e), Recorded, NEW k \in Key, rejectOpen(k)
  PROVE  Recorded'
<1>1. /\ Admissible(k) /\ ~Live(k) /\ execs' = execs /\ live' = live
      /\ verdicts' = [verdicts EXCEPT ![k] = verdicts[k] \cup {Reject}]
  BY Zenon DEF rejectOpen, Admissible, streamVars
<1>2. PICK q \in ensurePeer(k[1]) :
             /\ seen' = [SeenAfter(q) EXCEPT ![k[1]] = SeenAfter(q)[k[1]] \cup {k[2]}]
             /\ dropped' = dropped \cup Removed(q)
  BY Zenon DEF rejectOpen
<1>3. /\ k[2] \in seen'[k[1]]
      /\ \A j \in Key : j[1] \notin dropped' =>
           j[1] \notin dropped /\ seen[j[1]] \subseteq seen'[j[1]]
  BY Zenon, <1>2, RecordAfterOpen
<1>4. k[1] \notin dropped => execs[k] = 0 /\ verdicts[k] = {}
  BY Zenon, <1>1, FreshCall DEF Recorded
<1>5. verdicts'[k] = verdicts[k] \cup {Reject} /\ \A j \in Key \ {k} : verdicts'[j] = verdicts[j]
  BY Zenon, <1>1 DEF TypeOK
<1>6. ASSUME NEW j \in Key, j[1] \notin dropped'
      PROVE  /\ execs[j] > 0 => j[2] \in seen'[j[1]]
             /\ execs[j] <= 1
             /\ verdicts'[j] # {} => j[2] \in seen'[j[1]] /\ ~Live(j)
             /\ Cardinality(verdicts'[j]) <= 1
             /\ Reject \in verdicts'[j] => execs[j] = 0
  <2>1. j[1] \notin dropped /\ seen[j[1]] \subseteq seen'[j[1]]
    BY <1>3, <1>6
  <2>2. CASE j = k
    <3>1. verdicts'[j] = {Reject} /\ execs[j] = 0
      BY Zenon, <1>4, <1>5, <2>1, <2>2
    <3>2. Cardinality(verdicts'[j]) = 1
      BY Zenon, <3>1, FS_Singleton
    <3> QED
      BY SMTT(30), <1>1, <1>3, <2>2, <3>1, <3>2
  <2>3. CASE j # k
    BY Zenon, <1>5, <2>1, <2>3 DEF Recorded, Started, AtMostOnce, Answered, OneVerdict
  <2> QED
    BY Zenon, <2>2, <2>3
<1>7. Started' /\ AtMostOnce'
  BY Zenon, <1>1, <1>6 DEF Started, AtMostOnce
<1>8. Answered' /\ OneVerdict'
  BY Zenon, <1>1, <1>6 DEF Answered, OneVerdict, Live
<1> QED
  BY <1>7, <1>8 DEF Recorded

LEMMA RecordFinish ==
  ASSUME TypeOK, \A e \in Epoch : Sound(e), Recorded, NEW k \in Key, NEW v \in Term,
         NEW x \in 0..ExtraTTL, finish(k, v, x)
  PROVE  Recorded'
<1> DEFINE term == IF k \in suppress THEN NoTerm ELSE v
           new == {term} \ {NoTerm}
<1>1. /\ Live(k) /\ execs' = execs /\ live' = live \ {k} /\ seen' = seen /\ dropped' = dropped
      /\ verdicts' = [verdicts EXCEPT ![k] = verdicts[k] \cup new]
      /\ v # Reject
  BY Zenon DEF finish
<1>2. Reject \notin new /\ Cardinality(new) <= 1
  <2>1. Cardinality({}) = 0 /\ Cardinality({v}) = 1
    BY Zenon, FS_EmptySet, FS_Singleton
  <2>2. new = {} \/ new = {v}
    OBVIOUS
  <2> HIDE DEF new
  <2> QED
    BY <1>1, <2>1, <2>2
<1> HIDE DEF new
<1>3. k[1] \in Epoch /\ k[2] \in seen[k[1]]
  <2>1. k[1] \in Epoch /\ k[2] \in Own(k[1]) /\ Known(k[1])
    BY <1>1, OwnerKnown DEF Key
  <2> QED
    BY Zenon, <2>1 DEF Sound, SoundAs, Known
<1>4. k[1] \notin dropped => verdicts[k] = {}
  BY Zenon, <1>1 DEF Recorded, Answered
<1>5. verdicts'[k] = verdicts[k] \cup new /\ \A j \in Key \ {k} : verdicts'[j] = verdicts[j]
  BY Zenon, <1>1 DEF TypeOK
<1>6. ASSUME NEW j \in Key, j[1] \notin dropped
      PROVE  /\ verdicts'[j] # {} => j[2] \in seen[j[1]] /\ ~Live(j)'
             /\ Cardinality(verdicts'[j]) <= 1
             /\ Reject \in verdicts'[j] => execs[j] = 0
  <2>1. CASE j = k
    <3>1. verdicts'[j] = new
      BY Zenon, <1>4, <1>5, <1>6, <2>1
    <3>2. ~Live(j)'
      BY <1>1, <2>1 DEF Live
    <3> QED
      BY Zenon, <1>2, <1>3, <2>1, <3>1, <3>2
  <2>2. CASE j # k
    <3>1. verdicts'[j] = verdicts[j] /\ (~Live(j) => ~Live(j)')
      BY <1>1, <1>5, <2>2 DEF Live
    <3> QED
      BY Zenon, <1>6, <3>1 DEF Recorded, Answered, OneVerdict
  <2> QED
    BY Zenon, <2>1, <2>2
<1>7. Started' /\ AtMostOnce'
  BY Zenon, <1>1 DEF Recorded, Started, AtMostOnce
<1>8. Answered' /\ OneVerdict'
  BY Zenon, <1>1, <1>6 DEF Answered, OneVerdict
<1> QED
  BY <1>7, <1>8 DEF Recorded

LEMMA RecordStep == IInv /\ Next => Recorded'
<1> SUFFICES ASSUME IInv, Next PROVE Recorded'
  OBVIOUS
<1>0. TypeOK /\ (\A e \in Epoch : Sound(e)) /\ Recorded
  BY DEF IInv, Recorded
<1>1. CASE UNCHANGED <<execs, seen, dropped, verdicts, live>>
  BY Zenon, <1>0, <1>1 DEF Recorded, Started, AtMostOnce, Answered, OneVerdict, Live
<1>2. ASSUME NEW k \in Key, open(k) \/ rejectOpen(k) PROVE Recorded'
  BY <1>0, <1>2, RecordOpen, RecordReject
<1>3. ASSUME NEW k \in Key, NEW v \in Term, NEW x \in 0..ExtraTTL, finish(k, v, x)
      PROVE  Recorded'
  BY <1>0, <1>3, RecordFinish
<1>4. CASE sweep
  <2> DEFINE q == [e \in Epoch |-> IF Known(e) THEN SweepPeer(ps[e]) ELSE NoPS]
  <2>1. /\ execs' = execs /\ verdicts' = verdicts /\ live' = live
        /\ seen' = SeenAfter(q) /\ dropped' = dropped \cup Removed(q)
    BY Zenon, <1>4 DEF sweep
  <2> HIDE DEF q
  <2> QED
    BY <1>0, <2>1, RecordKept
<1>5. CASE disconnectPeer
  <2>1. /\ execs' = execs /\ verdicts' = verdicts
        /\ dropped' = dropped \cup {e \in Epoch : Known(e)}
    BY Zenon, <1>5 DEF disconnectPeer
  <2>2. ASSUME NEW k \in Key, k[1] \notin dropped' PROVE execs[k] = 0 /\ verdicts[k] = {}
    <3>1. k[1] \in Epoch /\ ~Known(k[1]) /\ k[1] \notin dropped
      BY <2>1, <2>2 DEF Key
    <3>2. seen[k[1]] = {} /\ execs[k] \in 0..2
      BY Zenon, <1>0, <3>1 DEF Sound, SoundAs, Known, TypeOK
    <3> QED
      BY SMTT(30), <1>0, <3>1, <3>2 DEF Recorded, Started, Answered
  <2>3. Cardinality({}) = 0
    BY FS_EmptySet
  <2>4. Started' /\ AtMostOnce'
    BY <2>1, <2>2 DEF Started, AtMostOnce
  <2>5. Answered'
    BY Zenon, <2>1, <2>2 DEF Answered
  <2>6. OneVerdict'
    <3> SUFFICES ASSUME NEW k \in Key, k[1] \notin dropped'
                 PROVE  Cardinality(verdicts'[k]) <= 1 /\ (Reject \in verdicts'[k] => execs'[k] = 0)
      BY Zenon DEF OneVerdict
    <3>1. verdicts'[k] = {} /\ execs'[k] = 0
      BY <2>1, <2>2
    <3>2. Cardinality(verdicts'[k]) = 0
      BY <2>3, <3>1
    <3> QED
      BY <3>1, <3>2
  <2> QED
    BY <2>4, <2>5, <2>6 DEF Recorded
<1>6. CASE UNCHANGED <<live, historyVars>>
  BY <1>1, <1>6 DEF historyVars
<1> USE DEF streamVars
<1>7. ASSUME NEW k \in Key, \/ createStream(k) \/ HandleStraggler(k) \/ HandleAbort(k)
                           \/ HandleReset(k) \/ CallTimeout(k)
      PROVE  Recorded'
  BY <1>6, <1>7, Zenon
  DEF createStream, HandleStraggler, HandleAbort, HandleReset, CallTimeout
<1>8. ASSUME NEW e \in Epoch, HandlePing(e) PROVE Recorded'
  BY <1>6, <1>8, Zenon DEF HandlePing
<1>9. CASE Tick \/ finishOrphan \/ gracefulStop \/ stop \/ StopReturns
  BY <1>6, <1>9, Zenon DEF Tick, finishOrphan, gracefulStop, stop, StopReturns
<1> QED
  BY Zenon, <1>2, <1>3, <1>4, <1>5, <1>7, <1>8, <1>9 DEF Next, Serve, Teardown

LEMMA StopStep == IInv /\ Next => Stopped'
<1> SUFFICES ASSUME IInv, Next PROVE Stopped'
  OBVIOUS
<1>0. TypeOK /\ Stopped
  BY DEF IInv
<1> USE DEF streamVars, stopVars, Idle
<1>1. CASE StopReturns
  BY <1>1 DEF StopReturns, Stopped
<1>2. ASSUME NEW k \in Key, open(k) PROVE Stopped'
  BY Zenon, <1>0, <1>2 DEF open, Admissible, Stopped
<1>3. CASE returned' = returned /\ (closed => closed') /\ live' \subseteq live /\ orphans' = orphans
  BY <1>0, <1>3 DEF Stopped
<1>4. ASSUME NEW k \in Key, \/ createStream(k) \/ HandleStraggler(k) \/ HandleAbort(k)
                           \/ HandleReset(k) \/ CallTimeout(k) \/ rejectOpen(k)
      PROVE  Stopped'
  BY Zenon, <1>3, <1>4
  DEF createStream, HandleStraggler, HandleAbort, HandleReset, CallTimeout, rejectOpen
<1>5. ASSUME NEW k \in Key, NEW v \in Term, NEW x \in 0..ExtraTTL, finish(k, v, x)
      PROVE  Stopped'
  BY <1>3, <1>5 DEF finish
<1>6. ASSUME NEW e \in Epoch, HandlePing(e) PROVE Stopped'
  BY <1>3, <1>6 DEF HandlePing
<1>7. CASE Tick \/ sweep \/ gracefulStop \/ stop
  BY Zenon, <1>3, <1>7 DEF Tick, sweep, gracefulStop, stop
<1>8. CASE finishOrphan
  BY <1>0, <1>8 DEF finishOrphan, Stopped
<1>9. CASE disconnectPeer
  <2>1. returned => live = {} /\ orphans = 0 /\ closed
    BY <1>0 DEF Stopped
  <2>2. returned => orphans' = 0
    BY <1>9, <2>1, FS_EmptySet DEF disconnectPeer
  <2> QED
    BY <1>9, <2>1, <2>2 DEF disconnectPeer, Stopped
<1> QED
  BY <1>1, <1>2, <1>4, <1>5, <1>6, <1>7, <1>8, <1>9 DEF Next, Serve, Teardown

LEMMA FiniteStep == IInv /\ Next => Finite'
<1> SUFFICES ASSUME IInv, Next PROVE Finite'
  OBVIOUS
<1>1. IsFiniteSet(live)
  BY DEF IInv, Finite
<1>2. \A k \in Key : IsFiniteSet(live \cup {k}) /\ IsFiniteSet(live \ {k})
  BY <1>1, FS_AddElement, FS_RemoveElement
<1>3. live' = live \/ live' = {} \/ \E k \in Key : live' \in {live \cup {k}, live \ {k}}
  BY Zenon DEF Next, Serve, Teardown, streamVars, Tick, createStream, HandleStraggler,
     HandleAbort, HandleReset, CallTimeout, open, rejectOpen, finish, HandlePing,
     finishOrphan, sweep, gracefulStop, stop, StopReturns, disconnectPeer
<1>4. IsFiniteSet({})
  BY FS_EmptySet
<1> QED
  BY <1>1, <1>2, <1>3, <1>4 DEF Finite

-----------------------------------------------------------------------------
(***************************************************************************)
(* The theorems.                                                           *)
(***************************************************************************)
LEMMA IInvInit == Init => IInv
<1> SUFFICES ASSUME Init PROVE IInv
  OBVIOUS
<1>1. TypeOK
  <2>1. ps \in [Epoch -> PeerStateType \cup {NoPS}] /\ orphans \in 0..MaxOrphans
    BY ServerAssumption DEF Init
  <2>2. /\ born \in [Key -> Nat \cup {Never}]
        /\ execs \in [Key -> 0..2]
        /\ seen \in [Epoch -> SUBSET Sid]
        /\ verdicts \in [Key -> SUBSET Term]
    BY DEF Init
  <2>3. {drain, closed, stopping, returned} \subseteq BOOLEAN
    BY Zenon DEF Init
  <2> QED
    BY Zenon, <2>1, <2>2, <2>3 DEF Init, TypeOK
<1>2. \A e \in Epoch : Sound(e)
  BY Zenon DEF Init, Sound, SoundAs, Own
<1>3. Started /\ AtMostOnce /\ Stopped
  BY DEF Init, Started, AtMostOnce, Stopped
<1>4. Answered /\ OneVerdict /\ Finite
  BY FS_EmptySet DEF Init, Answered, OneVerdict, Finite
<1> QED
  BY <1>1, <1>2, <1>3, <1>4 DEF IInv

LEMMA IInvStep == IInv /\ [Next]_vars => IInv'
<1>1. CASE Next
  BY <1>1, TypeStep, SoundStep, RecordStep, StopStep, FiniteStep DEF IInv, Recorded
<1>2. CASE UNCHANGED vars
  <2> SUFFICES ASSUME IInv PROVE IInv'
    BY <1>2
  <2> USE DEF vars, streamVars, stopVars, historyVars, Live, Idle
  <2>1. TypeOK'
    BY Zenon, <1>2 DEF IInv, TypeOK
  <2>2. \A e \in Epoch : Sound(e)'
    BY <1>2, Zenon DEF IInv, Sound, Own, Silenced
  <2>3. Started' /\ AtMostOnce' /\ Stopped' /\ Answered' /\ OneVerdict' /\ Finite'
    BY Zenon, <1>2 DEF IInv, Started, AtMostOnce, Stopped, Answered, OneVerdict, Finite
  <2> QED
    BY <2>1, <2>2, <2>3 DEF IInv
<1> QED
  BY <1>1, <1>2

\* The inductive invariant holds in every state the server can reach.
THEOREM Invariance == Spec => []IInv
BY IInvInit, IInvStep, PTL DEF Spec

\* Every reachable state is well typed; in particular finish and
\* handleRx always find the container of the call they work on.
THEOREM TypeCorrect == Spec => []TypeOK
<1>1. IInv => TypeOK
  BY DEF IInv
<1> QED
  BY <1>1, Invariance, PTL

\* Execution is at most once: however late and however often an OPEN is
\* delivered, its handler is started at most once while the server keeps the
\* incarnation's container.
THEOREM ExecutesAtMostOnce == Spec => []AtMostOnce
<1>1. IInv => AtMostOnce
  BY DEF IInv
<1> QED
  BY <1>1, Invariance, PTL

\* The hand-over of a sid from the live map to tombstone, floor and aged
\* watermark has no gap.
THEOREM ForgetsNothing == Spec => []NeverForgotten
<1>1. IInv => NeverForgotten
  BY Zenon DEF IInv, NeverForgotten, Sound, SoundAs, Own, Live, Known
<1> QED
  BY <1>1, Invariance, PTL

\* liveCalls counts the live calls, and no container goes while it has one.
THEOREM CountsLiveCalls == Spec => []LiveAccounting
<1>1. IInv => LiveAccounting
  BY Zenon DEF IInv, LiveAccounting, Sound, SoundAs, Own, Known
<1> QED
  BY <1>1, Invariance, PTL

\* The calls of a lost peer have all been cancelled and silenced.
THEOREM LostPeersAreSilent == Spec => []DeadMeansCancelled
<1>1. ASSUME IInv PROVE DeadMeansCancelled
  <2> SUFFICES ASSUME NEW k \in live, ps[k[1]].dead
               PROVE  k \in cancelled \cap suppress
    BY Zenon DEF DeadMeansCancelled
  <2>1. k \in Key /\ k[1] \in Epoch /\ k[2] \in Sid /\ k = <<k[1], k[2]>> /\ Live(k)
    <3>1. live \subseteq Key
      BY Zenon, <1>1 DEF IInv, TypeOK
    <3> QED
      BY <3>1 DEF Live, Key
  <2>2. Known(k[1]) /\ k[2] \in Own(k[1])
    BY <1>1, <2>1, OwnerKnown DEF IInv
  <2>3. Own(k[1]) \subseteq Silenced(k[1])
    BY <1>1, <2>1, <2>2 DEF IInv, Sound, SoundAs, Known
  <2> QED
    BY <2>1, <2>2, <2>3 DEF Silenced
<1> QED
  BY <1>1, Invariance, PTL

\* A call gets one verdict: what rejectOpen refused never runs, and what ran is
\* answered by its handler only.
THEOREM AnswersOnce == Spec => []OneVerdict
<1>1. IInv => OneVerdict
  BY DEF IInv
<1> QED
  BY <1>1, Invariance, PTL

\* Once stop or gracefulStop has resolved, no handler runs.
THEOREM StopIsFinal == Spec => []StoppedMeansDone
<1>1. IInv => StoppedMeansDone
  BY DEF IInv, Stopped, StoppedMeansDone, Idle
<1> QED
  BY <1>1, Invariance, PTL
=============================================================================
