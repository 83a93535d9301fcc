----------------------------- MODULE PeerState -----------------------------
(***************************************************************************)
(* The server's container for one client incarnation (class PeerState of   *)
(* server.ts), as a record and the operators that change it. Nothing here  *)
(* awaits, so each operator is part of the one step that applies it.       *)
(*                                                                         *)
(* A container remembers which calls it has seen in four ways, each with   *)
(* its own lifetime: the live-call map (in module Server), the tombstones  *)
(* of finished calls, the tombstone floor that replaces tombstones evicted *)
(* by the entry cap, and the aged watermark that replaces tombstones that  *)
(* expired.                                                                *)
(***************************************************************************)
EXTENDS Integers, Sequences, FiniteSets, FiniteSetsExt

CONSTANTS
  MaxSid,        \* sids are 1..MaxSid; 0 is peer scope (bound of the model)
  TTL,           \* timing.tombstoneMs, in ticks
  MaxTombs,      \* limits.maxTombstones
  MaxTombBytes,  \* limits.maxTombstoneBytes
  OrderSlack,    \* stale entries the insertion order may hold (16 in the code)
  Term,          \* the verdicts a terminal frame can carry
  MaxTermSize,   \* the longest payload of a terminal frame (bound)
  TermSize       \* their payload lengths, [Term -> 0..MaxTermSize]

ASSUME PeerStateAssumption ==
  /\ MaxSid \in Nat \ {0}
  /\ TTL \in Nat \ {0}
  /\ MaxTombs \in Nat \ {0}
  /\ MaxTombBytes \in Nat
  /\ OrderSlack \in Nat
  /\ MaxTermSize \in Nat
  /\ TermSize \in [Term -> 0..MaxTermSize]
  /\ "keyonly" \notin Term
  /\ "none" \notin Term

Sid == 1..MaxSid

\* What a tombstone stores: a terminal frame, or only the key.
NoTerm == "keyonly"
Stored == Term \cup {NoTerm}

\* A stored terminal is charged its payload length; a key-only entry is free.
SizeOf(term) == IF term = NoTerm THEN 0 ELSE TermSize[term]

\* The absent entry of the tombs map.
NoTomb == [term |-> "none", expire |-> 0]
Tomb == [term : Stored, expire : Nat]

Checkpoint == [at : Nat, hwm : Nat]

\* PeerState. order is tombOrder: the number under which each sid was appended,
\* 0 for none; stamp is the last number used. live is liveCalls. The transmit
\* clocks only pace keepalives and are left out.
PeerStateType ==
  [hwm : Nat, cps : Seq(Checkpoint), dead : BOOLEAN,
   tombs : [Sid -> Tomb \cup {NoTomb}], order : [Sid -> Nat], stamp : Nat,
   bytes : Int, floor : Nat, live : Int, created : Nat, lastRx : Nat]

\* A container as ensurePeer creates it at time t.
NewPeerState(t) ==
  [hwm |-> 0, cps |-> <<>>, dead |-> FALSE,
   tombs |-> [s \in Sid |-> NoTomb], order |-> [s \in Sid |-> 0], stamp |-> 0,
   bytes |-> 0, floor |-> 0, live |-> 0, created |-> t, lastRx |-> t]

Tombed(p) == {s \in Sid : p.tombs[s] # NoTomb}

-----------------------------------------------------------------------------
(***************************************************************************)
(* The aged watermark: the hwm of the last checkpoint at least TTL old.    *)
(***************************************************************************)
\* Mutant: a checkpoint counts as old one tick early.
OldCpsEarly(cps, t) == {i \in 1..Len(cps) : t - cps[i].at >= TTL - 1}

OldCps(cps, t) == {i \in 1..Len(cps) : t - cps[i].at >= TTL}

Last(S) == CHOOSE i \in S : \A j \in S : j <= i

hwmAged(p, t) ==
  IF OldCps(p.cps, t) = {} THEN 0 ELSE p.cps[Last(OldCps(p.cps, t))].hwm

\* Checkpoints are ordered in time and in height, none is in the future, and
\* none exceeds the watermark.
WatermarkOrdered(p, t) ==
  \A i \in 1..Len(p.cps) :
    /\ p.cps[i].at <= t
    /\ p.cps[i].hwm <= p.hwm
    /\ \A j \in i..Len(p.cps) : /\ p.cps[i].at <= p.cps[j].at
                                /\ p.cps[i].hwm <= p.cps[j].hwm

\* The sids with a tombstone or covered by the floor.
Held(p) == {s \in Sid : s \in Tombed(p) \/ s <= p.floor}

\* The sid is remembered without a live call: a duplicate OPEN must not run.
Deduped(p, s, t) == s \in Held(p) \/ s <= hwmAged(p, t)

-----------------------------------------------------------------------------
(***************************************************************************)
(* addTomb.                                                                *)
(***************************************************************************)

\* The bytes the tombstones of D store, counted one by one.
Bytes(p, D) ==
  Cardinality({b \in D \X (1..MaxTermSize) : b[2] <= SizeOf(p.tombs[b[1]].term)})

Degrade(p, D) ==
  [p EXCEPT !.tombs = [s \in Sid |->
                        IF s \in D THEN [p.tombs[s] EXCEPT !.term = NoTerm]
                                   ELSE p.tombs[s]],
            !.bytes = @ - Bytes(p, D)]

\* The tombstoned sids among the first k entries of the insertion order.
OldestTombs(p, k) == {s \in Tombed(p) : p.order[s] <= k}

\* The byte cap degrades the oldest stored terminals, no more than needed.
CapBytes(p) ==
  LET after(k) == Degrade(p, OldestTombs(p, k))
      enough == {k \in 0..p.stamp :
                   k = p.stamp \/ after(k).bytes <= MaxTombBytes}
  IN  after(Min(enough))

\* The entry cap evicts the lowest sid and raises the floor to it. The map
\* grew by one entry, so the code's loop runs at most once.
Lowest(p) == CHOOSE s \in Tombed(p) : \A r \in Tombed(p) : s <= r

\* Mutant: eviction leaves the evicted bytes on the books.
CapEntriesLeaky(p) ==
  IF Cardinality(Tombed(p)) <= MaxTombs THEN p
  ELSE LET low == Lowest(p)
       IN  [p EXCEPT !.tombs[low] = NoTomb, !.floor = IF @ < low THEN low ELSE @]

CapEntries(p) ==
  IF Cardinality(Tombed(p)) <= MaxTombs THEN p
  ELSE LET low == Lowest(p)
       IN  [p EXCEPT !.tombs[low] = NoTomb,
                     !.bytes = @ - SizeOf(p.tombs[low].term),
                     !.floor = IF @ < low THEN low ELSE @]

ReplaceTomb(p, s, term, expire) ==
  [p EXCEPT !.tombs[s] = [term |-> term,
                          expire |-> IF expire > @.expire THEN expire ELSE @.expire],
            !.bytes = @ + SizeOf(term) - SizeOf(p.tombs[s].term)]

InsertTomb(p, s, term, expire) ==
  [p EXCEPT !.tombs[s] = [term |-> term, expire |-> expire],
            !.order[s] = IF @ = 0 THEN p.stamp + 1 ELSE @,
            !.stamp = @ + 1,
            !.bytes = @ + SizeOf(term)]

addTomb(p, s, term, expire) ==
  IF s <= p.floor THEN p
  ELSE IF s \in Tombed(p) THEN ReplaceTomb(p, s, term, expire)
  ELSE CapEntries(CapBytes(InsertTomb(p, s, term, expire)))

-----------------------------------------------------------------------------
(***************************************************************************)
(* What happens to the container when a call starts, is refused, or ends.  *)
(***************************************************************************)
Larger(a, b) == IF a < b THEN b ELSE a

\* Mutant: admission leaves the dead mark standing.
AdmitStillDead(p, s, t) ==
  [p EXCEPT !.hwm = Larger(@, s), !.live = @ + 1, !.lastRx = t]

\* open: the call is registered, and the peer is evidently back.
Admit(p, s, t) ==
  [p EXCEPT !.hwm = Larger(@, s), !.live = @ + 1, !.dead = FALSE, !.lastRx = t]

\* Mutant: the rejection is not stored.
BurnUnstored(p, s, term, t) == [p EXCEPT !.hwm = Larger(@, s), !.lastRx = t]

\* rejectOpen: the sid is burned without a call.
Burn(p, s, term, t) ==
  addTomb([p EXCEPT !.hwm = Larger(@, s), !.lastRx = t], s, term, t + TTL)

\* finish: a call of a lost peer leaves only its key.
Retire(p, s, term, expire) ==
  addTomb([p EXCEPT !.live = @ - 1], s, IF p.dead THEN NoTerm ELSE term, expire)

-----------------------------------------------------------------------------
(***************************************************************************)
(* What one sweep does to a container, apart from liveness.                *)
(***************************************************************************)

\* Append a checkpoint; keep exactly one that is older than TTL.
AddCheckpoint(p, t) ==
  LET cps == Append(p.cps, [at |-> t, hwm |-> p.hwm])
  IN  [p EXCEPT !.cps = SubSeq(cps, Last(OldCps(cps, t) \cup {1}), Len(cps))]

\* Mutant: expiry is not coupled to the watermark.
ExpiredTombsUncoupled(p, t) == {s \in Tombed(p) : t > p.tombs[s].expire}

\* A tombstone dies only once the aged watermark covers its sid.
ExpiredTombs(p, t) ==
  {s \in Tombed(p) : t > p.tombs[s].expire /\ s <= hwmAged(p, t)}

ExpireTombs(p, t) ==
  LET gone == ExpiredTombs(p, t)
  IN  [p EXCEPT !.tombs = [s \in Sid |-> IF s \in gone THEN NoTomb ELSE p.tombs[s]],
                !.bytes = @ - Bytes(p, gone)]

\* Drop the order entries of tombstones that are gone, once they pile up.
CompactOrder(p) ==
  LET entries == {s \in Sid : p.order[s] # 0}
  IN  IF Cardinality(entries) > 2 * Cardinality(Tombed(p)) + OrderSlack
      THEN [p EXCEPT !.order = [s \in Sid |-> IF s \in Tombed(p) THEN @[s] ELSE 0]]
      ELSE p

\* The peer is lost: every stored terminal degrades to its key.
LosePeer(p) == [Degrade(p, Tombed(p)) EXCEPT !.dead = TRUE]

\* Nothing live, nothing tombstoned, and silent for twice the tombstone TTL.
Collectable(p, t) == p.live = 0 /\ Tombed(p) = {} /\ t - p.lastRx > 2 * TTL
=============================================================================
