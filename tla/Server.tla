------------------------------- MODULE Server -------------------------------
(***************************************************************************)
(* The server's call lifecycle on an unreliable channel, for one transport *)
(* peer: handle, open, rejectOpen, runUnary/runStream, finish,             *)
(* resetByPeerSid, sweep, stop, gracefulStop and disconnectPeer of         *)
(* server.ts.                                                              *)
(*                                                                         *)
(* The network is a datagram port: any frame of a call the client ever     *)
(* allocated may be delivered at any time, any number of times, or never.  *)
(* So frames are not stored; a delivery is an action that is enabled as    *)
(* long as the call has been allocated. A step is what runs between two    *)
(* awaits: the demux path from handle through open and rejectOpen awaits   *)
(* nothing before it has changed the state, and neither does the end of a  *)
(* call from the suppressTerm check to finish.                             *)
(*                                                                         *)
(* The replies that leave no dedup state behind (RESETs, replays of a      *)
(* stored terminal, creation acks) and their rate limits are in module     *)
(* Replies; keepalives and probes change only transmit clocks and are left *)
(* out.                                                                    *)
(***************************************************************************)
EXTENDS PeerState

CONSTANTS
  Epoch,             \* client incarnations behind the one peer key
  UnknownMethod,     \* calls whose OPEN names no registered method or codec
  Reject,            \* the verdict rejectOpen sends; all others are a handler's
  Liveness,          \* timing.livenessMs, in ticks
  MaxLiveCalls,      \* limits.maxLiveCalls
  MaxDeadPeers,      \* limits.maxDeadPeers
  ExtraTTL,          \* longest call timeout left beyond TTL (bound)
  MaxOrphans,        \* calls whose peer was disconnected under them (bound)
  MaxTime            \* bound on the clock; one tick is one sweeper tick

Key == Epoch \X Sid

ASSUME ServerAssumption ==
  /\ UnknownMethod \subseteq Key
  /\ Reject \in Term
  /\ Liveness \in Nat \ {0}
  /\ TTL >= 2 * Liveness
  /\ MaxLiveCalls \in Nat \ {0}
  /\ MaxDeadPeers \in Nat \ {0}
  /\ ExtraTTL \in Nat
  /\ MaxOrphans \in Nat
  /\ MaxTime \in Nat

VARIABLES
  now,        \* the clock
  swept,      \* the tick of the last sweep
  ps,         \* slot.epochs of the one transport peer
  live,       \* the calls in the containers' calls maps
  orphans,    \* how many handlers run whose slot disconnectPeer removed
  suppress,   \* live calls with suppressTerm set
  cancelled,  \* live calls whose handler's signal has aborted
  drain,      \* Server.drain
  closed,     \* Server.closed
  stopping,   \* a gracefulStop or stop sits in waitIdle
  returned,   \* a gracefulStop or stop has resolved and stopped the sweeper
  born,       \* when the client allocated each sid (the client's state)
  execs,      \* history: how often each call's handler was started, up to 2
  seen,       \* history: sids the current container admitted or rejected
  verdicts,   \* history: verdicts transmitted for each call
  dropped     \* history: incarnations whose container was ever removed

streamVars == <<live, orphans, suppress, cancelled>>
stopVars == <<drain, closed, stopping, returned>>
historyVars == <<execs, seen, verdicts, dropped>>
vars == <<now, swept, ps, streamVars, stopVars, born, historyVars>>

NoPS == [none |-> TRUE]
Never == -1

Init ==
  /\ now = 1
  /\ swept = 0
  /\ ps = [e \in Epoch |-> NoPS]
  /\ live = {}
  /\ orphans = 0
  /\ suppress = {}
  /\ cancelled = {}
  /\ drain = FALSE
  /\ closed = FALSE
  /\ stopping = FALSE
  /\ returned = FALSE
  /\ born = [k \in Key |-> Never]
  /\ execs = [k \in Key |-> 0]
  /\ seen = [e \in Epoch |-> {}]
  /\ verdicts = [k \in Key |-> {}]
  /\ dropped = {}

Live(k) == k \in live

Known(e) == ps[e] # NoPS

-----------------------------------------------------------------------------
(***************************************************************************)
(* Time, and the client's sid allocation.                                  *)
(***************************************************************************)
Tick ==
  /\ now < MaxTime
  /\ now' = now + 1
  /\ UNCHANGED <<swept, ps, streamVars, stopVars, born, historyVars>>

\* Conn.createStream: an incarnation hands out its sids in order.
createStream(k) ==
  /\ born[k] = Never
  /\ \A r \in 1..(k[2] - 1) : born[<<k[1], r>>] # Never
  /\ born' = [born EXCEPT ![k] = now]
  /\ UNCHANGED <<now, swept, ps, streamVars, stopVars, historyVars>>

-----------------------------------------------------------------------------
(***************************************************************************)
(* Server.handle.                                                          *)
(***************************************************************************)
\* noteValidatedRx, and what handle does for a frame of a finished call.
Touched(e) == [ps EXCEPT ![e].lastRx = now]

\* handle finds the call remembered: live, tombstoned or below the floor. The
\* frame is validated and only the peer's liveness clock changes.
Remembered(k) ==
  \/ Live(k)
  \/ Known(k[1]) /\ k[2] \in Held(ps[k[1]])

\* A duplicate OPEN, data or half-close frame of a remembered call.
HandleStraggler(k) ==
  /\ Remembered(k)
  /\ ps' = Touched(k[1])
  /\ UNCHANGED <<now, swept, streamVars, stopVars, born, historyVars>>

\* The abort of a live call: its handler's signal aborts.
HandleAbort(k) ==
  /\ Live(k)
  /\ ps' = Touched(k[1])
  /\ cancelled' = cancelled \cup {k}
  /\ UNCHANGED <<now, swept, live, orphans, suppress, stopVars, born, historyVars>>

\* The deadline timer open armed, or a budget that was spent before the OPEN
\* arrived.
CallTimeout(k) ==
  /\ Live(k)
  /\ cancelled' = cancelled \cup {k}
  /\ UNCHANGED <<now, swept, ps, live, orphans, suppress, stopVars, born, historyVars>>

\* A PING names the incarnation; it refreshes the container in the map.
HandlePing(e) ==
  /\ Known(e)
  /\ ps' = Touched(e)
  /\ UNCHANGED <<now, swept, streamVars, stopVars, born, historyVars>>

\* resetByPeerSid: the client disowned the call.
HandleReset(k) ==
  /\ Live(k)
  /\ suppress' = suppress \cup {k}
  /\ cancelled' = cancelled \cup {k}
  /\ UNCHANGED <<now, swept, ps, live, orphans, stopVars, born, historyVars>>

-----------------------------------------------------------------------------
(***************************************************************************)
(* The OPEN of a call: handle's checks, open and rejectOpen in one step.   *)
(***************************************************************************)
\* Mutant: the cap forgets that a container may hold live calls.
IdlePeersAny == {e \in Epoch : Known(e)}

IdlePeers == {e \in Epoch : Known(e) /\ ps[e].live = 0}
OldestIdle == {e \in IdlePeers : \A d \in IdlePeers : ps[e].created <= ps[d].created}

\* Mutant: one idle container too many before the cap evicts.
ensurePeerOneMore(e) ==
  IF Known(e) THEN {ps}
  ELSE IF Cardinality(IdlePeers) <= MaxDeadPeers
       THEN {[ps EXCEPT ![e] = NewPeerState(now)]}
       ELSE {[ps EXCEPT ![o] = NoPS, ![e] = NewPeerState(now)] : o \in OldestIdle}

\* ensurePeer: the containers after it, one outcome per container the cap may
\* evict (the clock may give several the same creation time).
ensurePeer(e) ==
  IF Known(e) THEN {ps}
  ELSE IF Cardinality(IdlePeers) < MaxDeadPeers
       THEN {[ps EXCEPT ![e] = NewPeerState(now)]}
       ELSE {[ps EXCEPT ![o] = NoPS, ![e] = NewPeerState(now)] : o \in OldestIdle}

\* The histories when the containers become q: a removed one forgets.
Removed(q) == {o \in Epoch : Known(o) /\ q[o] = NoPS}
SeenAfter(q) == [e \in Epoch |-> IF e \in Removed(q) THEN {} ELSE seen[e]]

\* Mutants: handle looks only at the tombstones, or open forgets to drain.
AdmissibleNoWatermark(k) ==
  /\ born[k] # Never
  /\ ~drain /\ ~closed /\ ~Live(k)
  /\ Known(k[1]) => k[2] \notin Held(ps[k[1]])

AdmissibleNoDrain(k) ==
  /\ born[k] # Never
  /\ ~Live(k)
  /\ Known(k[1]) => ~Deduped(ps[k[1]], k[2], now)

\* The call is not remembered, its sid is above the aged watermark, and the
\* server takes new calls. Everything else draws a replay, a RESET or nothing.
Admissible(k) ==
  /\ born[k] # Never
  /\ ~drain /\ ~closed /\ ~Live(k)
  /\ Known(k[1]) => ~Deduped(ps[k[1]], k[2], now)

\* The live-call cap of the slot, across incarnations.
Capped == Cardinality(live) >= MaxLiveCalls

\* Register the call and start its handler.
open(k) ==
  LET e == k[1]
      s == k[2]
  IN
  /\ Admissible(k)
  /\ k \notin UnknownMethod
  /\ ~Capped
  /\ \E q \in ensurePeer(e) :
       /\ ps' = [q EXCEPT ![e] = Admit(@, s, now)]
       /\ seen' = [SeenAfter(q) EXCEPT ![e] = @ \cup {s}]
       /\ dropped' = dropped \cup Removed(q)
  /\ live' = live \cup {k}
  /\ execs' = [execs EXCEPT ![k] = IF @ < 2 THEN @ + 1 ELSE @]
  /\ UNCHANGED <<now, swept, orphans, suppress, cancelled, stopVars, born, verdicts>>

\* No such method, or too many calls: burn the sid, store the rejection in a
\* tombstone and send it.
rejectOpen(k) ==
  LET e == k[1]
      s == k[2]
  IN
  /\ Admissible(k)
  /\ k \in UnknownMethod \/ Capped
  /\ \E q \in ensurePeer(e) :
       /\ ps' = [q EXCEPT ![e] = Burn(@, s, Reject, now)]
       /\ seen' = [SeenAfter(q) EXCEPT ![e] = @ \cup {s}]
       /\ dropped' = dropped \cup Removed(q)
  /\ verdicts' = [verdicts EXCEPT ![k] = @ \cup {Reject}]
  /\ UNCHANGED <<now, swept, streamVars, stopVars, born, execs>>

-----------------------------------------------------------------------------
(***************************************************************************)
(* The end of a call: runUnary or runStream after terminalFrame, finish    *)
(* and taskDone.                                                           *)
(***************************************************************************)
\* Mutant: finish leaves the suppression mark of the finished call behind.
finishStale(k, v, x) ==
  LET term == IF k \in suppress THEN NoTerm ELSE v
  IN
  /\ Live(k)
  /\ v \in Term \ {Reject}
  /\ ps' = [ps EXCEPT ![k[1]] = Retire(@, k[2], term, now + TTL + x)]
  /\ verdicts' = [verdicts EXCEPT ![k] = @ \cup ({term} \ {NoTerm})]
  /\ live' = live \ {k}
  /\ cancelled' = cancelled \ {k}
  /\ UNCHANGED <<now, swept, orphans, suppress, stopVars, born, execs, seen, dropped>>

\* The terminal is sent, and stored, unless the peer disowned the call or
\* vanished. x is how far the call's own deadline reaches beyond TTL.
finish(k, v, x) ==
  LET term == IF k \in suppress THEN NoTerm ELSE v
  IN
  /\ Live(k)
  /\ v \in Term \ {Reject}
  /\ ps' = [ps EXCEPT ![k[1]] = Retire(@, k[2], term, now + TTL + x)]
  /\ verdicts' = [verdicts EXCEPT ![k] = @ \cup ({term} \ {NoTerm})]
  /\ live' = live \ {k}
  /\ suppress' = suppress \ {k}
  /\ cancelled' = cancelled \ {k}
  /\ UNCHANGED <<now, swept, orphans, stopVars, born, execs, seen, dropped>>

\* The same for a call whose slot is gone: what it answers is stored nowhere.
finishOrphan ==
  /\ orphans > 0
  /\ orphans' = orphans - 1
  /\ UNCHANGED <<now, swept, ps, live, suppress, cancelled, stopVars, born,
                 historyVars>>

-----------------------------------------------------------------------------
(***************************************************************************)
(* Server.sweep, once per tick at most, until the sweeper is stopped.      *)
(***************************************************************************)
Lost(p) == p.live > 0 /\ ~p.dead /\ now - p.lastRx >= Liveness

Swept(p) ==
  LET q == CompactOrder(ExpireTombs(AddCheckpoint(p, now), now))
  IN  IF Lost(p) THEN LosePeer(q) ELSE q

SweepPeer(p) == IF Collectable(Swept(p), now) THEN NoPS ELSE Swept(p)

sweep ==
  LET q == [e \in Epoch |-> IF Known(e) THEN SweepPeer(ps[e]) ELSE NoPS]
      lost == {k \in live : Known(k[1]) /\ Lost(ps[k[1]])}
  IN
  /\ ~returned
  /\ swept < now
  /\ swept' = now
  /\ ps' = q
  /\ suppress' = suppress \cup lost
  /\ cancelled' = cancelled \cup lost
  /\ seen' = SeenAfter(q)
  /\ dropped' = dropped \cup Removed(q)
  /\ UNCHANGED <<now, live, orphans, stopVars, born, execs, verdicts>>

-----------------------------------------------------------------------------
(***************************************************************************)
(* Teardown.                                                               *)
(***************************************************************************)
gracefulStop ==
  /\ drain' = TRUE
  /\ stopping' = TRUE
  /\ UNCHANGED <<now, swept, ps, streamVars, closed, returned, born, historyVars>>

\* Mutant: stop waits for the handlers without telling them to end.
stopPatient ==
  /\ drain' = TRUE
  /\ closed' = TRUE
  /\ stopping' = TRUE
  /\ UNCHANGED <<now, swept, ps, streamVars, returned, born, historyVars>>

stop ==
  /\ drain' = TRUE
  /\ closed' = TRUE
  /\ stopping' = TRUE
  /\ cancelled' = cancelled \cup live
  /\ UNCHANGED <<now, swept, ps, live, orphans, suppress, returned, born, historyVars>>

\* liveTasks is 0.
Idle == live = {} /\ orphans = 0

\* waitIdle resolves. Both set closed by then and stop the sweeper.
StopReturns ==
  /\ stopping /\ ~returned
  /\ Idle
  /\ closed' = TRUE
  /\ returned' = TRUE
  /\ UNCHANGED <<now, swept, ps, streamVars, drain, stopping, born, historyVars>>

\* The transport lost the peer: its slot goes, its calls are cancelled and
\* live on only in their handlers.
disconnectPeer ==
  /\ \E e \in Epoch : Known(e)
  /\ orphans + Cardinality(live) <= MaxOrphans
  /\ ps' = [e \in Epoch |-> NoPS]
  /\ live' = {}
  /\ orphans' = orphans + Cardinality(live)
  /\ suppress' = {}
  /\ cancelled' = {}
  /\ seen' = [e \in Epoch |-> {}]
  /\ dropped' = dropped \cup {e \in Epoch : Known(e)}
  /\ UNCHANGED <<now, swept, stopVars, born, execs, verdicts>>

-----------------------------------------------------------------------------
\* Serving: the client, the network, the handlers and the sweeper.
Serve ==
  \/ Tick
  \/ \E k \in Key : \/ createStream(k)
                    \/ HandleStraggler(k)
                    \/ HandleAbort(k)
                    \/ CallTimeout(k)
                    \/ HandleReset(k)
                    \/ open(k)
                    \/ rejectOpen(k)
                    \/ \E v \in Term, x \in 0..ExtraTTL : finish(k, v, x)
  \/ \E e \in Epoch : HandlePing(e)
  \/ sweep

Teardown == gracefulStop \/ stop \/ StopReturns \/ disconnectPeer \/ finishOrphan

Next == Serve \/ Teardown

Spec == Init /\ [][Next]_vars

\* A server that is never stopped and whose transport never fails.
ServeSpec == Init /\ [][Serve]_vars

-----------------------------------------------------------------------------
(***************************************************************************)
(* Properties.                                                             *)
(***************************************************************************)

\* Every variable has the type its declaration states.
TypeOK ==
  /\ now \in Nat
  /\ swept \in Nat
  /\ ps \in [Epoch -> PeerStateType \cup {NoPS}]
  /\ live \subseteq Key
  /\ orphans \in 0..MaxOrphans
  /\ suppress \subseteq live
  /\ cancelled \subseteq live
  /\ {drain, closed, stopping, returned} \subseteq BOOLEAN
  /\ born \in [Key -> Nat \cup {Never}]
  /\ execs \in [Key -> 0..2]
  /\ seen \in [Epoch -> SUBSET Sid]
  /\ verdicts \in [Key -> SUBSET Term]
  /\ dropped \subseteq Epoch

\* A handler is started at most once per call, however often and however late
\* its OPEN is delivered and whatever the caps evict, as long as the server has
\* kept the incarnation's container.
AtMostOnce == \A k \in Key : k[1] \notin dropped => execs[k] <= 1

\* A container never forgets a call it admitted or rejected: live map,
\* tombstone, floor and aged watermark hand the sid over without a gap.
NeverForgotten ==
  \A e \in Epoch : Known(e) =>
    \A s \in seen[e] : Live(<<e, s>>) \/ Deduped(ps[e], s, now)

\* The server sends one verdict per call: what rejectOpen refused has not run
\* and will not, and what ran is answered by its handler only.
OneVerdict ==
  \A k \in Key : k[1] \notin dropped =>
    /\ Cardinality(verdicts[k]) <= 1
    /\ Reject \in verdicts[k] => execs[k] = 0

\* The aged watermark refuses only calls allocated at least TTL ago, even
\* though it is computed from sids that overtook them.
OnlyStaleRefused ==
  \A k \in Key :
    Known(k[1]) /\ born[k] # Never /\ k[2] <= hwmAged(ps[k[1]], now)
      => now - born[k] >= TTL

\* liveCalls of a container is the number of its live calls, and a call keeps
\* its container in the map until it ends or the peer is disconnected: sweep
\* and the container cap never remove one under a live call.
LiveAccounting ==
  \A e \in Epoch :
    LET own == {s \in Sid : <<e, s>> \in live}
    IN  IF Known(e) THEN ps[e].live = Cardinality(own) ELSE own = {}

\* A peer that keeps coming back with new incarnations costs a bounded number of
\* containers: eviction of one idle container per creation is enough, although
\* any number of them may turn idle at once.
PeersBounded ==
  Cardinality({e \in Epoch : Known(e)}) <= MaxDeadPeers + MaxLiveCalls

\* tombBytes is the size of what the tombstones store, and both tombstone caps
\* hold after every step.
TombsBounded ==
  \A e \in Epoch : Known(e) =>
    LET p == ps[e]
    IN  /\ p.bytes = Bytes(p, Tombed(p))
        /\ p.bytes <= MaxTombBytes
        /\ Cardinality(Tombed(p)) <= MaxTombs

\* Every live call of a container whose peer is lost has been cancelled and
\* will send nothing; no call slips under a dead mark that sweep skips.
DeadMeansCancelled ==
  \A k \in live : ps[k[1]].dead => k \in cancelled \cap suppress

\* Once stop or gracefulStop has resolved no handler runs, ever again, not even
\* one whose peer was disconnected.
StoppedMeansDone == returned => live = {} /\ orphans = 0

\* stop resolves: every handler it waits for has been told to end, by stop or
\* by the disconnectPeer that took the handler's slot out of stop's reach.
StopTerminates == closed ~> returned

\* The code's claim for the entry cap ("Only the stored replay is lost"): the
\* floor covers only calls this container has answered.
OnlyReplayLost ==
  \A e \in Epoch : Known(e) => \A s \in Sid : s <= ps[e].floor => s \in seen[e]

\* The documented guarantee ("within one incarnation execution is strictly
\* at-most-once"), with no exception for a collected container.
StrictlyAtMostOnce == \A k \in Key : execs[k] <= 1
=============================================================================
