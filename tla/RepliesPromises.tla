-------------------------- MODULE RepliesPromises ---------------------------
(***************************************************************************)
(* What the server promises about its replies on an unreliable channel, in *)
(* terms of the state the promises are about; module Replies is the server.*)
(***************************************************************************)
EXTENDS Integers, FiniteSets

CONSTANTS
  Peer,         \* transport peers
  Keys,         \* call keys, (epoch, sid)
  RTI,          \* timing.retransmitMs, in ticks
  MaxPending,   \* limits.maxPendingResets
  MaxReplies    \* limits.maxRepliesPerRTI

\* resolveLimits puts the default in the place of a limit that is not positive;
\* an RTI is at least one tick of the clock.
ASSUME RepliesLimits ==
  MaxPending \in Nat \ {0} /\ MaxReplies \in Nat \ {0} /\ RTI \in Nat \ {0}

VARIABLES
  slots,      \* the peers with a PeerSlot
  pending,    \* PeerSlot.pendingResets: when the RESET is due
  resetAt,    \* PeerSlot.resetAt: when the last immediate RESET was sent
  budget,     \* PeerSlot.replyBudget
  totals,     \* pendingResetTotal, resetAtTotal, replyBudgetTotal
  armed,      \* the sweeper's timer runs
  stopped,    \* Sweeper.stop has been called
  log,        \* the replies sent to a peer in this and the a last ticks (history)
  cuts        \* the times disconnectPeer took the peer's slot in those ticks (history)

\* The absent entry of a map of times, and of the budget.
None == -1
NoBudget == [start |-> None, n |-> 0]

RepliesTo(p) == log[p][RTI - 1]

\* Whatever mix of probes, duplicates, stragglers and held RESETs a peer draws,
\* it gets fewer than twice maxRepliesPerRTI replies in any interval of one RTI:
\* what is left of one full budget window after its first reply, and the next
\* window (allowReply). Each disconnectPeer in the interval adds one window more:
\* the budget goes with the slot, and a peer that comes back under the same key
\* starts a new one. The sweep, which also drops budgets and slots, adds none.
RepliesBounded ==
  \A p \in Peer : RepliesTo(p) < (2 + cuts[p][RTI - 1]) * MaxReplies

EntriesOf(m) == {c \in slots \X Keys : m[c[1]][c[2]] # None}

\* The server-wide counters agree with the entries of the slots there are, and
\* the entries with their bound, through opens, sweeps and disconnects: a
\* counter that drifts would disable the replies, or the bound, for good.
TotalsExact ==
  /\ totals.pending = Cardinality(EntriesOf(pending))
  /\ totals.reset = Cardinality(EntriesOf(resetAt))
  /\ totals.budget = Cardinality({p \in slots : budget[p] # NoBudget})
  /\ \A t \in {totals.pending, totals.reset, totals.budget} : t \in 0..MaxPending

\* As long as a slot exists the sweeper runs (kick, hasWork): a RESET put off or
\* denied by the budget is not forgotten, and no slot stays behind for good.
SlotsAreSwept == slots # {} => armed \/ stopped
=============================================================================
