------------------------------ MODULE Replies ------------------------------
(***************************************************************************)
(* What the server answers, on an unreliable channel, to frames that start *)
(* no call (ts/src/server.ts): immediate and delayed RESETs, replays of    *)
(* stored terminals and of creation acks, the limits they share per        *)
(* transport peer and per server, and the sweeper that retires the state   *)
(* they leave (class Sweeper of ts/src/util.ts). Which calls are live or   *)
(* tombstoned is decided in module Server; here they come and go.          *)
(***************************************************************************)
EXTENDS RepliesPromises, FiniteSetsExt

CONSTANTS
  CallSets,     \* the sets of calls considered, pairs of a peer and a key
  TombTTL,      \* timing.tombstoneMs
  Hold,         \* timing.holdMs
  MaxNow,       \* ticks (bound of the model)
  MaxCuts       \* disconnects within one RTI (bound of the model)

VARIABLES
  calls,      \* the calls the peers send frames about, chosen once
  clock,      \* nowMs, in ticks
  status,     \* what the containers of a peer know of a call
  kept,       \* the peers with a container, which outlives its tombstones
  replayAt,   \* SrvTomb.lastReplay and ServerStream.hReplayAt
  sweeping    \* the slots the sweep in progress has still to visit

repVars == <<calls, clock, slots, status, kept, replayAt, pending, resetAt, budget, totals,
             armed, sweeping, stopped, log, cuts>>

\* A tombstone's last replay, and a stream's, starts at 0, long before the first
\* tick.
LongAgo == -RTI

RepTypeOK ==
  /\ calls \in CallSets /\ clock \in 0..MaxNow
  /\ slots \subseteq Peer /\ kept \subseteq slots /\ sweeping \subseteq slots
  /\ status \in [Peer -> [Keys -> {"unknown", "live", "tomb", "keyonly"}]]
  /\ replayAt \in [Peer -> [Keys -> {LongAgo} \cup 0..MaxNow]]
  /\ pending \in [Peer -> [Keys -> {None} \cup 0..MaxNow + Hold]]
  /\ resetAt \in [Peer -> [Keys -> {None} \cup 0..MaxNow]]
  /\ budget \in [Peer -> [start : {None} \cup 0..MaxNow, n : 0..MaxReplies]]
  /\ totals \in [pending : Int, reset : Int, budget : Int]
  /\ armed \in BOOLEAN /\ stopped \in BOOLEAN
  /\ log \in [Peer -> [0..RTI - 1 -> Nat]] /\ cuts \in [Peer -> [0..RTI - 1 -> 0..MaxCuts]]

RepInit ==
  /\ calls \in CallSets /\ clock = 0
  /\ slots = {} /\ kept = {} /\ sweeping = {}
  /\ status = [p \in Peer |-> [k \in Keys |-> "unknown"]]
  /\ replayAt = [p \in Peer |-> [k \in Keys |-> LongAgo]]
  /\ pending = [p \in Peer |-> [k \in Keys |-> None]]
  /\ resetAt = [p \in Peer |-> [k \in Keys |-> None]]
  /\ budget = [p \in Peer |-> NoBudget]
  /\ totals = [pending |-> 0, reset |-> 0, budget |-> 0]
  /\ armed = FALSE /\ stopped = FALSE
  /\ log = [p \in Peer |-> [a \in 0..RTI - 1 |-> 0]] /\ cuts = log

\* A history a tick later.
Aged(h) == [p \in Peer |-> [a \in 0..RTI - 1 |-> IF a = 0 THEN 0 ELSE h[p][a - 1]]]

Tick ==
  /\ clock < MaxNow
  /\ clock' = clock + 1
  /\ log' = Aged(log) /\ cuts' = Aged(cuts)
  /\ UNCHANGED <<slots, status, kept, replayAt, pending, resetAt, budget, totals,
                 armed, stopped>>

-----------------------------------------------------------------------------
(***************************************************************************)
(* The reply budget of a peer, as allowReply finds and leaves it.          *)
(***************************************************************************)
Entries(m) == {k \in Keys : m[k] # None}

\* The budget allowReply works on: created on first use, unless there are too
\* many, and started over once its window has passed.
BudgetDenied(p) == budget[p] = NoBudget /\ totals.budget >= MaxPending

\* Mutant: every reply starts a window of its own.
BudgetNowUncounted(p) == [start |-> clock, n |-> 0]

BudgetNow(p) ==
  IF budget[p] = NoBudget \/ clock - budget[p].start >= RTI
  THEN [start |-> clock, n |-> 0] ELSE budget[p]

\* How many replies allowReply would grant p in a row.
Room(p) == IF BudgetDenied(p) THEN 0 ELSE MaxReplies - BudgetNow(p).n

NewBudgets(p) == IF budget[p] = NoBudget /\ ~BudgetDenied(p) THEN 1 ELSE 0

\* A history with n more events of p in this tick.
Added(h, p, n) == [h EXCEPT ![p] = [a \in 0..RTI - 1 |-> h[p][a] + n]]

Spent(p, n) == [BudgetNow(p) EXCEPT !.n = @ + n]

Logged(p, n) == Added(log, p, n)

\* allowReply, asked often enough to grant n replies.
Spend(p, n) ==
  /\ budget' = IF BudgetDenied(p) THEN budget ELSE [budget EXCEPT ![p] = Spent(p, n)]
  /\ log' = Logged(p, n)

allowReply(p) ==
  /\ Spend(p, IF Room(p) > 0 THEN 1 ELSE 0)
  /\ totals' = [totals EXCEPT !.budget = @ + NewBudgets(p)]

NoReply == UNCHANGED <<budget, log>>

\* Sweeper.kick, from kickSweep: nothing here is reliable.
kick == armed' = (armed \/ ~stopped)

-----------------------------------------------------------------------------
(***************************************************************************)
(* Server.handle and its replies.                                          *)
(***************************************************************************)

\* sendReset: one per key and RTI, a bounded number of keys, and the budget.
sendReset(p, k) ==
  /\ slots' = slots \cup {p}
  /\ IF \/ resetAt[p][k] # None /\ clock - resetAt[p][k] < RTI
        \/ resetAt[p][k] = None /\ totals.reset >= MaxPending
     THEN UNCHANGED <<resetAt, budget, log, totals, armed>>
     ELSE /\ Spend(p, IF Room(p) > 0 THEN 1 ELSE 0)
          /\ resetAt' = IF Room(p) > 0 THEN [resetAt EXCEPT ![p][k] = clock] ELSE resetAt
          /\ totals' = [totals EXCEPT !.budget = @ + NewBudgets(p),
                                      !.reset = @ + IF Room(p) > 0 /\ resetAt[p][k] = None
                                                    THEN 1 ELSE 0]
          /\ IF Room(p) > 0 THEN kick ELSE UNCHANGED armed
  /\ UNCHANGED <<clock, status, kept, replayAt, pending, stopped, cuts>>

\* A probe of a call that is unknown or left only its key, or an OPEN that is
\* stale or finds the server draining.
ResetNow(p, k) == status[p][k] \in {"unknown", "keyonly"} /\ sendReset(p, k)

\* A frame or a probe for a tombstone with a stored terminal: replayDue, the
\* budget, replayTomb.
replayTomb(p, k) ==
  /\ status[p][k] = "tomb"
  /\ IF clock - replayAt[p][k] >= RTI
     THEN /\ allowReply(p)
          /\ replayAt' = IF Room(p) > 0 THEN [replayAt EXCEPT ![p][k] = clock] ELSE replayAt
     ELSE NoReply /\ UNCHANGED <<totals, replayAt>>
  /\ UNCHANGED <<clock, slots, status, kept, pending, resetAt, armed, stopped, cuts>>

\* A duplicate OPEN of a live call: replayH spends its interval before it asks
\* for the budget.
replayH(p, k) ==
  /\ status[p][k] = "live"
  /\ IF clock - replayAt[p][k] >= RTI
     THEN allowReply(p) /\ replayAt' = [replayAt EXCEPT ![p][k] = clock]
     ELSE NoReply /\ UNCHANGED <<totals, replayAt>>
  /\ UNCHANGED <<clock, slots, status, kept, pending, resetAt, armed, stopped, cuts>>

\* A frame for an unknown call that is no OPEN: its OPEN may merely be late, so
\* the RESET is put off.
HoldReset(p, k) ==
  /\ status[p][k] = "unknown"
  /\ slots' = slots \cup {p}
  /\ IF pending[p][k] = None /\ totals.pending < MaxPending
     THEN /\ pending' = [pending EXCEPT ![p][k] = clock + Hold]
          /\ totals' = [totals EXCEPT !.pending = @ + 1]
     ELSE UNCHANGED <<pending, totals>>
  /\ kick
  /\ NoReply
  /\ UNCHANGED <<clock, status, kept, replayAt, resetAt, stopped, cuts>>

\* A call becomes known with status st, in a container.
Becomes(p, k, st) ==
  /\ status' = [status EXCEPT ![p][k] = st]
  /\ slots' = slots \cup {p} /\ kept' = kept \cup {p}
  /\ replayAt' = [replayAt EXCEPT ![p][k] = LongAgo]
  /\ kick
  /\ NoReply
  /\ UNCHANGED <<clock, resetAt, stopped, cuts>>

\* Mutant: the entry goes without being counted out.
openUncounted(p, k) ==
  /\ status[p][k] = "unknown"
  /\ pending' = [pending EXCEPT ![p][k] = None]
  /\ Becomes(p, k, "live") /\ UNCHANGED totals

\* open: the OPEN arrived after all, and the RESET held for it is dropped.
open(p, k) ==
  /\ status[p][k] = "unknown"
  /\ pending' = [pending EXCEPT ![p][k] = None]
  /\ totals' = [totals EXCEPT !.pending = @ - IF pending[p][k] = None THEN 0 ELSE 1]
  /\ Becomes(p, k, "live")

\* rejectOpen leaves the held RESET to the sweep, which finds the tombstone.
rejectOpen(p, k) ==
  /\ status[p][k] = "unknown"
  /\ Becomes(p, k, "tomb")
  /\ UNCHANGED <<pending, totals>>

\* finish: a tombstone with the terminal, or with the key only.
finish(p, k) ==
  /\ status[p][k] = "live"
  /\ \E st \in {"tomb", "keyonly"} : Becomes(p, k, st)
  /\ UNCHANGED <<pending, totals>>

-----------------------------------------------------------------------------
(***************************************************************************)
(* The sweep: for each slot delayed RESETs, the prunings, the containers.  *)
(* Nothing of Server runs between the slots of one sweep.                  *)
(***************************************************************************)

\* Held RESETs of calls that have become known are dropped.
Moot(p) == {k \in Keys : pending[p][k] # None /\ clock >= pending[p][k]
                        /\ status[p][k] # "unknown"}
Due(p) == {k \in Keys : pending[p][k] # None /\ clock >= pending[p][k]
                       /\ status[p][k] = "unknown"}

\* The RESETs sent: as many as the budget has room for; the others are kept.
Fired(p) == {F \in SUBSET Due(p) :
               Cardinality(F) = Min({Cardinality(Due(p)), Room(p)})}

StaleResets(p) == {k \in Keys : resetAt[p][k] # None /\ clock - resetAt[p][k] > TombTTL}

\* The tombstones that expire in this sweep are any that are left.
Expired(p) == {k \in Keys : status[p][k] \in {"tomb", "keyonly"}}

\* The budget after the RESETs of F and the pruning of an old one.
Asked(p) == Due(p) # {} /\ ~BudgetDenied(p)
BudgetAfter(p, F) ==
  LET spent == IF Asked(p) THEN Spent(p, Cardinality(F)) ELSE budget[p]
  IN  IF spent # NoBudget /\ clock - spent.start > TombTTL THEN NoBudget ELSE spent

\* The slot holds nothing any more.
Emptied(p, F) ==
  /\ p \notin kept'
  /\ Entries(pending[p]) \subseteq Moot(p) \cup F
  /\ Entries(resetAt[p]) \subseteq StaleResets(p)
  /\ BudgetAfter(p, F) = NoBudget

\* Mutant: the budgets are forgotten.
hasWorkButBudgets == totals'.pending > 0 \/ totals'.reset > 0 \/ kept' # {}

\* hasWork: a counter, or an unreliable container.
hasWork ==
  totals'.pending > 0 \/ totals'.reset > 0 \/ totals'.budget > 0 \/ kept' # {}

\* The timer fires.
SweepStarts ==
  /\ armed
  /\ sweeping' = slots
  /\ armed' = (slots # {})
  /\ UNCHANGED <<clock, slots, status, kept, replayAt, pending, resetAt, budget,
                 totals, stopped, log, cuts>>

\* The sweep's turn of slot p; after the last slot the timer is cleared unless
\* there is work left.
sweep(p) ==
  /\ p \in sweeping
  /\ sweeping' = sweeping \ {p}
  /\ \E F \in Fired(p), E \in SUBSET Expired(p) :
       /\ pending' = [pending EXCEPT ![p] =
                       [k \in Keys |-> IF k \in Moot(p) \cup F THEN None ELSE @[k]]]
       /\ resetAt' = [resetAt EXCEPT ![p] =
                       [k \in Keys |-> IF k \in StaleResets(p) THEN None ELSE @[k]]]
       /\ status' = [status EXCEPT ![p] =
                       [k \in Keys |-> IF k \in E THEN "unknown" ELSE @[k]]]
       /\ budget' = [budget EXCEPT ![p] = BudgetAfter(p, F)]
       /\ log' = Logged(p, Cardinality(F))
       /\ totals' = [pending |-> totals.pending - Cardinality(Moot(p) \cup F),
                     reset |-> totals.reset - Cardinality(StaleResets(p)),
                     budget |-> totals.budget
                       + (IF BudgetAfter(p, F) = NoBudget THEN 0 ELSE 1)
                       - (IF budget[p] = NoBudget THEN 0 ELSE 1)]
       /\ \/ kept' = kept
          \/ kept' = kept \ {p} /\ \A k \in Keys : status'[p][k] = "unknown"
       /\ slots' = IF Emptied(p, F) THEN slots \ {p} ELSE slots
  /\ armed' = IF sweeping' = {} THEN hasWork ELSE armed
  /\ UNCHANGED <<clock, replayAt, stopped, cuts>>

\* disconnectPeer: the slot goes, and its share of the totals with it.
disconnectPeer(p) ==
  /\ p \in slots /\ \A q \in Peer : cuts[q][RTI - 1] < MaxCuts
  /\ slots' = slots \ {p} /\ kept' = kept \ {p}
  /\ status' = [status EXCEPT ![p] = [k \in Keys |-> "unknown"]]
  /\ totals' = [pending |-> totals.pending - Cardinality(Entries(pending[p])),
                reset |-> totals.reset - Cardinality(Entries(resetAt[p])),
                budget |-> totals.budget - IF budget[p] = NoBudget THEN 0 ELSE 1]
  /\ pending' = [pending EXCEPT ![p] = [k \in Keys |-> None]]
  /\ resetAt' = [resetAt EXCEPT ![p] = [k \in Keys |-> None]]
  /\ budget' = [budget EXCEPT ![p] = NoBudget]
  /\ cuts' = Added(cuts, p, 1)
  /\ UNCHANGED <<clock, replayAt, armed, stopped, log>>

\* stop, once the handlers are gone.
stop ==
  /\ ~stopped
  /\ \A p \in Peer, k \in Keys : status[p][k] # "live"
  /\ stopped' = TRUE /\ armed' = FALSE
  /\ UNCHANGED <<clock, slots, status, kept, replayAt, pending, resetAt, budget,
                 totals, log, cuts>>

Handle(p, k) ==
  \/ ResetNow(p, k) \/ replayTomb(p, k) \/ replayH(p, k) \/ HoldReset(p, k)
  \/ open(p, k) \/ rejectOpen(p, k) \/ finish(p, k)

RepNext ==
  /\ UNCHANGED calls
  /\ \/ \E p \in Peer : sweep(p)
     \/ sweeping = {} /\ SweepStarts
     \/ /\ sweeping = {} /\ UNCHANGED sweeping
        /\ \/ Tick \/ stop
           \/ \E p \in Peer : disconnectPeer(p)
           \/ \E c \in calls : Handle(c[1], c[2])

RepSpec == RepInit /\ [][RepNext]_repVars

=============================================================================
