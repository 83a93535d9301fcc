--------------------------- MODULE RepliesProofs ----------------------------
(***************************************************************************)
(* Theorems about the server's replies on an unreliable channel, for any   *)
(* set of peers and keys and for any limits.                               *)
(***************************************************************************)
EXTENDS Replies, FiniteSetTheorems, TLAPS

-----------------------------------------------------------------------------
(***************************************************************************)
(* The reply budget. A window opens with a reply, so the replies of the    *)
(* last a + 1 ticks are fewer than the current window's and one full       *)
(* window's, and a full window's for each disconnect in those ticks; those *)
(* younger than the current window fit in that window, its first reply     *)
(* left out.                                                               *)
(***************************************************************************)
BudgetRec == [start : Nat \cup {None}, n : Nat]
Log == [0..RTI - 1 -> Nat]

\* What the disconnects x of the last a + 1 ticks add.
CutWindows(x, a) == x[a] * MaxReplies

BudgetWithin(b, c) ==
  b.n <= MaxReplies /\ (b.start = None => b = NoBudget) /\ b.start <= c

BudgetFits(b, c) == BudgetWithin(b, c) /\ (b # NoBudget => b.n > 0)

LogFits(l, x, b, c) ==
  \A a \in 0..RTI - 1 :
    /\ l[a] <= b.n + (MaxReplies - 1) + CutWindows(x, a)
    /\ b # NoBudget /\ a < c - b.start => l[a] <= b.n - 1

BInv ==
  /\ clock \in Nat
  /\ budget \in [Peer -> BudgetRec]
  /\ log \in [Peer -> Log] /\ cuts \in [Peer -> Log]
  /\ \A p \in Peer : /\ BudgetFits(budget[p], clock)
                     /\ LogFits(log[p], cuts[p], budget[p], clock)

LEMMA CutsAreNat ==
  ASSUME NEW x \in Log, NEW a \in 0..RTI - 1
  PROVE  CutWindows(x, a) \in Nat
<1>1. x[a] \in Nat
  BY DEF Log
<1> QED
  BY <1>1, RepliesLimits DEF CutWindows

LEMMA LogAdds ==
  ASSUME NEW l \in Log, NEW n \in Nat
  PROVE  /\ [a \in 0..RTI - 1 |-> l[a] + n] \in Log
         /\ n = 0 => [a \in 0..RTI - 1 |-> l[a] + n] = l
<1>1. \A a \in 0..RTI - 1 : l[a] \in Nat /\ l[a] + n \in Nat /\ l[a] + 0 = l[a]
  BY DEF Log
<1> QED
  BY <1>1 DEF Log

LEMMA NoBudgetFits ==
  ASSUME NEW c \in Nat
  PROVE  NoBudget \in BudgetRec /\ BudgetFits(NoBudget, c)
  BY RepliesLimits DEF NoBudget, BudgetRec, BudgetFits, BudgetWithin, None

\* A window that started at least an RTI ago leaves at most its own replies in
\* sight.
LEMMA OldWindow ==
  ASSUME NEW c \in Nat, NEW b \in BudgetRec, NEW l \in Log, NEW x \in Log,
         BudgetWithin(b, c), LogFits(l, x, b, c),
         b = NoBudget \/ c - b.start >= RTI
  PROVE  \A a \in 0..RTI - 1 : l[a] <= (MaxReplies - 1) + CutWindows(x, a)
<1> TAKE a \in 0..RTI - 1
<1>1. /\ l[a] \in Nat /\ b.n \in Nat /\ (b.start = None \/ b.start \in Nat)
      /\ CutWindows(x, a) \in Nat
  BY CutsAreNat DEF Log, BudgetRec
<1>2. CASE b = NoBudget
  <2>1. b.n = 0 /\ l[a] <= b.n + (MaxReplies - 1) + CutWindows(x, a)
    BY <1>2 DEF LogFits, NoBudget
  <2> QED
    BY <1>1, <2>1, RepliesLimits
<1>3. CASE b # NoBudget /\ c - b.start >= RTI
  <2>1. b.start \in Nat
    BY <1>1, <1>3 DEF BudgetWithin
  <2>2. a < c - b.start
    BY <1>3, <2>1, RepliesLimits
  <2>3. l[a] <= b.n - 1 /\ b.n <= MaxReplies
    BY <1>3, <2>2 DEF LogFits, BudgetWithin
  <2> QED
    BY <1>1, <2>3, RepliesLimits
<1> QED
  BY <1>2, <1>3

LEMMA BudgetNowFits ==
  ASSUME BInv, NEW p \in Peer
  PROVE  /\ BudgetNow(p) \in BudgetRec
         /\ BudgetNow(p).start \in Nat
         /\ BudgetWithin(BudgetNow(p), clock)
         /\ LogFits(log[p], cuts[p], BudgetNow(p), clock)
<1>1. /\ budget[p] \in BudgetRec /\ log[p] \in Log /\ cuts[p] \in Log /\ clock \in Nat
      /\ BudgetWithin(budget[p], clock) /\ LogFits(log[p], cuts[p], budget[p], clock)
  BY DEF BInv, BudgetFits
<1>2. CASE budget[p] = NoBudget \/ clock - budget[p].start >= RTI
  <2> DEFINE b == [start |-> clock, n |-> 0]
  <2>1. BudgetNow(p) = b
    BY <1>2 DEF BudgetNow
  <2>2. b \in BudgetRec /\ b.start \in Nat /\ BudgetWithin(b, clock)
    BY <1>1, RepliesLimits DEF BudgetRec, BudgetWithin, None
  <2>3. \A a \in 0..RTI - 1 : log[p][a] <= (MaxReplies - 1) + CutWindows(cuts[p], a)
    BY <1>1, <1>2, OldWindow
  <2>4. \A a \in 0..RTI - 1 : CutWindows(cuts[p], a) \in Nat
    BY <1>1, CutsAreNat
  <2>5. LogFits(log[p], cuts[p], b, clock)
    BY <1>1, <2>3, <2>4, RepliesLimits DEF LogFits
  <2> QED
    BY <2>1, <2>2, <2>5
<1>3. CASE ~(budget[p] = NoBudget \/ clock - budget[p].start >= RTI)
  <2>1. BudgetNow(p) = budget[p]
    BY <1>3 DEF BudgetNow
  <2>2. budget[p].start \in Nat
    BY <1>1, <1>3 DEF BudgetWithin, BudgetRec
  <2> QED
    BY <1>1, <2>1, <2>2
<1> QED
  BY <1>2, <1>3

LEMMA SpentIs ==
  ASSUME BInv, NEW p \in Peer, NEW n \in Nat
  PROVE  /\ Spent(p, n) \in BudgetRec /\ Spent(p, n) # NoBudget
         /\ Spent(p, n).n = BudgetNow(p).n + n
         /\ Spent(p, n).start = BudgetNow(p).start
<1> DEFINE b == BudgetNow(p)
<1>1. b \in BudgetRec /\ b.start \in Nat /\ b.n \in Nat
  BY BudgetNowFits DEF BudgetRec
<1>2. /\ Spent(p, n) = [b EXCEPT !.n = b.n + n]
      /\ Spent(p, n).n = b.n + n /\ Spent(p, n).start = b.start
      /\ Spent(p, n) \in BudgetRec
  BY <1>1 DEF Spent, BudgetRec
<1> HIDE DEF b
<1>3. Spent(p, n) # NoBudget
  BY <1>1, <1>2 DEF NoBudget, None
<1> QED
  BY <1>2, <1>3 DEF b

\* allowReply leaves a window with a reply in it: a new one has room.
LEMMA SpentFits ==
  ASSUME BInv, NEW p \in Peer, NEW n \in Nat, n <= MaxReplies - BudgetNow(p).n,
         n > 0 \/ MaxReplies - BudgetNow(p).n = 0
  PROVE  /\ Spent(p, n) \in BudgetRec
         /\ BudgetFits(Spent(p, n), clock)
         /\ LogFits([a \in 0..RTI - 1 |-> log[p][a] + n], cuts[p], Spent(p, n), clock)
<1> DEFINE b == BudgetNow(p)
<1>1. /\ b \in BudgetRec /\ b.start \in Nat /\ b.n \in Nat /\ log[p] \in Log
      /\ BudgetWithin(b, clock) /\ LogFits(log[p], cuts[p], b, clock) /\ cuts[p] \in Log
  BY BudgetNowFits DEF BudgetRec, BInv
<1>2. /\ Spent(p, n) # NoBudget /\ Spent(p, n) \in BudgetRec
      /\ Spent(p, n).n = b.n + n /\ Spent(p, n).start = b.start
      /\ n <= MaxReplies - b.n /\ (n > 0 \/ MaxReplies - b.n = 0)
  BY SpentIs
<1> HIDE DEF b
<1>3. BudgetFits(Spent(p, n), clock)
  <2>1. Spent(p, n).n > 0 /\ Spent(p, n).n <= MaxReplies
    BY <1>1, <1>2, RepliesLimits
  <2> QED
    BY <1>1, <1>2, <2>1 DEF BudgetFits, BudgetWithin, None
<1>5. b # NoBudget
  BY <1>1 DEF NoBudget, None
<1>6. ASSUME NEW a \in 0..RTI - 1
      PROVE  /\ log[p][a] + n <= Spent(p, n).n + (MaxReplies - 1) + CutWindows(cuts[p], a)
             /\ a < clock - Spent(p, n).start => log[p][a] + n <= Spent(p, n).n - 1
  <2>1. log[p][a] \in Nat /\ CutWindows(cuts[p], a) \in Nat
    BY Zenon, <1>1, CutsAreNat DEF Log
  <2>2. /\ log[p][a] <= b.n + (MaxReplies - 1) + CutWindows(cuts[p], a)
        /\ a < clock - b.start => log[p][a] <= b.n - 1
    BY <1>1, <1>5 DEF LogFits
  <2> QED
    BY <1>1, <1>2, <2>1, <2>2, RepliesLimits
<1> QED
  BY <1>2, <1>3, <1>6 DEF LogFits

\* A reply, or several of one sweep, within what allowReply grants.
LEMMA SpendKeeps ==
  ASSUME BInv, NEW p \in Peer, NEW n \in Nat, n <= Room(p), n > 0 \/ Room(p) = 0,
         Spend(p, n), clock' = clock, cuts' = cuts
  PROVE  BInv'
<1>1. CASE BudgetDenied(p)
  <2>1. n = 0 /\ budget' = budget
    BY <1>1 DEF Room, Spend
  <2>2. log' = log
    <3>1. log[p] \in Log /\ log \in [Peer -> Log]
      BY DEF BInv
    <3>2. [a \in 0..RTI - 1 |-> log[p][a] + n] = log[p]
      BY Zenon, <2>1, <3>1, LogAdds
    <3>3. log' = [log EXCEPT ![p] = log[p]]
      BY Zenon, <3>2 DEF Spend, Logged, Added
    <3> QED
      BY <3>1, <3>3
  <2> QED
    BY <2>1, <2>2 DEF BInv
<1>2. CASE ~BudgetDenied(p)
  <2> DEFINE b == Spent(p, n)
             l == [a \in 0..RTI - 1 |-> log[p][a] + n]
  <2>1. /\ n <= MaxReplies - BudgetNow(p).n
        /\ n > 0 \/ MaxReplies - BudgetNow(p).n = 0
    BY <1>2 DEF Room
  <2>2. b \in BudgetRec /\ BudgetFits(b, clock) /\ LogFits(l, cuts[p], b, clock)
    BY <2>1, SpentFits
  <2>3. l \in Log
    BY LogAdds DEF BInv
  <2>4. budget' = [budget EXCEPT ![p] = b] /\ log' = [log EXCEPT ![p] = l]
    BY <1>2 DEF Spend, Logged, Added
  <2> HIDE DEF b, l
  <2> QED
    BY <2>2, <2>3, <2>4 DEF BInv
<1> QED
  BY <1>1, <1>2

\* A history a tick later.
LEMMA AgedLog ==
  ASSUME NEW h \in [Peer -> Log]
  PROVE  /\ Aged(h) \in [Peer -> Log]
         /\ \A p \in Peer, a \in 0..RTI - 1 :
              /\ a = 0 => Aged(h)[p][a] = 0
              /\ a # 0 => /\ a - 1 \in 0..RTI - 1 /\ h[p][a - 1] \in Nat
                          /\ Aged(h)[p][a] = h[p][a - 1]
<1>1. ASSUME NEW p \in Peer, NEW a \in 0..RTI - 1
      PROVE  a # 0 => a - 1 \in 0..RTI - 1 /\ h[p][a - 1] \in Nat
  BY RepliesLimits DEF Log
<1>2. Aged(h) \in [Peer -> Log]
  BY <1>1 DEF Aged, Log
<1> QED
  BY <1>1, <1>2 DEF Aged

LEMMA TickKeeps ==
  ASSUME BInv, Tick
  PROVE  BInv'
<1>1. /\ clock' = clock + 1 /\ clock \in Nat /\ budget' = budget
      /\ log' = Aged(log) /\ cuts' = Aged(cuts)
      /\ log \in [Peer -> Log] /\ cuts \in [Peer -> Log]
  BY DEF Tick, BInv
<1>2. log' \in [Peer -> Log] /\ cuts' \in [Peer -> Log]
  BY <1>1, AgedLog
<1>5. ASSUME NEW p \in Peer
      PROVE  /\ BudgetFits(budget[p], clock + 1)
             /\ LogFits(log'[p], cuts'[p], budget[p], clock + 1)
  <2>1. /\ budget[p] \in BudgetRec /\ log[p] \in Log /\ cuts[p] \in Log
        /\ BudgetFits(budget[p], clock) /\ LogFits(log[p], cuts[p], budget[p], clock)
    BY DEF BInv
  <2>2. /\ budget[p].n \in Nat /\ budget[p].start \in Int
        /\ (budget[p] # NoBudget => budget[p].start \in Nat /\ budget[p].n > 0)
    BY <2>1 DEF BudgetRec, BudgetFits, BudgetWithin, None
  <2>3. BudgetFits(budget[p], clock + 1)
    BY <1>1, <2>1, <2>2 DEF BudgetFits, BudgetWithin
  <2>4. ASSUME NEW a \in 0..RTI - 1
        PROVE  /\ log'[p][a] <= budget[p].n + (MaxReplies - 1) + CutWindows(cuts'[p], a)
               /\ budget[p] # NoBudget /\ a < (clock + 1) - budget[p].start
                    => log'[p][a] <= budget[p].n - 1
    <3>0. CutWindows(cuts'[p], a) \in Nat
      BY <1>2, CutsAreNat
    <3>1. CASE a = 0
      <4>1. log'[p][a] = 0
        BY <1>1, <3>1, AgedLog
      <4> QED
        BY <2>2, <3>0, <4>1, RepliesLimits
    <3>2. CASE a # 0
      <4>1. a - 1 \in 0..RTI - 1 /\ log[p][a - 1] \in Nat /\ log'[p][a] = log[p][a - 1]
        BY <1>1, <3>2, AgedLog
      <4>2. CutWindows(cuts'[p], a) = CutWindows(cuts[p], a - 1)
        BY <1>1, <3>2, AgedLog DEF CutWindows
      <4>3. /\ log[p][a - 1] <= budget[p].n + (MaxReplies - 1) + CutWindows(cuts[p], a - 1)
            /\ budget[p] # NoBudget /\ a - 1 < clock - budget[p].start
                 => log[p][a - 1] <= budget[p].n - 1
        BY <2>1, <4>1 DEF LogFits
      <4> QED
        BY <1>1, <2>2, <4>1, <4>2, <4>3
    <3> QED
      BY <3>1, <3>2
  <2>5. LogFits(log'[p], cuts'[p], budget[p], clock + 1)
    BY <2>4 DEF LogFits
  <2> QED
    BY <2>3, <2>5
<1> QED
  BY <1>1, <1>2, <1>5 DEF BInv

\* Pruning takes a budget whose window is over, if a tombstone outlives an RTI.
LEMMA BudgetAfterFits ==
  ASSUME TombTTL \in Nat, RTI - 1 <= TombTTL,
         BInv, NEW p \in Peer, NEW F, Cardinality(F) \in Nat, Cardinality(F) <= Room(p),
         ~Asked(p) => Cardinality(F) = 0,
         Asked(p) => Cardinality(F) > 0 \/ Room(p) = 0
  PROVE  /\ BudgetAfter(p, F) \in BudgetRec
         /\ BudgetFits(BudgetAfter(p, F), clock)
         /\ LogFits([a \in 0..RTI - 1 |-> log[p][a] + Cardinality(F)], cuts[p],
                    BudgetAfter(p, F), clock)
<1> DEFINE n == Cardinality(F)
           spent == IF Asked(p) THEN Spent(p, n) ELSE budget[p]
           l == [a \in 0..RTI - 1 |-> log[p][a] + n]
<1>0. /\ clock \in Nat /\ log[p] \in Log /\ l \in Log /\ cuts[p] \in Log
  BY Zenon, LogAdds DEF BInv
<1>1. spent \in BudgetRec /\ BudgetFits(spent, clock) /\ LogFits(l, cuts[p], spent, clock)
  <2>1. CASE Asked(p)
    <3>1. /\ n <= MaxReplies - BudgetNow(p).n
          /\ n > 0 \/ MaxReplies - BudgetNow(p).n = 0
      BY <2>1 DEF Asked, Room
    <3> QED
      BY <2>1, <3>1, SpentFits
  <2>2. CASE ~Asked(p)
    <3>1. l = log[p]
      BY Zenon, <1>0, <2>2, LogAdds
    <3> QED
      BY Zenon, <2>2, <3>1 DEF BInv
  <2> QED
    BY <2>1, <2>2
<1>2. BudgetAfter(p, F) = IF spent # NoBudget /\ clock - spent.start > TombTTL
                          THEN NoBudget ELSE spent
  BY DEF BudgetAfter
<1> HIDE DEF spent, l
<1>3. CASE spent # NoBudget /\ clock - spent.start > TombTTL
  <2>1. spent.start \in Nat
    BY <1>1, <1>3 DEF BudgetRec, BudgetFits, BudgetWithin
  <2>2. clock - spent.start >= RTI
    BY <1>0, <1>3, <2>1, RepliesLimits
  <2>3. \A a \in 0..RTI - 1 : l[a] <= (MaxReplies - 1) + CutWindows(cuts[p], a)
    BY <1>0, <1>1, <2>2, OldWindow DEF BudgetFits
  <2>4. \A a \in 0..RTI - 1 : l[a] \in Nat /\ CutWindows(cuts[p], a) \in Nat
    BY <1>0, CutsAreNat DEF Log
  <2>5. LogFits(l, cuts[p], NoBudget, clock)
    BY <2>3, <2>4, RepliesLimits DEF LogFits, NoBudget
  <2> QED
    BY <1>0, <1>2, <1>3, <2>5, NoBudgetFits DEF l
<1>4. CASE ~(spent # NoBudget /\ clock - spent.start > TombTTL)
  BY <1>1, <1>2, <1>4 DEF l
<1> QED
  BY <1>3, <1>4

-----------------------------------------------------------------------------
(***************************************************************************)
(* Counting entries. A slot that is gone has none, so the entries of all   *)
(* peers are those of the slots.                                           *)
(***************************************************************************)
Times == Nat \cup {None}
Maps == [Peer -> [Keys -> Times]]

All(m) == {c \in Peer \X Keys : m[c[1]][c[2]] # None}
Budgets(b) == {p \in Peer : b[p] # NoBudget}

Counts(S, n) == IsFiniteSet(S) /\ n = Cardinality(S) /\ n \in 0..MaxPending

CInv ==
  /\ Counts(All(pending), totals.pending)
  /\ Counts(All(resetAt), totals.reset)
  /\ Counts(Budgets(budget), totals.budget)

Put(m, p, k, t) == [m EXCEPT ![p][k] = t]
Without(m, p, D) == [m EXCEPT ![p] = [k \in Keys |-> IF k \in D THEN None ELSE m[p][k]]]

LEMMA EntrySet ==
  ASSUME NEW m \in Maps, NEW p \in Peer, NEW k \in Keys, NEW t \in Nat,
         IsFiniteSet(All(m))
  PROVE  /\ Put(m, p, k, t) \in Maps
         /\ IsFiniteSet(All(Put(m, p, k, t)))
         /\ Cardinality(All(Put(m, p, k, t)))
              = Cardinality(All(m)) + IF m[p][k] = None THEN 1 ELSE 0
<1> DEFINE m2 == Put(m, p, k, t)
<1>0. m2 = [m EXCEPT ![p][k] = t]
  BY DEF Put
<1> HIDE DEF m2
<1>1. m2 \in Maps
  BY <1>0 DEF Maps, Times
<1>2. /\ m2[p][k] = t /\ t # None
      /\ \A q \in Peer, j \in Keys : (q # p \/ j # k) => m2[q][j] = m[q][j]
  BY <1>0 DEF Maps, None
<1>3. <<p, k>> \in All(m) <=> m[p][k] # None
  BY DEF All
<1>4. All(m2) = All(m) \cup {<<p, k>>}
  BY <1>2 DEF All
<1>5. Cardinality(All(m)) \in Nat
  BY FS_CardinalityType
<1> DEFINE A == All(m) \cup {<<p, k>>}
<1>6. /\ IsFiniteSet(A)
      /\ Cardinality(A) = IF <<p, k>> \in All(m) THEN Cardinality(All(m))
                         ELSE Cardinality(All(m)) + 1
  BY Zenon, FS_AddElement
<1>7. All(m2) = A
  BY <1>4
<1> HIDE DEF A
<1>8. Cardinality(A) = Cardinality(All(m)) + IF m[p][k] = None THEN 1 ELSE 0
  BY <1>3, <1>5, <1>6
<1> QED
  BY <1>1, <1>6, <1>7, <1>8 DEF m2

LEMMA EntriesFinite ==
  ASSUME NEW m \in Maps, NEW p \in Peer, NEW D \in SUBSET Entries(m[p]), IsFiniteSet(All(m))
  PROVE  IsFiniteSet(D) /\ Cardinality({p} \X D) = Cardinality(D) /\ {p} \X D \subseteq All(m)
<1> DEFINE f == [k \in D |-> <<p, k>>]
<1>1. D \subseteq Keys /\ \A k \in D : <<p, k>> \in All(m)
  BY DEF Entries, All
<1>2. f \in Injection(D, All(m))
  BY <1>1 DEF Injection, IsInjective
<1>3. IsFiniteSet(D)
  BY <1>2, FS_Injection
<1>4. Cardinality({p} \X D) = Cardinality({p}) * Cardinality(D) /\ Cardinality({p}) = 1
  BY <1>3, FS_Product, FS_Singleton
<1>5. Cardinality(D) \in Nat
  BY <1>3, FS_CardinalityType
<1> QED
  BY <1>1, <1>3, <1>4, <1>5

LEMMA EntriesDrop ==
  ASSUME NEW m \in Maps, NEW p \in Peer, NEW D \in SUBSET Entries(m[p]), IsFiniteSet(All(m))
  PROVE  /\ Without(m, p, D) \in Maps
         /\ IsFiniteSet(D) /\ IsFiniteSet(All(Without(m, p, D)))
         /\ Cardinality(All(Without(m, p, D))) = Cardinality(All(m)) - Cardinality(D)
         /\ Cardinality(All(Without(m, p, D))) \in Nat
         /\ Cardinality(All(Without(m, p, D))) <= Cardinality(All(m))
<1> DEFINE m2 == Without(m, p, D)
<1>0. m2 = [m EXCEPT ![p] = [k \in Keys |-> IF k \in D THEN None ELSE m[p][k]]]
  BY DEF Without
<1> HIDE DEF m2
<1>1. m2 \in Maps
  BY <1>0 DEF Maps, Times
<1>2. /\ \A j \in Keys : m2[p][j] = IF j \in D THEN None ELSE m[p][j]
      /\ \A q \in Peer : q # p => m2[q] = m[q]
  BY <1>0 DEF Maps
<1>3. IsFiniteSet(D) /\ Cardinality({p} \X D) = Cardinality(D) /\ {p} \X D \subseteq All(m)
  BY EntriesFinite
<1>4. All(m2) = All(m) \ ({p} \X D)
  BY <1>2 DEF All
<1>5. All(m) \cap ({p} \X D) = {p} \X D
  BY <1>3
<1>6. /\ IsFiniteSet(All(m2))
      /\ Cardinality(All(m2)) = Cardinality(All(m)) - Cardinality(D)
  <2> DEFINE P == {p} \X D
  <2>1. All(m2) = All(m) \ P /\ All(m) \cap P = P /\ Cardinality(P) = Cardinality(D)
    BY <1>3, <1>4, <1>5
  <2> HIDE DEF P
  <2>2. /\ IsFiniteSet(All(m) \ P)
        /\ Cardinality(All(m) \ P) = Cardinality(All(m)) - Cardinality(All(m) \cap P)
    BY FS_Difference
  <2> QED
    BY <2>1, <2>2
<1>7. Cardinality(All(m2)) \in Nat /\ Cardinality(All(m)) \in Nat /\ Cardinality(D) \in Nat
  BY <1>3, <1>6, FS_CardinalityType
<1> QED
  BY <1>1, <1>3, <1>6, <1>7 DEF m2

\* What a reply does to the number of budgets.
LEMMA SpendCounts ==
  ASSUME BInv, Counts(Budgets(budget), totals.budget), NEW p \in Peer,
         NEW n \in Nat, n <= Room(p), Spend(p, n)
  PROVE  /\ NewBudgets(p) \in {0, 1}
         /\ Counts(Budgets(budget'), totals.budget + NewBudgets(p))
         /\ \A q \in Peer : q # p => budget'[q] = budget[q]
<1> DEFINE S == Budgets(budget)
<1>0. /\ IsFiniteSet(S) /\ totals.budget = Cardinality(S) /\ totals.budget \in 0..MaxPending
      /\ p \in S <=> budget[p] # NoBudget
  BY DEF Counts, Budgets
<1>1. CASE BudgetDenied(p)
  <2>1. NewBudgets(p) = 0 /\ budget' = budget
    BY <1>1 DEF NewBudgets, Spend
  <2>2. totals.budget + 0 = totals.budget
    BY <1>0, RepliesLimits
  <2> QED
    BY <2>1, <2>2
<1>2. CASE ~BudgetDenied(p)
  <2>1. budget' = [budget EXCEPT ![p] = Spent(p, n)]
    BY <1>2 DEF Spend
  <2>2. Spent(p, n) # NoBudget
    BY Zenon, SpentIs
  <2>3. Budgets(budget') = S \cup {p}
    BY <2>1, <2>2 DEF Budgets, BInv
  <2>4. /\ IsFiniteSet(S \cup {p})
        /\ Cardinality(S \cup {p}) = IF p \in S THEN Cardinality(S) ELSE Cardinality(S) + 1
    BY <1>0, FS_AddElement
  <2>5. CASE p \in S
    <3>1. NewBudgets(p) = 0 /\ S \cup {p} = S
      BY <1>0, <2>5 DEF NewBudgets
    <3>2. totals.budget + 0 = totals.budget
      BY <1>0, RepliesLimits
    <3> QED
      BY Zenon, <2>1, <2>3, <3>1, <3>2 DEF BInv
  <2>6. CASE p \notin S
    <3>1. NewBudgets(p) = 1 /\ totals.budget < MaxPending
      BY <1>0, <1>2, <2>6, RepliesLimits DEF NewBudgets, BudgetDenied
    <3>2. totals.budget + 1 \in 0..MaxPending
      BY <1>0, <3>1, RepliesLimits
    <3> QED
      BY Zenon, <1>0, <2>1, <2>3, <2>4, <2>6, <3>1, <3>2 DEF Counts, BInv
  <2> QED
    BY <2>5, <2>6
<1> QED
  BY <1>1, <1>2

-----------------------------------------------------------------------------
(***************************************************************************)
(* The invariant.                                                          *)
(***************************************************************************)
TInv ==
  /\ calls \subseteq Peer \X Keys
  /\ slots \subseteq Peer /\ kept \subseteq slots /\ sweeping \subseteq slots
  /\ status \in [Peer -> [Keys -> {"unknown", "live", "tomb", "keyonly"}]]
  /\ pending \in Maps /\ resetAt \in Maps
  /\ totals \in [pending : Int, reset : Int, budget : Int]
  /\ armed \in BOOLEAN /\ stopped \in BOOLEAN

\* What a slot holds, and a container.
Holds(q) ==
  Entries(pending[q]) # {} \/ Entries(resetAt[q]) # {} \/ budget[q] # NoBudget

\* Only slots hold something, and only containers know calls.
OInv ==
  /\ \A q \in Peer : Holds(q) => q \in slots
  /\ \A q \in Peer, k \in Keys : status[q][k] # "unknown" => q \in kept

\* The slots a sweep has left behind hold something.
SInv ==
  /\ SlotsAreSwept
  /\ sweeping # {} => \A q \in slots \ sweeping : q \in kept \/ Holds(q)

RInv == TInv /\ BInv /\ OInv /\ CInv /\ SInv

\* The constants of module Replies: the calls are pairs of a peer and a key, and
\* a tombstone outlives an RTI (by default thirty times).
Configured ==
  /\ CallSets \subseteq SUBSET (Peer \X Keys)
  /\ Hold \in Nat
  /\ TombTTL \in Nat /\ RTI - 1 <= TombTTL

LEMMA InvTotals == TInv /\ OInv /\ CInv => TotalsExact
<1> SUFFICES ASSUME TInv, OInv, CInv
             PROVE  TotalsExact
  OBVIOUS
<1>1. EntriesOf(pending) = All(pending)
  BY DEF EntriesOf, All, TInv, OInv, Holds, Entries
<1>2. EntriesOf(resetAt) = All(resetAt)
  BY DEF EntriesOf, All, TInv, OInv, Holds, Entries
<1>3. {p \in slots : budget[p] # NoBudget} = Budgets(budget)
  BY DEF Budgets, TInv, OInv, Holds
<1> QED
  BY <1>1, <1>2, <1>3 DEF CInv, Counts, TotalsExact

\* A counter that is not zero has a slot to it.
LEMMA SomeSlot ==
  ASSUME TInv, OInv, CInv,
         totals.pending > 0 \/ totals.reset > 0 \/ totals.budget > 0
  PROVE  slots # {}
<1>1. CASE totals.pending > 0
  <2>1. All(pending) # {}
    BY <1>1, FS_EmptySet DEF CInv, Counts
  <2> QED
    BY <2>1 DEF All, OInv, Holds, Entries
<1>2. CASE totals.reset > 0
  <2>1. All(resetAt) # {}
    BY <1>2, FS_EmptySet DEF CInv, Counts
  <2> QED
    BY <2>1 DEF All, OInv, Holds, Entries
<1>3. CASE totals.budget > 0
  <2>1. Budgets(budget) # {}
    BY <1>3, FS_EmptySet DEF CInv, Counts
  <2> QED
    BY <2>1 DEF Budgets, OInv, Holds
<1> QED
  BY <1>1, <1>2, <1>3

\* A slot that holds something is counted.
LEMMA Counted ==
  ASSUME NEW pd, NEW rs, NEW bd, NEW np, NEW nr, NEW nb, NEW q \in Peer,
         Counts(All(pd), np), Counts(All(rs), nr), Counts(Budgets(bd), nb),
         Entries(pd[q]) # {} \/ Entries(rs[q]) # {} \/ bd[q] # NoBudget
  PROVE  np > 0 \/ nr > 0 \/ nb > 0
<1>1. \A m : Entries(m[q]) # {} => All(m) # {}
  <2> TAKE m
  <2> HAVE Entries(m[q]) # {}
  <2>1. PICK k \in Keys : m[q][k] # None
    BY DEF Entries
  <2>2. <<q, k>> \in All(m)
    BY <2>1 DEF All
  <2> QED
    BY <2>2
<1>2. bd[q] # NoBudget => Budgets(bd) # {}
  BY DEF Budgets
<1>3. \A S, n : Counts(S, n) /\ S # {} => n > 0
  <2> TAKE S, n
  <2> HAVE Counts(S, n) /\ S # {}
  <2>1. Cardinality(S) # 0 /\ n = Cardinality(S) /\ n \in 0..MaxPending
    BY FS_EmptySet DEF Counts
  <2> QED
    BY <2>1, RepliesLimits
<1> QED
  BY <1>1, <1>2, <1>3

LEMMA RepInitInv == Configured /\ RepInit => RInv
<1> SUFFICES ASSUME Configured, RepInit
             PROVE  RInv
  OBVIOUS
<1>1. /\ \A p \in Peer : budget[p] = NoBudget
      /\ \A p \in Peer, k \in Keys : pending[p][k] = None /\ resetAt[p][k] = None
      /\ \A p \in Peer, a \in 0..RTI - 1 : log[p][a] = 0 /\ cuts[p][a] = 0
  BY DEF RepInit
<1>2. TInv
  <2>1. calls \subseteq Peer \X Keys
    BY DEF RepInit, Configured
  <2>2. pending \in Maps /\ resetAt \in Maps
    BY DEF RepInit, Maps, Times
  <2>3. totals \in [pending : Int, reset : Int, budget : Int]
    BY DEF RepInit
  <2> QED
    BY Zenon, <2>1, <2>2, <2>3 DEF TInv, RepInit
<1>3. BInv
  <2>2. /\ clock = 0 /\ budget = [p \in Peer |-> NoBudget]
        /\ log \in [Peer -> Log] /\ cuts \in [Peer -> Log]
    BY DEF RepInit, Log
  <2>1. \A p \in Peer : LogFits(log[p], cuts[p], NoBudget, 0)
    <3>1. \A p \in Peer, a \in 0..RTI - 1 : CutWindows(cuts[p], a) \in Nat
      BY <2>2, CutsAreNat
    <3> QED
      BY <1>1, <3>1, RepliesLimits DEF LogFits, NoBudget
  <2>3. NoBudget \in BudgetRec /\ BudgetFits(NoBudget, 0)
    BY NoBudgetFits
  <2> QED
    BY <2>1, <2>2, <2>3 DEF BInv
<1>4. OInv
  BY <1>1 DEF OInv, Holds, Entries, RepInit
<1>5. CInv
  <2>1. All(pending) = {} /\ All(resetAt) = {} /\ Budgets(budget) = {}
    BY <1>1 DEF All, Budgets
  <2>2. totals.pending = 0 /\ totals.reset = 0 /\ totals.budget = 0
    BY DEF RepInit
  <2> QED
    BY <2>1, <2>2, FS_EmptySet, RepliesLimits DEF CInv, Counts
<1>6. SInv
  BY DEF SInv, SlotsAreSwept, RepInit
<1> QED
  BY <1>2, <1>3, <1>4, <1>5, <1>6 DEF RInv

-----------------------------------------------------------------------------
(***************************************************************************)
(* The replies.                                                            *)
(***************************************************************************)
LEMMA RoomIsNat ==
  ASSUME BInv, NEW p \in Peer
  PROVE  /\ Room(p) \in Nat
         /\ (IF Room(p) > 0 THEN 1 ELSE 0) \in Nat
         /\ (IF Room(p) > 0 THEN 1 ELSE 0) <= Room(p)
         /\ (IF Room(p) > 0 THEN 1 ELSE 0) > 0 \/ Room(p) = 0
<1>1. BudgetNow(p).n \in Nat /\ BudgetNow(p).n <= MaxReplies
  BY BudgetNowFits DEF BudgetRec, BudgetWithin
<1>2. Room(p) \in Nat
  BY <1>1, RepliesLimits DEF Room
<1> QED
  BY <1>2

\* A reply that is denied is denied to, or because of, a slot.
LEMMA DeniedHasSlot ==
  ASSUME TInv, BInv, OInv, CInv, NEW p \in Peer, ~(Room(p) > 0)
  PROVE  slots # {}
<1>1. CASE BudgetDenied(p)
  <2>1. totals.budget > 0
    BY <1>1, RepliesLimits DEF BudgetDenied, CInv, Counts
  <2> QED
    BY <2>1, SomeSlot
<1>2. CASE ~BudgetDenied(p)
  <2>1. BudgetNow(p).n \in Nat /\ MaxReplies - BudgetNow(p).n <= 0
    BY <1>2, BudgetNowFits, RepliesLimits DEF Room, BudgetRec
  <2>2. BudgetNow(p).n # 0
    BY <2>1, RepliesLimits
  <2>3. budget[p] # NoBudget
    BY <2>2 DEF BudgetNow
  <2> QED
    BY <2>3 DEF OInv, Holds
<1> QED
  BY <1>1, <1>2

LEMMA ReplyKeeps ==
  ASSUME RInv, NEW p \in slots, allowReply(p) \/ (NoReply /\ UNCHANGED totals),
         UNCHANGED <<calls, clock, slots, status, kept, pending, resetAt, armed, stopped, cuts,
                     sweeping>>
  PROVE  RInv'
<1>1. CASE NoReply /\ UNCHANGED totals
  <2>1. TInv' /\ OInv'
    BY <1>1 DEF NoReply, RInv, TInv, OInv, Holds, Entries
  <2>2. BInv' /\ CInv'
    BY <1>1 DEF NoReply, RInv, BInv, CInv
  <2>3. SInv'
    BY <1>1 DEF NoReply, RInv, SInv, SlotsAreSwept, Holds, Entries
  <2> QED
    BY <2>1, <2>2, <2>3 DEF RInv
<1>2. CASE allowReply(p)
  <2> DEFINE n == IF Room(p) > 0 THEN 1 ELSE 0
  <2>0. p \in Peer /\ TInv /\ BInv /\ OInv /\ CInv /\ SInv
    BY DEF RInv, TInv
  <2>1. n \in Nat /\ n <= Room(p) /\ (n > 0 \/ Room(p) = 0)
    BY <2>0, RoomIsNat
  <2>2. Spend(p, n) /\ totals' = [totals EXCEPT !.budget = @ + NewBudgets(p)]
    BY <1>2 DEF allowReply
  <2> HIDE DEF n
  <2>3. BInv'
    BY <2>0, <2>1, <2>2, SpendKeeps
  <2>4. /\ NewBudgets(p) \in {0, 1}
        /\ Counts(Budgets(budget'), totals.budget + NewBudgets(p))
        /\ \A q \in Peer : q # p => budget'[q] = budget[q]
    BY <2>0, <2>1, <2>2, SpendCounts DEF CInv
  <2>5. /\ totals.pending \in Int /\ totals.reset \in Int /\ totals.budget \in Int
        /\ totals'.pending = totals.pending /\ totals'.reset = totals.reset
        /\ totals'.budget = totals.budget + NewBudgets(p)
        /\ totals' \in [pending : Int, reset : Int, budget : Int]
    BY <2>0, <2>2, <2>4 DEF TInv
  <2>6. TInv'
    BY <2>0, <2>5 DEF TInv
  <2>7. CInv'
    BY <2>0, <2>4, <2>5 DEF CInv
  <2>8. OInv'
    BY <2>0, <2>4 DEF OInv, Holds, Entries
  <2>9. SInv'
    <3>1. SlotsAreSwept'
      BY <2>0 DEF SInv, SlotsAreSwept
    <3>2. ASSUME sweeping # {}, NEW q \in slots \ sweeping
          PROVE  q \in kept \/ Holds(q)'
      <4>1. q \in Peer /\ (q \in kept \/ Holds(q))
        BY <2>0, <3>2 DEF SInv, TInv
      <4>2. CASE q # p
        BY Zenon, <2>4, <4>1, <4>2 DEF Holds, Entries
      <4>3. CASE q = p
        <5>1. budget[p] # NoBudget => budget'[p] # NoBudget
          BY Zenon, <2>0, <2>1, <2>2, SpentIs DEF Spend, BInv
        <5> QED
          BY <4>1, <4>3, <5>1 DEF Holds, Entries
      <4> QED
        BY <4>2, <4>3
    <3> QED
      BY <3>1, <3>2 DEF SInv
  <2> QED
    BY <2>3, <2>6, <2>7, <2>8, <2>9 DEF RInv
<1> QED
  BY <1>1, <1>2

LEMMA ReplayKeeps ==
  ASSUME RInv, NEW p \in Peer, NEW k \in Keys, replayTomb(p, k) \/ replayH(p, k),
         UNCHANGED <<calls, sweeping>>
  PROVE  RInv'
<1>1. p \in slots
  BY DEF replayTomb, replayH, RInv, OInv, TInv
<1>2. allowReply(p) \/ (NoReply /\ UNCHANGED totals)
  BY DEF replayTomb, replayH
<1>3. UNCHANGED <<calls, clock, slots, status, kept, pending, resetAt, armed, stopped, cuts,
                     sweeping>>
  BY DEF replayTomb, replayH
<1> QED
  BY <1>1, <1>2, <1>3, ReplyKeeps

\* The frame conditions of steps between two sweeps that only add to the slots.
LEMMA SlotAdded ==
  ASSUME RInv, NEW p \in Peer, sweeping = {}, sweeping' = sweeping,
         slots' = slots \cup {p}, armed' \in BOOLEAN, stopped' = stopped,
         armed' \/ stopped \/ (slots # {} /\ armed' = armed)
  PROVE  SInv'
  BY DEF RInv, SInv, SlotsAreSwept

LEMMA ResetKeeps ==
  ASSUME RInv, NEW p \in Peer, NEW k \in Keys, ResetNow(p, k),
         sweeping = {}, UNCHANGED <<calls, sweeping>>
  PROVE  RInv'
<1> DEFINE deny == \/ resetAt[p][k] # None /\ clock - resetAt[p][k] < RTI
                   \/ resetAt[p][k] = None /\ totals.reset >= MaxPending
           n == IF Room(p) > 0 THEN 1 ELSE 0
<1>0. /\ TInv /\ BInv /\ OInv /\ CInv /\ SInv
      /\ slots' = slots \cup {p}
      /\ UNCHANGED <<clock, status, kept, pending, stopped, calls, sweeping, cuts>>
  BY DEF RInv, ResetNow, sendReset
<1>1. CASE deny
  <2>1. UNCHANGED <<resetAt, budget, log, totals, armed>>
    BY <1>1 DEF ResetNow, sendReset
  <2>2. slots # {}
    <3>1. CASE resetAt[p][k] # None
      BY <1>0, <3>1 DEF OInv, Holds, Entries
    <3>2. CASE resetAt[p][k] = None /\ totals.reset >= MaxPending
      <4>1. totals.reset > 0
        BY <3>2, <1>0, RepliesLimits DEF CInv, Counts
      <4> QED
        BY <1>0, <4>1, SomeSlot
    <3> QED
      BY <1>1, <3>1, <3>2
  <2>3. SInv'
    BY <1>0, <2>1, <2>2, SlotAdded DEF TInv
  <2>4. TInv' /\ OInv'
    BY <1>0, <2>1 DEF TInv, OInv, Holds, Entries
  <2>5. BInv' /\ CInv'
    BY Zenon, <1>0, <2>1 DEF BInv, CInv
  <2> QED
    BY <2>3, <2>4, <2>5 DEF RInv
<1>2. CASE ~deny
  <2>1. /\ Spend(p, n)
        /\ resetAt' = IF Room(p) > 0 THEN [resetAt EXCEPT ![p][k] = clock] ELSE resetAt
        /\ totals' = [totals EXCEPT !.budget = @ + NewBudgets(p),
                                    !.reset = @ + IF Room(p) > 0 /\ resetAt[p][k] = None
                                                  THEN 1 ELSE 0]
        /\ IF Room(p) > 0 THEN kick ELSE UNCHANGED armed
    BY <1>2 DEF ResetNow, sendReset
  <2>2. n \in Nat /\ n <= Room(p) /\ (n > 0 \/ Room(p) = 0)
    BY <1>0, RoomIsNat
  <2> HIDE DEF n
  <2>3. BInv'
    BY <1>0, <2>1, <2>2, SpendKeeps
  <2>4. /\ NewBudgets(p) \in {0, 1}
        /\ Counts(Budgets(budget'), totals.budget + NewBudgets(p))
        /\ \A q \in Peer : q # p => budget'[q] = budget[q]
    BY <1>0, <2>1, <2>2, SpendCounts DEF CInv
  <2> DEFINE r == IF Room(p) > 0 /\ resetAt[p][k] = None THEN 1 ELSE 0
  <2>5. r \in {0, 1}
    OBVIOUS
  <2>6. /\ totals.pending \in Int /\ totals.reset \in Int /\ totals.budget \in Int
        /\ totals'.pending = totals.pending /\ totals'.reset = totals.reset + r
        /\ totals'.budget = totals.budget + NewBudgets(p)
        /\ totals' \in [pending : Int, reset : Int, budget : Int]
    <3> HIDE DEF r
    <3> DEFINE b == NewBudgets(p)
    <3>1. totals' = [totals EXCEPT !.budget = @ + b, !.reset = @ + r]
      BY <2>1 DEF r
    <3>2. b \in Int /\ r \in Int
      BY <2>4, <2>5
    <3> HIDE DEF b
    <3>4. totals \in [pending : Int, reset : Int, budget : Int]
      BY <1>0 DEF TInv
    <3>3. /\ totals.pending \in Int /\ totals.reset \in Int /\ totals.budget \in Int
          /\ totals'.pending = totals.pending /\ totals'.reset = totals.reset + r
          /\ totals'.budget = totals.budget + b
          /\ totals' \in [pending : Int, reset : Int, budget : Int]
      <4> DEFINE u == [totals EXCEPT !.budget = @ + b]
      <4>1. u \in [pending : Int, reset : Int, budget : Int] /\ u.reset = totals.reset
        BY <3>2, <3>4
      <4>2. totals' = [u EXCEPT !.reset = @ + r]
        BY <3>1, <3>4
      <4>3. /\ u.pending = totals.pending /\ u.budget = totals.budget + b
            /\ totals.pending \in Int /\ totals.reset \in Int /\ totals.budget \in Int
        BY <3>4
      <4> HIDE DEF u
      <4> QED
        BY <3>2, <4>1, <4>2, <4>3
    <3> QED
      BY <3>3 DEF b
  <2>7. resetAt' \in Maps /\ Counts(All(resetAt'), totals.reset + r)
    <3>0. /\ IsFiniteSet(All(resetAt)) /\ totals.reset = Cardinality(All(resetAt))
          /\ totals.reset \in 0..MaxPending /\ resetAt \in Maps /\ clock \in Nat
      BY <1>0 DEF CInv, Counts, TInv, BInv
    <3>1. CASE Room(p) > 0
      <4>1. resetAt' = Put(resetAt, p, k, clock)
        BY <2>1, <3>1 DEF Put
      <4>2. /\ resetAt' \in Maps
            /\ IsFiniteSet(All(resetAt'))
            /\ Cardinality(All(resetAt')) = Cardinality(All(resetAt)) + r
        <5>1. r = IF resetAt[p][k] = None THEN 1 ELSE 0
          BY <3>1
        <5>2. /\ resetAt' \in Maps
              /\ IsFiniteSet(All(resetAt'))
              /\ Cardinality(All(resetAt'))
                   = Cardinality(All(resetAt)) + IF resetAt[p][k] = None THEN 1 ELSE 0
          <6> HIDE DEF r
          <6> QED
            BY <3>0, <4>1, EntrySet
        <5> QED
          BY <5>1, <5>2
      <4>3. totals.reset + r \in 0..MaxPending
        BY <1>2, <3>0, RepliesLimits
      <4> QED
        BY <3>0, <4>2, <4>3 DEF Counts
    <3>2. CASE ~(Room(p) > 0)
      <4>1. resetAt' = resetAt /\ r = 0 /\ totals.reset + 0 = totals.reset
        BY <2>1, <3>0, <3>2, RepliesLimits
      <4> QED
        BY <3>0, <4>1 DEF Counts
    <3> QED
      BY <3>1, <3>2
  <2> HIDE DEF r
  <2>8. CInv'
    BY <1>0, <2>4, <2>6, <2>7 DEF CInv
  <2>9. armed' \in BOOLEAN /\ (armed' \/ stopped \/ (slots # {} /\ armed' = armed))
    BY Zenon, <1>0, <2>1, DeniedHasSlot DEF kick, TInv
  <2>10. SInv'
    BY <1>0, <2>9, SlotAdded
  <2>11. TInv'
    BY <1>0, <2>6, <2>7, <2>9 DEF TInv
  <2>12. OInv'
    <3>1. \A q \in Peer : q # p => resetAt'[q] = resetAt[q]
      BY <1>0, <2>1 DEF TInv, Maps
    <3> QED
      BY Zenon, <1>0, <2>4, <3>1 DEF OInv, Holds, Entries
  <2> QED
    BY <2>3, <2>8, <2>10, <2>11, <2>12 DEF RInv
<1> QED
  BY <1>1, <1>2

-----------------------------------------------------------------------------
(***************************************************************************)
(* Held RESETs, and calls that become known.                               *)
(***************************************************************************)
LEMMA HoldKeeps ==
  ASSUME Configured, RInv, NEW p \in Peer, NEW k \in Keys, HoldReset(p, k),
         sweeping = {}, UNCHANGED <<calls, sweeping>>
  PROVE  RInv'
<1>0. /\ TInv /\ BInv /\ OInv /\ CInv /\ SInv
      /\ slots' = slots \cup {p} /\ kick
      /\ UNCHANGED <<clock, status, kept, resetAt, stopped, calls, sweeping, budget, log, cuts>>
  BY DEF RInv, HoldReset, NoReply
<1>1. armed' \in BOOLEAN /\ (armed' \/ stopped)
  BY Zenon, <1>0 DEF kick, TInv
<1>2. SInv'
  BY <1>0, <1>1, SlotAdded
<1>3. BInv'
  BY <1>0 DEF BInv
<1>4. /\ pending' \in Maps
      /\ totals' \in [pending : Int, reset : Int, budget : Int]
      /\ Counts(All(pending'), totals'.pending)
      /\ totals'.reset = totals.reset /\ totals'.budget = totals.budget
      /\ \A q \in Peer : q # p => pending'[q] = pending[q]
  <2>0. /\ IsFiniteSet(All(pending)) /\ totals.pending = Cardinality(All(pending))
        /\ totals.pending \in 0..MaxPending /\ pending \in Maps /\ clock + Hold \in Nat
        /\ totals \in [pending : Int, reset : Int, budget : Int]
    BY <1>0 DEF CInv, Counts, TInv, BInv, Configured
  <2>1. CASE pending[p][k] = None /\ totals.pending < MaxPending
    <3>1. /\ pending' = [pending EXCEPT ![p][k] = clock + Hold]
          /\ totals' = [totals EXCEPT !.pending = @ + 1]
      BY <2>1 DEF HoldReset
    <3>2. /\ pending' \in Maps /\ IsFiniteSet(All(pending'))
          /\ Cardinality(All(pending')) = Cardinality(All(pending)) + 1
      <4>1. pending' = Put(pending, p, k, clock + Hold)
        BY <3>1 DEF Put
      <4> QED
        BY <2>0, <2>1, <4>1, EntrySet
    <3>3. totals.pending + 1 \in 0..MaxPending
      BY <2>0, <2>1, RepliesLimits
    <3> QED
      BY <2>0, <3>1, <3>2, <3>3 DEF Counts, Maps
  <2>2. CASE ~(pending[p][k] = None /\ totals.pending < MaxPending)
    BY <1>0, <2>0, <2>2 DEF HoldReset, CInv
  <2> QED
    BY <2>1, <2>2
<1>5. TInv' /\ CInv'
  BY <1>0, <1>1, <1>4 DEF TInv, CInv
<1>6. OInv'
  BY Zenon, <1>0, <1>4 DEF OInv, Holds, Entries
<1> QED
  BY <1>2, <1>3, <1>5, <1>6 DEF RInv

LEMMA BecomesKeeps ==
  ASSUME RInv, NEW p \in Peer, NEW k \in Keys, NEW st \in {"live", "tomb", "keyonly"},
         Becomes(p, k, st), sweeping = {}, UNCHANGED <<calls, sweeping>>,
         pending' \in Maps, Counts(All(pending'), totals'.pending),
         totals' \in [pending : Int, reset : Int, budget : Int],
         totals'.reset = totals.reset, totals'.budget = totals.budget,
         \A q \in Peer : q # p => pending'[q] = pending[q]
  PROVE  RInv'
<1>0. /\ TInv /\ BInv /\ OInv /\ CInv /\ SInv
      /\ slots' = slots \cup {p} /\ kept' = kept \cup {p} /\ kick
      /\ status' = [status EXCEPT ![p][k] = st]
      /\ UNCHANGED <<clock, resetAt, stopped, calls, sweeping, budget, log, cuts>>
  BY DEF RInv, Becomes, NoReply
<1>1. armed' \in BOOLEAN /\ (armed' \/ stopped)
  BY Zenon, <1>0 DEF kick, TInv
<1>2. SInv'
  BY <1>0, <1>1, SlotAdded
<1>3. BInv' /\ CInv'
  BY <1>0 DEF BInv, CInv
<1>4. TInv'
  BY <1>0, <1>1 DEF TInv
<1>5. OInv'
  BY <1>0 DEF TInv, OInv, Holds, Entries
<1> QED
  BY <1>2, <1>3, <1>4, <1>5 DEF RInv

LEMMA OpenKeeps ==
  ASSUME RInv, NEW p \in Peer, NEW k \in Keys, open(p, k),
         sweeping = {}, UNCHANGED <<calls, sweeping>>
  PROVE  RInv'
<1> DEFINE D == {k} \cap Entries(pending[p])
           d == IF pending[p][k] = None THEN 0 ELSE 1
<1>0. /\ IsFiniteSet(All(pending)) /\ totals.pending = Cardinality(All(pending))
      /\ totals.pending \in 0..MaxPending /\ pending \in Maps
      /\ totals \in [pending : Int, reset : Int, budget : Int]
  BY DEF RInv, CInv, Counts, TInv
<1>1. pending' = [pending EXCEPT ![p][k] = None]
  BY DEF open
<1>2. pending' = Without(pending, p, D)
  BY Zenon, <1>0, <1>1 DEF Without, Maps, Entries
<1>3. D \in SUBSET Entries(pending[p]) /\ Cardinality(D) = d
  <2>1. CASE pending[p][k] = None
    <3>1. D = {} /\ d = 0
      BY <2>1 DEF Entries
    <3> HIDE DEF D, d
    <3> QED
      BY <3>1, FS_EmptySet
  <2>2. CASE pending[p][k] # None
    <3>1. D = {k} /\ d = 1 /\ D \in SUBSET Entries(pending[p])
      BY <2>2 DEF Entries
    <3> HIDE DEF D, d
    <3> QED
      BY <3>1, FS_Singleton
  <2> QED
    BY <2>1, <2>2
<1>4. d \in {0, 1} /\ totals' = [totals EXCEPT !.pending = @ - d]
  BY DEF open
<1> HIDE DEF D, d
<1>5. /\ pending' \in Maps /\ IsFiniteSet(All(pending'))
      /\ Cardinality(All(pending')) = Cardinality(All(pending)) - d
      /\ Cardinality(All(pending')) \in Nat
      /\ Cardinality(All(pending')) <= Cardinality(All(pending))
  <2>1. /\ pending' \in Maps /\ IsFiniteSet(All(pending'))
        /\ Cardinality(All(pending')) = Cardinality(All(pending)) - Cardinality(D)
        /\ Cardinality(All(pending')) \in Nat
        /\ Cardinality(All(pending')) <= Cardinality(All(pending))
    BY <1>0, <1>2, <1>3, EntriesDrop
  <2> QED
    BY <1>3, <2>1
<1>6. /\ totals' \in [pending : Int, reset : Int, budget : Int]
      /\ totals'.pending = totals.pending - d
      /\ totals'.reset = totals.reset /\ totals'.budget = totals.budget
  BY <1>0, <1>4
<1>7. Counts(All(pending'), totals'.pending)
  BY <1>0, <1>5, <1>6, RepliesLimits DEF Counts
<1>8. \A q \in Peer : q # p => pending'[q] = pending[q]
  BY <1>0, <1>1 DEF Maps
<1> QED
  BY Zenon, <1>5, <1>6, <1>7, <1>8, BecomesKeeps DEF open

LEMMA KnownKeeps ==
  ASSUME RInv, NEW p \in Peer, NEW k \in Keys, rejectOpen(p, k) \/ finish(p, k),
         sweeping = {}, UNCHANGED <<calls, sweeping>>
  PROVE  RInv'
<1>1. PICK st \in {"live", "tomb", "keyonly"} : Becomes(p, k, st)
  BY DEF rejectOpen, finish
<1>2. UNCHANGED <<pending, totals>>
  BY DEF rejectOpen, finish
<1> QED
  BY <1>1, <1>2, BecomesKeeps DEF RInv, TInv, CInv

-----------------------------------------------------------------------------
(***************************************************************************)
(* The sweep of one slot.                                                  *)
(***************************************************************************)
LEMMA MinOfTwo ==
  ASSUME NEW a \in Int, NEW b \in Int
  PROVE  Min({a, b}) \in {a, b} /\ Min({a, b}) <= a /\ Min({a, b}) <= b
<1>1. \E x \in {a, b} : \A y \in {a, b} : x <= y
  BY a <= b \/ b <= a
<1> QED
  BY <1>1 DEF Min

LEMMA FiredFacts ==
  ASSUME TInv, BInv, CInv, NEW p \in Peer, NEW F \in Fired(p)
  PROVE  /\ Moot(p) \cup F \in SUBSET Entries(pending[p])
         /\ Cardinality(F) \in Nat /\ Cardinality(F) <= Room(p)
         /\ ~Asked(p) => Cardinality(F) = 0
         /\ Asked(p) => Cardinality(F) > 0 \/ Room(p) = 0
<1>1. F \subseteq Due(p) /\ Cardinality(F) = Min({Cardinality(Due(p)), Room(p)})
  BY DEF Fired
<1>2. Due(p) \in SUBSET Entries(pending[p]) /\ Moot(p) \in SUBSET Entries(pending[p])
  BY DEF Due, Moot, Entries
<1>3. IsFiniteSet(Due(p)) /\ pending \in Maps
  BY Zenon, <1>2, EntriesFinite DEF TInv, CInv, Counts
<1>4. Cardinality(Due(p)) \in Nat /\ Room(p) \in Nat
  BY <1>3, FS_CardinalityType, RoomIsNat
<1>5. /\ Cardinality(F) \in Nat /\ Cardinality(F) <= Room(p)
      /\ Cardinality(F) <= Cardinality(Due(p))
  BY <1>1, <1>4, MinOfTwo
<1>6. ASSUME ~Asked(p) PROVE Cardinality(F) = 0
  <2>1. CASE Due(p) = {}
    BY <1>5, <2>1, FS_EmptySet
  <2>2. CASE BudgetDenied(p)
    BY <1>5, <2>2 DEF Room
  <2> QED
    BY <1>6, <2>1, <2>2 DEF Asked
<1>7. ASSUME Asked(p) PROVE Cardinality(F) > 0 \/ Room(p) = 0
  <2>1. Cardinality(Due(p)) # 0
    BY <1>3, <1>7, FS_EmptySet DEF Asked
  <2>2. Cardinality(F) \in {Cardinality(Due(p)), Room(p)}
    BY <1>1, <1>4, MinOfTwo
  <2> QED
    BY <1>4, <1>5, <2>1, <2>2
<1> QED
  BY Zenon, <1>1, <1>2, <1>5, <1>6, <1>7

\* The number of budgets when one of them is replaced.
LEMMA BudgetReplaced ==
  ASSUME BInv, Counts(Budgets(budget), totals.budget), NEW p \in Peer, NEW b,
         budget[p] = NoBudget /\ b # NoBudget => totals.budget < MaxPending,
         budget' = [budget EXCEPT ![p] = b]
  PROVE  Counts(Budgets(budget'), totals.budget + (IF b = NoBudget THEN 0 ELSE 1)
                                                - (IF budget[p] = NoBudget THEN 0 ELSE 1))
<1> DEFINE S == Budgets(budget)
           x == IF b = NoBudget THEN 0 ELSE 1
           y == IF budget[p] = NoBudget THEN 0 ELSE 1
<1>0. /\ IsFiniteSet(S) /\ totals.budget = Cardinality(S) /\ totals.budget \in 0..MaxPending
      /\ p \in S <=> budget[p] # NoBudget
  BY DEF Counts, Budgets
<1>1. CASE b # NoBudget
  <2>1. Budgets(budget') = S \cup {p}
    BY <1>1 DEF Budgets, BInv
  <2>2. IsFiniteSet(S \cup {p}) /\ Cardinality(S \cup {p}) = totals.budget + (1 - y)
    BY <1>0, FS_AddElement, RepliesLimits
  <2>3. x = 1 /\ y \in {0, 1} /\ totals.budget + (1 - y) \in 0..MaxPending
    BY <1>0, <1>1, RepliesLimits
  <2> HIDE DEF S, x, y
  <2>4. totals.budget + x - y = totals.budget + (1 - y)
    BY <1>0, <2>3, RepliesLimits
  <2>5. Counts(Budgets(budget'), totals.budget + x - y)
    BY Zenon, <2>1, <2>2, <2>3, <2>4 DEF Counts
  <2> QED
    BY <2>5 DEF x, y
<1>2. CASE b = NoBudget
  <2>1. Budgets(budget') = S \ {p}
    BY <1>2 DEF Budgets, BInv
  <2>2. IsFiniteSet(S \ {p}) /\ Cardinality(S \ {p}) = totals.budget - y
    BY <1>0, FS_RemoveElement, RepliesLimits
  <2>3. x = 0 /\ y \in {0, 1} /\ Cardinality(S \ {p}) \in Nat
    BY <1>2, <2>2, FS_CardinalityType
  <2> HIDE DEF S, x, y
  <2>4. totals.budget + x - y = totals.budget - y /\ totals.budget - y \in 0..MaxPending
    BY <1>0, <2>2, <2>3, RepliesLimits
  <2>5. Counts(Budgets(budget'), totals.budget + x - y)
    BY Zenon, <2>1, <2>2, <2>4 DEF Counts
  <2> QED
    BY <2>5 DEF x, y
<1> QED
  BY <1>1, <1>2

\* The maps after entries of p were dropped.
LEMMA CountsDrop ==
  ASSUME NEW m \in Maps, NEW p \in Peer, NEW D \in SUBSET Entries(m[p]), NEW n,
         Counts(All(m), n)
  PROVE  Without(m, p, D) \in Maps /\ Counts(All(Without(m, p, D)), n - Cardinality(D))
<1>1. IsFiniteSet(All(m)) /\ n = Cardinality(All(m)) /\ n \in 0..MaxPending
  BY DEF Counts
<1>2. /\ Without(m, p, D) \in Maps
      /\ IsFiniteSet(All(Without(m, p, D)))
      /\ Cardinality(All(Without(m, p, D))) = n - Cardinality(D)
      /\ Cardinality(All(Without(m, p, D))) \in Nat
      /\ Cardinality(All(Without(m, p, D))) <= n
  BY <1>1, EntriesDrop
<1> QED
  BY <1>1, <1>2, RepliesLimits DEF Counts

LEMMA SweepKeeps ==
  ASSUME Configured, RInv, NEW p \in Peer, sweep(p), UNCHANGED calls
  PROVE  RInv'
<1>0. /\ TInv /\ BInv /\ OInv /\ CInv /\ SInv
      /\ p \in sweeping /\ p \in slots /\ sweeping' = sweeping \ {p}
      /\ UNCHANGED <<clock, stopped, calls, cuts>>
  BY DEF RInv, sweep, TInv
<1>1. PICK F \in Fired(p), E \in SUBSET Expired(p) :
       /\ pending' = [pending EXCEPT ![p] =
                       [k \in Keys |-> IF k \in Moot(p) \cup F THEN None ELSE @[k]]]
       /\ resetAt' = [resetAt EXCEPT ![p] =
                       [k \in Keys |-> IF k \in StaleResets(p) THEN None ELSE @[k]]]
       /\ status' = [status EXCEPT ![p] =
                       [k \in Keys |-> IF k \in E THEN "unknown" ELSE @[k]]]
       /\ budget' = [budget EXCEPT ![p] = BudgetAfter(p, F)]
       /\ log' = Logged(p, Cardinality(F))
       /\ totals' = [pending |-> totals.pending - Cardinality(Moot(p) \cup F),
                     reset |-> totals.reset - Cardinality(StaleResets(p)),
                     budget |-> totals.budget
                       + (IF BudgetAfter(p, F) = NoBudget THEN 0 ELSE 1)
                       - (IF budget[p] = NoBudget THEN 0 ELSE 1)]
       /\ \/ kept' = kept
          \/ kept' = kept \ {p} /\ \A k \in Keys : status'[p][k] = "unknown"
       /\ slots' = IF Emptied(p, F) THEN slots \ {p} ELSE slots
  BY Zenon DEF sweep
<1> DEFINE D == Moot(p) \cup F
           b == BudgetAfter(p, F)
           R == StaleResets(p)
           n == Cardinality(F)
<1>2. /\ D \in SUBSET Entries(pending[p])
      /\ n \in Nat /\ n <= Room(p) /\ (~Asked(p) => n = 0)
      /\ Asked(p) => n > 0 \/ Room(p) = 0
  BY <1>0, FiredFacts
<1>3. R \in SUBSET Entries(resetAt[p])
  BY Zenon DEF StaleResets, Entries
<1>4. pending' = Without(pending, p, D) /\ resetAt' = Without(resetAt, p, R)
  BY <1>1 DEF Without
<1>5. /\ pending' \in Maps /\ Counts(All(pending'), totals.pending - Cardinality(D))
      /\ resetAt' \in Maps /\ Counts(All(resetAt'), totals.reset - Cardinality(R))
  BY <1>0, <1>2, <1>3, <1>4, CountsDrop DEF TInv, CInv
<1>6. /\ b \in BudgetRec /\ BudgetFits(b, clock)
      /\ LogFits([a \in 0..RTI - 1 |-> log[p][a] + n], cuts[p], b, clock)
  BY Zenon, <1>0, <1>2, BudgetAfterFits DEF Configured
<1>7. BInv'
  <2> DEFINE l == [a \in 0..RTI - 1 |-> log[p][a] + n]
  <2>1. log' = [log EXCEPT ![p] = l] /\ budget' = [budget EXCEPT ![p] = b]
    BY <1>1 DEF Logged, Added
  <2>2. l \in Log /\ LogFits(l, cuts[p], b, clock)
    BY Zenon, <1>0, <1>2, <1>6, LogAdds DEF BInv
  <2> HIDE DEF l, b
  <2> QED
    BY <1>0, <1>6, <2>1, <2>2 DEF BInv
<1>8. budget[p] = NoBudget /\ b # NoBudget => totals.budget < MaxPending
  <2> SUFFICES ASSUME budget[p] = NoBudget, b # NoBudget
               PROVE  totals.budget < MaxPending
    OBVIOUS
  <2>1. Asked(p)
    BY Zenon DEF BudgetAfter
  <2> QED
    <3>1. ~(totals.budget >= MaxPending) /\ totals.budget \in 0..MaxPending
      BY <1>0, <2>1 DEF Asked, BudgetDenied, CInv, Counts
    <3> QED
      BY <3>1, RepliesLimits
<1>9. Counts(Budgets(budget'), totals.budget + (IF b = NoBudget THEN 0 ELSE 1)
                                              - (IF budget[p] = NoBudget THEN 0 ELSE 1))
  BY Zenon, <1>0, <1>1, <1>8, BudgetReplaced DEF CInv
<1>10. /\ totals'.pending = totals.pending - Cardinality(D)
       /\ totals'.reset = totals.reset - Cardinality(R)
       /\ totals'.budget = totals.budget + (IF b = NoBudget THEN 0 ELSE 1)
                                         - (IF budget[p] = NoBudget THEN 0 ELSE 1)
  BY Zenon, <1>1
<1>11. CInv'
  BY <1>5, <1>9, <1>10 DEF CInv
<1>12. totals' \in [pending : Int, reset : Int, budget : Int]
  <2>1. totals'.pending \in Int /\ totals'.reset \in Int /\ totals'.budget \in Int
    BY <1>11 DEF CInv, Counts
  <2>2. totals' = [pending |-> totals'.pending, reset |-> totals'.reset,
                   budget |-> totals'.budget]
    BY <1>1
  <2> QED
    BY <2>1, <2>2
<1>13. /\ \A q \in Peer : q # p => pending'[q] = pending[q] /\ resetAt'[q] = resetAt[q]
                                   /\ budget'[q] = budget[q] /\ status'[q] = status[q]
       /\ Entries(pending'[p]) = Entries(pending[p]) \ D
       /\ Entries(resetAt'[p]) = Entries(resetAt[p]) \ R
       /\ budget'[p] = b
       /\ \A k \in Keys : status'[p][k] # "unknown" => status[p][k] # "unknown"
  <2>1. \A q \in Peer : q # p => pending'[q] = pending[q] /\ resetAt'[q] = resetAt[q]
    BY <1>0, <1>4 DEF Without, TInv, Maps
  <2>2. \A q \in Peer : q # p => budget'[q] = budget[q] /\ status'[q] = status[q]
    BY Zenon, <1>0, <1>1 DEF TInv, BInv
  <2>3. Entries(pending'[p]) = Entries(pending[p]) \ D
    BY <1>0, <1>4 DEF Without, TInv, Maps, Entries
  <2>4. Entries(resetAt'[p]) = Entries(resetAt[p]) \ R
    BY <1>0, <1>4 DEF Without, TInv, Maps, Entries
  <2>5. budget'[p] = b
    BY Zenon, <1>0, <1>1 DEF BInv
  <2>6. \A k \in Keys : status'[p][k] # "unknown" => status[p][k] # "unknown"
    BY Zenon, <1>0, <1>1 DEF TInv
  <2> QED
    BY Zenon, <2>1, <2>2, <2>3, <2>4, <2>5, <2>6
<1>14. Emptied(p, F) <=> p \notin kept' /\ ~Holds(p)'
  BY Zenon, <1>13 DEF Emptied, Holds
<1>15. /\ kept' \subseteq kept /\ kept \ {p} \subseteq kept'
       /\ slots' \subseteq slots /\ slots \ {p} \subseteq slots'
       /\ (p \in slots' <=> ~Emptied(p, F))
  BY Zenon, <1>0, <1>1
<1>16. status' \in [Peer -> [Keys -> {"unknown", "live", "tomb", "keyonly"}]]
  BY Zenon, <1>0, <1>1 DEF TInv
<1>17. armed' \in BOOLEAN
  BY Zenon, <1>0 DEF sweep, hasWork, TInv
<1>18. TInv'
  <2>1. kept' \subseteq slots' /\ sweeping' \subseteq slots' /\ slots' \subseteq Peer
    BY <1>0, <1>14, <1>15 DEF TInv
  <2> QED
    BY <1>0, <1>5, <1>12, <1>16, <1>17, <2>1 DEF TInv
<1>19. OInv'
  <2>1. \A q \in Peer : Holds(q)' => q \in slots'
    BY Zenon, <1>0, <1>13, <1>14, <1>15 DEF OInv, Holds
  <2>2. \A q \in Peer, k \in Keys : status'[q][k] # "unknown" => q \in kept'
    BY <1>0, <1>1, <1>13 DEF OInv
  <2> QED
    BY Zenon, <2>1, <2>2 DEF OInv
<1>20. \A q \in slots' \ sweeping' : q \in kept' \/ Holds(q)'
  <2> TAKE q \in slots' \ sweeping'
  <2>1. CASE q = p
    BY <1>14, <1>15, <2>1
  <2>2. CASE q # p
    <3>1. q \in slots \ sweeping /\ q \in Peer
      BY <1>0, <1>15, <2>2 DEF TInv
    <3> QED
      BY Zenon, <1>0, <1>13, <1>15, <2>2, <3>1 DEF SInv, Holds
  <2> QED
    BY <2>1, <2>2
<1>21. SlotsAreSwept'
  <2> SUFFICES ASSUME slots' # {}
               PROVE  armed' \/ stopped'
    BY DEF SlotsAreSwept
  <2>1. armed \/ stopped
    BY <1>0 DEF SInv, SlotsAreSwept
  <2>2. CASE sweeping' # {}
    BY <1>0, <2>1, <2>2 DEF sweep
  <2>3. CASE sweeping' = {}
    <3>1. PICK q \in slots' : q \in kept' \/ Holds(q)'
      BY <1>20, <2>3
    <3>2. q \in Peer
      BY <1>18 DEF TInv
    <3>3. Holds(q)' => totals'.pending > 0 \/ totals'.reset > 0 \/ totals'.budget > 0
      BY Zenon, <1>11, <3>2, Counted DEF CInv, Holds
    <3>4. hasWork
      BY <3>1, <3>3 DEF hasWork
    <3> QED
      BY Zenon, <2>3, <3>4 DEF sweep
  <2> QED
    BY <2>2, <2>3
<1>22. SInv'
  BY <1>20, <1>21 DEF SInv
<1> QED
  BY <1>7, <1>11, <1>18, <1>19, <1>22 DEF RInv

-----------------------------------------------------------------------------
(***************************************************************************)
(* The other steps, and the theorems.                                      *)
(***************************************************************************)
LEMMA DisconnectKeeps ==
  ASSUME RInv, NEW p \in Peer, disconnectPeer(p), sweeping = {},
         UNCHANGED <<calls, sweeping>>
  PROVE  RInv'
<1>0. /\ TInv /\ BInv /\ OInv /\ CInv /\ SInv
      /\ slots' = slots \ {p} /\ kept' = kept \ {p}
      /\ UNCHANGED <<clock, armed, stopped, calls, sweeping>>
  BY DEF RInv, disconnectPeer
<1> DEFINE P == Entries(pending[p])
           R == Entries(resetAt[p])
           y == IF budget[p] = NoBudget THEN 0 ELSE 1
           z == [k \in Keys |-> None]
<1>1. pending' = Without(pending, p, P) /\ resetAt' = Without(resetAt, p, R)
  <2>1. /\ [k \in Keys |-> IF k \in P THEN None ELSE pending[p][k]] = z
        /\ [k \in Keys |-> IF k \in R THEN None ELSE resetAt[p][k]] = z
    BY DEF Entries
  <2> QED
    BY Zenon, <2>1 DEF Without, disconnectPeer
<1>2. /\ pending' \in Maps /\ Counts(All(pending'), totals.pending - Cardinality(P))
      /\ resetAt' \in Maps /\ Counts(All(resetAt'), totals.reset - Cardinality(R))
  BY Zenon, <1>0, <1>1, CountsDrop DEF TInv, CInv
<1>3. Counts(Budgets(budget'), totals.budget + 0 - y)
  <2>1. budget' = [budget EXCEPT ![p] = NoBudget]
    BY Zenon DEF disconnectPeer
  <2>2. Counts(Budgets(budget'), totals.budget + (IF NoBudget = NoBudget THEN 0 ELSE 1)
                                               - (IF budget[p] = NoBudget THEN 0 ELSE 1))
    BY Zenon, <1>0, <2>1, BudgetReplaced DEF CInv
  <2> QED
    BY <2>2
<1>4. /\ totals'.pending = totals.pending - Cardinality(P)
      /\ totals'.reset = totals.reset - Cardinality(R)
      /\ totals'.budget = totals.budget - y
  BY Zenon DEF disconnectPeer
<1>5. totals.budget + 0 - y = totals.budget - y
  <2>1. totals.budget \in Int /\ y \in Int
    BY <1>0 DEF CInv, Counts
  <2> HIDE DEF y
  <2> QED
    BY <2>1
<1>6. CInv'
  BY Zenon, <1>2, <1>3, <1>4, <1>5 DEF CInv
<1>7. totals' \in [pending : Int, reset : Int, budget : Int]
  <2>1. totals'.pending \in Int /\ totals'.reset \in Int /\ totals'.budget \in Int
    BY <1>6 DEF CInv, Counts
  <2>2. totals' = [pending |-> totals'.pending, reset |-> totals'.reset,
                   budget |-> totals'.budget]
    BY DEF disconnectPeer
  <2> QED
    BY <2>1, <2>2
<1>8. status' \in [Peer -> [Keys -> {"unknown", "live", "tomb", "keyonly"}]]
  BY Zenon, <1>0 DEF disconnectPeer, TInv
<1>9. TInv'
  BY <1>0, <1>2, <1>7, <1>8 DEF TInv
<1>10. BInv'
  <2> DEFINE x == [a \in 0..RTI - 1 |-> cuts[p][a] + 1]
  <2>1. NoBudget \in BudgetRec /\ BudgetFits(NoBudget, clock)
    BY <1>0, NoBudgetFits DEF BInv
  <2>2. /\ budget[p] \in BudgetRec /\ log[p] \in Log /\ cuts[p] \in Log
        /\ BudgetFits(budget[p], clock) /\ LogFits(log[p], cuts[p], budget[p], clock)
    BY <1>0 DEF BInv
  <2>3. x \in Log
    BY <2>2, LogAdds
  <2>4. log' = log /\ cuts' = [cuts EXCEPT ![p] = x] /\ budget' = [budget EXCEPT ![p] = NoBudget]
    BY Zenon DEF disconnectPeer, Added
  <2>5. ASSUME NEW a \in 0..RTI - 1
        PROVE  log[p][a] <= 0 + (MaxReplies - 1) + CutWindows(x, a)
    <3>1. CutWindows(x, a) = CutWindows(cuts[p], a) + MaxReplies
      <4>1. cuts[p][a] \in Nat /\ x[a] = cuts[p][a] + 1
        BY <2>2 DEF Log
      <4> HIDE DEF x
      <4> QED
        BY <4>1, RepliesLimits DEF CutWindows
    <3>2. /\ log[p][a] \in Nat /\ CutWindows(cuts[p], a) \in Nat /\ budget[p].n \in Nat
      BY <2>2, CutsAreNat DEF Log, BudgetRec
    <3>3. /\ log[p][a] <= budget[p].n + (MaxReplies - 1) + CutWindows(cuts[p], a)
          /\ budget[p].n <= MaxReplies
      BY <2>2 DEF LogFits, BudgetFits, BudgetWithin
    <3> HIDE DEF x
    <3> QED
      BY <3>1, <3>2, <3>3, RepliesLimits
  <2> HIDE DEF x
  <2>6. LogFits(log[p], x, NoBudget, clock)
    BY <2>5 DEF LogFits, NoBudget
  <2> QED
    BY <1>0, <2>1, <2>3, <2>4, <2>6 DEF BInv
<1>11. /\ \A q \in Peer : q # p => pending'[q] = pending[q] /\ resetAt'[q] = resetAt[q]
                                   /\ budget'[q] = budget[q] /\ status'[q] = status[q]
       /\ ~Holds(p)' /\ \A k \in Keys : status'[p][k] = "unknown"
  <2>1. \A q \in Peer : q # p => pending'[q] = pending[q] /\ resetAt'[q] = resetAt[q]
                                 /\ budget'[q] = budget[q] /\ status'[q] = status[q]
    BY Zenon, <1>0 DEF disconnectPeer, TInv, BInv, Maps
  <2>2. budget'[p] = NoBudget /\ \A k \in Keys : status'[p][k] = "unknown"
    BY Zenon, <1>0 DEF disconnectPeer, TInv, BInv
  <2>3. pending'[p] = z /\ resetAt'[p] = z
    BY Zenon, <1>0 DEF disconnectPeer, TInv, Maps
  <2> QED
    BY Zenon, <2>1, <2>2, <2>3 DEF Holds, Entries
<1>12. OInv'
  BY Zenon, <1>0, <1>11 DEF OInv, Holds
<1>13. SInv'
  BY <1>0 DEF SInv, SlotsAreSwept
<1> QED
  BY <1>6, <1>9, <1>10, <1>12, <1>13 DEF RInv

LEMMA StartsKeeps ==
  ASSUME RInv, SweepStarts, UNCHANGED calls
  PROVE  RInv'
<1>1. TInv' /\ BInv' /\ OInv' /\ CInv'
  <2>1. BInv' /\ OInv' /\ CInv'
    BY Zenon DEF RInv, SweepStarts, BInv, OInv, CInv, Holds
  <2>2. TInv'
    BY Zenon DEF RInv, SweepStarts, TInv
  <2> QED
    BY <2>1, <2>2
<1>2. SInv'
  BY Zenon DEF RInv, SweepStarts, SInv, SlotsAreSwept
<1> QED
  BY <1>1, <1>2 DEF RInv

LEMMA TickStopKeeps ==
  ASSUME RInv, Tick \/ stop, sweeping = {}, UNCHANGED <<calls, sweeping>>
  PROVE  RInv'
<1>1. BInv'
  <2>1. CASE Tick
    BY <2>1, TickKeeps DEF RInv
  <2>2. CASE stop
    BY Zenon, <2>2 DEF RInv, BInv, stop
  <2> QED
    BY <2>1, <2>2
<1>2. UNCHANGED <<calls, sweeping, slots, status, kept, pending, resetAt, budget, totals>>
  BY Zenon DEF Tick, stop
<1>3. OInv' /\ CInv'
  BY Zenon, <1>2 DEF RInv, OInv, CInv, Holds
<1>4. TInv' /\ SInv'
  BY Zenon, <1>2 DEF Tick, stop, RInv, TInv, SInv, SlotsAreSwept
<1> QED
  BY <1>1, <1>3, <1>4 DEF RInv

LEMMA RepNextInv == Configured /\ RInv /\ [RepNext]_repVars => RInv'
<1> SUFFICES ASSUME Configured, RInv, [RepNext]_repVars
             PROVE  RInv'
  OBVIOUS
<1>1. CASE UNCHANGED repVars
  BY Zenon, <1>1 DEF repVars, RInv, TInv, BInv, OInv, CInv, SInv, SlotsAreSwept, Holds
<1>2. ASSUME NEW p \in Peer, sweep(p), UNCHANGED calls PROVE RInv'
  BY <1>2, SweepKeeps
<1>3. CASE SweepStarts /\ UNCHANGED calls
  BY <1>3, StartsKeeps
<1>4. CASE (Tick \/ stop) /\ sweeping = {} /\ UNCHANGED <<calls, sweeping>>
  BY <1>4, TickStopKeeps
<1>5. ASSUME NEW p \in Peer, disconnectPeer(p), sweeping = {}, UNCHANGED <<calls, sweeping>>
      PROVE  RInv'
  BY <1>5, DisconnectKeeps
<1>6. ASSUME NEW c \in calls, Handle(c[1], c[2]), sweeping = {}, UNCHANGED <<calls, sweeping>>
      PROVE  RInv'
  <2>1. c[1] \in Peer /\ c[2] \in Keys
    BY DEF RInv, TInv
  <2>2. CASE ResetNow(c[1], c[2])
    BY <1>6, <2>1, <2>2, ResetKeeps
  <2>3. CASE replayTomb(c[1], c[2]) \/ replayH(c[1], c[2])
    BY <1>6, <2>1, <2>3, ReplayKeeps
  <2>4. CASE HoldReset(c[1], c[2])
    BY <1>6, <2>1, <2>4, HoldKeeps
  <2>5. CASE open(c[1], c[2])
    BY <1>6, <2>1, <2>5, OpenKeeps
  <2>6. CASE rejectOpen(c[1], c[2]) \/ finish(c[1], c[2])
    BY <1>6, <2>1, <2>6, KnownKeeps
  <2> QED
    BY Zenon, <1>6, <2>2, <2>3, <2>4, <2>5, <2>6 DEF Handle
<1> QED
  BY Zenon, <1>1, <1>2, <1>3, <1>4, <1>5, <1>6 DEF RepNext

LEMMA RepliesInvariant == ASSUME Configured PROVE RepSpec => []RInv
  BY RepInitInv, RepNextInv, PTL DEF RepSpec

\* allowReply keeps the unsolicited replies to a peer bounded: in any RTI, which
\* need not be a window of the budget, a peer gets fewer than twice
\* maxRepliesPerRTI RESETs and replays, and maxRepliesPerRTI more for each
\* disconnectPeer that took its slot in that RTI, whatever the calls and sweeps.
THEOREM RepliesAreBounded ==
  ASSUME Configured
  PROVE  RepSpec => []RepliesBounded
<1>1. RInv => RepliesBounded
  <2> SUFFICES ASSUME RInv, NEW p \in Peer
               PROVE  RepliesTo(p) < (2 + cuts[p][RTI - 1]) * MaxReplies
    BY DEF RepliesBounded
  <2>1. /\ RTI - 1 \in 0..RTI - 1 /\ MaxReplies \in Nat
        /\ log[p][RTI - 1] \in Nat /\ cuts[p][RTI - 1] \in Nat
        /\ log[p][RTI - 1] <= budget[p].n + (MaxReplies - 1) + cuts[p][RTI - 1] * MaxReplies
        /\ budget[p].n \in Nat /\ budget[p].n <= MaxReplies
    BY RepliesLimits DEF RInv, BInv, Log, LogFits, BudgetFits, BudgetWithin, BudgetRec, CutWindows
  <2>2. (2 + cuts[p][RTI - 1]) * MaxReplies = 2 * MaxReplies + cuts[p][RTI - 1] * MaxReplies
    BY <2>1
  <2>3. cuts[p][RTI - 1] * MaxReplies \in Nat
    BY <2>1
  <2> QED
    BY <2>1, <2>2, <2>3 DEF RepliesTo
<1> QED
  BY <1>1, RepliesInvariant, PTL

\* The three counters the limits are tested against agree at all times with the
\* entries of the slots, and none exceeds maxPendingResets.
THEOREM TotalsAreExact ==
  ASSUME Configured
  PROVE  RepSpec => []TotalsExact
<1>1. RInv => TotalsExact
  BY InvTotals DEF RInv
<1> QED
  BY <1>1, RepliesInvariant, PTL

\* While there is a slot the sweep's timer is armed, unless the server stopped:
\* no slot with held RESETs, intervals or a budget is left behind.
THEOREM EverySlotIsSwept ==
  ASSUME Configured
  PROVE  RepSpec => []SlotsAreSwept
<1>1. RInv => SlotsAreSwept
  BY DEF RInv, SInv
<1> QED
  BY <1>1, RepliesInvariant, PTL
=============================================================================
