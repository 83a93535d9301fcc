-------------------------- MODULE SequencePromises --------------------------
(***************************************************************************)
(* What one direction of one stream promises the application, in terms of  *)
(* the state the promises are about; module Sequence is the stream.        *)
(***************************************************************************)
EXTENDS Integers, Sequences

CONSTANTS
  Modulus,    \* the size of the number space, 2^32
  WFwd        \* W_FWD

\* The window is smaller than half the number space: W_FWD and 2^31 in the code.
ASSUME NumberSpace ==
  Modulus \in Nat /\ Modulus > 1 /\ WFwd \in Nat /\ WFwd < Modulus \div 2

VARIABLES
  mode,      \* "strict" (reliable), or the drop policy: "newest", "oldest"
  v,         \* the last number TxSeq gave out
  tardy,     \* the half was ended behind a refused frame that was not undone (history)
  top,       \* the absolute number of rx.l
  queue,     \* FrameQueue.buf
  read,      \* the last message the application took
  counted,   \* messages taken, dropped by the queue and skipped by the window, and
             \* the half-closes and ends seen, so far (history)
  failed     \* "no", "loss" (DATA_LOSS) or "protocol" (INTERNAL)

Loose == mode # "strict"

\* Whatever the channel repeats or reorders, and across the wrap of the number
\* space, the application takes every message at most once and in the order
\* they were sent (check, putDrop).
InOrder ==
  LET all == <<read>> \o queue
  IN  /\ \A i \in 1..Len(all) - 1 : all[i] < all[i + 1]
      /\ all[Len(all)] <= top

\* Every number up to the highest accepted one is accounted for exactly once:
\* as a message taken, buffered or dropped, as a half-close or an end, or in the
\* gaps reported as skipped. A number that fell out of the window is never
\* reported twice, nor one that was dropped also as skipped. And a stream fails
\* with DATA_LOSS only when the sender really is more than W_FWD numbers ahead:
\* duplicates and stragglers never add up to a loss (check, takeGap).
Accounted ==
  Loose =>
    /\ counted + Len(queue) = top
    /\ failed = "loss" => v - top > WFwd

\* On an ordered channel that loses nothing the strict window fails only a
\* stream whose half-close, abort or terminal was numbered before the number of
\* a refused frame was taken back (undo came too late), or one that has used up
\* its numbers: 0 is never accepted. Refusals that are undone in time, half-closes
\* and aborts behind a half-close never fail it.
StrictFailsRarely ==
  failed = "protocol" => tardy \/ top + 1 >= Modulus
=============================================================================
