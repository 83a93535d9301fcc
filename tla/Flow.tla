-------------------------------- MODULE Flow --------------------------------
(***************************************************************************)
(* Credit-based flow control of reliable channels (ts/src/util.ts): the    *)
(* sending half of a window (FlowSender), the receiving half of a stream's *)
(* window (FlowReceiver), and the ledger that is the receiving half of the *)
(* connection window (PeerFlowRx), as records and the operators that       *)
(* change them. None of the methods awaits, so each is one step of the     *)
(* action applying it. Who is parked on a sender, and who is woken, is     *)
(* state of the composed modules.                                          *)
(***************************************************************************)
EXTENDS Integers

Least(a, b) == IF a < b THEN a ELSE b

-----------------------------------------------------------------------------
(***************************************************************************)
(* FlowSender.                                                             *)
(***************************************************************************)
Sender == [on : BOOLEAN, observed : BOOLEAN, granted : Nat, sent : Nat]

\* assume on a new sender: the protocol's initial window, nothing advertised.
assume(w) == [on |-> w > 0, observed |-> FALSE, granted |-> w, sent |-> 0]

\* The peer's first advertisement replaces the assumption; 0 turns the window off.
observe(f, w) ==
  IF f.observed THEN f
  ELSE [f EXCEPT !.observed = TRUE, !.on = w > 0,
                 !.granted = IF w > 0 THEN w ELSE @]

\* A new peer incarnation: the window starts over, its advertisement due.
reassume(w) == assume(w)

\* Credit from the peer; it never turns the window on.
grant(f, n) == IF f.on THEN [f EXCEPT !.granted = @ + n] ELSE f

\* Mutant: sent is not floored at 0.
refundUnfloored(f, n) == [f EXCEPT !.sent = @ - n]

\* Credit back for frames that never reached the wire; sent is floored at 0.
refund(f, n) == [f EXCEPT !.sent = @ - Least(n, @)]

drain(f) == [f EXCEPT !.sent = 0]

release(f) == [f EXCEPT !.on = FALSE]

\* tryAcquire: whether it would succeed, and what it takes.
empty(f) == f.on /\ f.sent >= f.granted
take(f) == [f EXCEPT !.sent = @ + 1]

-----------------------------------------------------------------------------
(***************************************************************************)
(* FlowReceiver: consumed messages are granted back in batches of half the *)
(* window. p is pending before the call, the result the pending after it   *)
(* and the credit to grant.                                                *)
(***************************************************************************)
consumed(p, n, window) ==
  IF 2 * (p + n) < window THEN [pending |-> p + n, grant |-> 0]
                          ELSE [pending |-> 0, grant |-> p + n]

-----------------------------------------------------------------------------
(***************************************************************************)
(* PeerFlowRx: outstanding counts the peer's frames in this side's         *)
(* buffers, pending the credit retired and not yet granted to the one peer *)
(* incarnation of the model.                                               *)
(***************************************************************************)
Ledger == [outstanding : Nat, pending : Nat]

NewLedger == [outstanding |-> 0, pending |-> 0]

admissible(l, window) == l.outstanding < window

admit(l) == [l EXCEPT !.outstanding = @ + 1]

\* due: half the window, or everything the sender could still wait for.
due(l, window) ==
  IF 2 * l.pending < window /\ l.outstanding + l.pending < window
  THEN 0 ELSE l.pending

\* What is granted stops being pending.
Settle(l, window) ==
  [ledger |-> [l EXCEPT !.pending = @ - due(l, window)], grant |-> due(l, window)]

retire(l, n, window) ==
  Settle([outstanding |-> l.outstanding - Least(n, l.outstanding),
          pending |-> l.pending + n], window)

unadmitted(l, n, window) == Settle([l EXCEPT !.pending = @ + n], window)
=============================================================================
