------------------------------ MODULE Sequence ------------------------------
(***************************************************************************)
(* One direction of one stream: TxSeq numbers the frames, RxWindow judges  *)
(* them (ts/src/seq.ts), FrameQueue holds the accepted messages for the    *)
(* application (ts/src/util.ts). On a reliable channel the window is       *)
(* strict; otherwise frames are lost, duplicated and reordered, and a full *)
(* queue drops by policy.                                                  *)
(*                                                                         *)
(* Frames are named by their absolute number; on the wire it is taken      *)
(* modulo Modulus (2^32 in the code), and check sees only that. No frame   *)
(* is older than half the number space when it arrives, and the sender is  *)
(* never that far ahead of the receiver.                                   *)
(***************************************************************************)
EXTENDS SequencePromises, SequencesExt, FiniteSets, FiniteSetsExt

CONSTANTS
  KLoud,      \* K_LOUD
  QueueCap,   \* FrameQueue.cap
  MaxSent     \* frames numbered (bound of the model)

Half == Modulus \div 2

VARIABLES
  refused,   \* the number of a frame whose refusal its send has not learnt yet, or 0
  tx,        \* the sender's half: "open", "half" closed (txClosed), or "over"
  finals,    \* the numbers of its half-close, and of its abort or terminal
  net,       \* the numbers of the frames in the channel
  rx         \* RxWindow

seqVars == <<mode, v, refused, tx, finals, tardy, net, rx, top, queue, read, counted, failed>>

SeqTypeOK ==
  /\ mode \in {"strict", "newest", "oldest"}
  /\ v \in 0..MaxSent /\ refused \in 0..MaxSent
  /\ tx \in {"open", "half", "over"} /\ finals \subseteq 1..MaxSent /\ tardy \in BOOLEAN
  /\ net \subseteq 1..MaxSent
  /\ rx \in [l : 0..Modulus - 1, beyondN : 0..KLoud, beyondLast : 0..Modulus - 1]
  /\ top \in 0..MaxSent /\ read \in 0..MaxSent
  /\ Len(queue) <= QueueCap /\ Range(queue) \subseteq 1..MaxSent
  /\ counted \in Nat
  /\ failed \in {"no", "loss", "protocol"}

SeqInit ==
  /\ mode \in {"strict", "newest", "oldest"}
  /\ v = 0 /\ refused = 0
  /\ tx = "open" /\ finals = {} /\ tardy = FALSE
  /\ net = {}
  /\ rx = [l |-> 0, beyondN |-> 0, beyondLast |-> 0]
  /\ top = 0 /\ read = 0
  /\ queue = <<>>
  /\ counted = 0
  /\ failed = "no"

-----------------------------------------------------------------------------
(***************************************************************************)
(* The sender. A send awaits the adapter, so the next one comes after its  *)
(* outcome; an abort or a half-close does not wait.                        *)
(***************************************************************************)
next == v < MaxSent /\ v' = v + 1

\* The bounds on age and lead that the number space of the code stands for.
Young == v + 1 - top < Half /\ \A n \in net : v + 1 - n < Half

Sent ==
  /\ tx = "open" /\ refused = 0 /\ Young
  /\ next
  /\ net' = net \cup {v'}
  /\ UNCHANGED <<mode, refused, tx, finals, tardy, rx, top, queue, read, counted, failed>>

\* The adapter refuses a frame as too large; any other error of a send means a
\* channel that is dead.
Refused ==
  /\ tx = "open" /\ refused = 0 /\ Young
  /\ next
  /\ refused' = v'
  /\ UNCHANGED <<mode, tx, finals, tardy, net, rx, top, queue, read, counted, failed>>

\* Mutant: the number of a refused frame is not taken back.
undoNot ==
  /\ refused # 0
  /\ refused' = 0
  /\ UNCHANGED <<mode, v, tx, finals, tardy, net, rx, top, queue, read, counted, failed>>

\* undoRefused: the number is reused, unless a later one has been given out.
undo ==
  /\ refused # 0
  /\ v' = IF v = refused THEN v - 1 ELSE v
  /\ refused' = 0
  /\ UNCHANGED <<mode, tx, finals, tardy, net, rx, top, queue, read, counted, failed>>

\* A frame that ends the sender's half is numbered and sent at once, even if a
\* message before it was refused and its number is not taken back yet.
Ended(state) ==
  /\ Young
  /\ next
  /\ tx' = state
  /\ finals' = finals \cup {v'}
  /\ tardy' = (tardy \/ refused # 0)
  /\ net' = net \cup {v'}
  /\ UNCHANGED <<mode, refused, rx, top, queue, read, counted, failed>>

closeSend == tx = "open" /\ Ended("half")

\* sendAbort, also behind a half-close; or the server's terminal. Never a second.
sendAbort == tx # "over" /\ Ended("over")

Lose ==
  /\ Loose
  /\ \E n \in net : net' = net \ {n}
  /\ UNCHANGED <<mode, v, refused, tx, finals, tardy, rx, top, queue, read, counted, failed>>

-----------------------------------------------------------------------------
(***************************************************************************)
(* RxWindow.check: the verdict, the window after it, and the gap.          *)
(***************************************************************************)
Verdict(name, r, gap) == [verdict |-> name, rx |-> r, gap |-> gap]

\* Mutant: a duplicate of the highest accepted frame is not told apart.
checkDup(r, s) ==
  LET d == (s - r.l) % Modulus
  IN  CASE s = 0 -> Verdict("beyond", r, 0)
        [] ~Loose -> IF s = (r.l + 1) % Modulus THEN Verdict("accept", [r EXCEPT !.l = s], 0)
                                                ELSE Verdict("protocol", r, 0)
        [] OTHER -> IF d >= Half THEN Verdict("dup", r, 0)
                    ELSE Verdict("accept", [r EXCEPT !.l = s, !.beyondN = 0], d - 1)

check(r, s) ==
  LET d == (s - r.l) % Modulus
      n == IF r.beyondN > 0 /\ (s - r.beyondLast) % Modulus <= WFwd
           THEN r.beyondN + 1 ELSE 1
  IN  CASE s = 0 -> Verdict("beyond", r, 0)
        [] s # 0 /\ ~Loose ->
             IF s = (r.l + 1) % Modulus
             THEN Verdict("accept", [r EXCEPT !.l = s], 0)
             ELSE Verdict("protocol", r, 0)
        [] s # 0 /\ Loose /\ (d = 0 \/ d >= Half) -> Verdict("dup", r, 0)
        [] s # 0 /\ Loose /\ d \in 1..WFwd ->
             Verdict("accept", [r EXCEPT !.l = s, !.beyondN = 0], d - 1)
        [] OTHER -> Verdict(IF n >= KLoud THEN "loss" ELSE "beyond",
                            [r EXCEPT !.beyondN = n, !.beyondLast = s], 0)

-----------------------------------------------------------------------------
(***************************************************************************)
(* FrameQueue.putDrop, as the queue and the number of frames dropped. A    *)
(* strict stream is paced by its window (module Upload), and the           *)
(* application is taken to keep up here.                                   *)
(***************************************************************************)

\* Mutant: the evicted frame is not counted.
putDropUncounted(q, n) ==
  IF Len(q) < QueueCap THEN [queue |-> Append(q, n), dropped |-> 0]
  ELSE IF mode = "oldest" THEN [queue |-> Append(Tail(q), n), dropped |-> 0]
  ELSE [queue |-> q, dropped |-> 1]

putDrop(q, n) ==
  IF Len(q) < QueueCap THEN [queue |-> Append(q, n), dropped |-> 0]
  ELSE IF mode = "oldest" THEN [queue |-> Append(Tail(q), n), dropped |-> 1]
  ELSE [queue |-> q, dropped |-> 1]

\* handleRx, from the window on. The channel may deliver a frame again.
handleRx ==
  /\ failed = "no"
  /\ Loose \/ Len(queue) < QueueCap
  /\ \E n \in IF Loose \/ net = {} THEN net ELSE {Min(net)} :
       LET c == check(rx, n % Modulus)
           put == IF n \in finals THEN [queue |-> queue, dropped |-> 0] ELSE putDrop(queue, n)
       IN  /\ net' \in {net \ {n}} \cup (IF Loose THEN {net} ELSE {})
           /\ rx' = c.rx
           /\ failed' = IF c.verdict \in {"loss", "protocol"} THEN c.verdict ELSE "no"
           /\ IF c.verdict = "accept"
              THEN /\ top' = n
                   /\ queue' = put.queue
                   /\ counted' = counted + put.dropped + c.gap + IF n \in finals THEN 1 ELSE 0
              ELSE UNCHANGED <<top, queue, counted>>
  /\ UNCHANGED <<mode, v, refused, tx, finals, tardy, read>>

\* recv: the application takes the oldest message, also after the call's end.
recv ==
  /\ queue # <<>>
  /\ read' = Head(queue)
  /\ queue' = Tail(queue)
  /\ counted' = counted + 1
  /\ UNCHANGED <<mode, v, refused, tx, finals, tardy, net, rx, top, failed>>

SeqNext == Sent \/ Refused \/ undo \/ closeSend \/ sendAbort \/ Lose \/ handleRx \/ recv

SeqSpec == SeqInit /\ [][SeqNext]_seqVars

=============================================================================
