-------------------------------- MODULE Call --------------------------------
(***************************************************************************)
(* One call of each client incarnation, end to end, over an unreliable     *)
(* channel: Conn and ClientStream (ts/src/conn.ts) on one side, Server and *)
(* ServerStream (ts/src/server.ts) on the other, and between them a channel *)
(* that loses, duplicates and reorders frames. Both ends may crash and come *)
(* back as a new incarnation; a restarted client gives out the same sid     *)
(* again. Data frames, clocks and budgets are left out (modules Sequence,  *)
(* Server and Replies): a timer fires whenever it is armed, and a reply the *)
(* budget refuses is a reply the channel loses.                            *)
(***************************************************************************)
EXTENDS Naturals, FiniteSets

CONSTANTS
  MaxClient,    \* client incarnations (bound of the model)
  MaxServer,    \* server incarnations (bound of the model)
  Caller,       \* the client incarnations that make a call
  MaxUpsets,    \* restarts and collected containers (bound of the model)
  MaxLives,     \* lives of a container at one server incarnation (bound of the model)
  MaxNet        \* frames in flight at once (bound of the model)

ASSUME CallAssumption ==
  /\ MaxClient \in Nat \ {0} /\ MaxServer \in Nat \ {0}
  /\ Caller \subseteq 1..MaxClient /\ MaxUpsets \in Nat /\ MaxNet \in Nat
  /\ MaxLives \in Nat \ {0}

Client == 1..MaxClient
Srv == 1..MaxServer
Life == 1..MaxLives

\* What remembers a call: a life of its container at a server incarnation.
Memory == Srv \X Life

\* A client ends a call by itself when the OPEN is refused, the caller cancels
\* or runs out of time, the peer resets the call or is lost, the process dies.
LocalEnd == {"failed"}

VARIABLES
  kind,      \* "unary", or "stream" for client-streaming and bidi; never changes
  ce, se,    \* the incarnations running: Conn.epoch, Server.epoch
  cl,        \* the call of client incarnation ce
  sv,        \* what server incarnation se knows of each call
  net,       \* frames in flight, either way
  life,      \* history: the life of each call's container at incarnation se
  asked, fate, outcome   \* history: see module Exchange

vars == <<kind, ce, se, cl, sv, net, life, asked, fate, outcome>>

Exch == INSTANCE Exchange
          WITH Call <- Caller, Server <- Memory, Local <- LocalEnd

Mem(c) == <<se, life[c]>>

\* A client call: its stream is live, tombstoned or forgotten; what it has
\* still to retransmit; whether an abort frame exists; the server incarnation
\* it has locked to.
NoCall == [phase |-> "idle", opened |-> FALSE, closed |-> FALSE, retxOpen |-> FALSE,
           retxClose |-> FALSE, abort |-> FALSE, lock |-> 0]

\* A server call: unknown, live, tombstoned with its terminal or its key only,
\* or under the aged watermark; what its receive window has let in; whether the
\* handler is cancelled, its terminal suppressed, a header frame stored; and
\* whether a RESET is held for the sid.
NoEntry == [know |-> "unknown", rx |-> "open", cancelled |-> FALSE, suppress |-> FALSE,
            hdr |-> FALSE, term |-> "none", held |-> FALSE]

\* Frames. Client frames name the client; server frames both incarnations; a
\* RESET echoes what it answers.
F(t, c, s, v) == [t |-> t, ce |-> c, se |-> s, v |-> v]
ToServer(t) == F(t, ce, 0, "none")
RstFor(f) == F("RST", f.ce, f.se, "none")
HFor(c) == F("H", c, se, "none")
TFor(c, v) == F("T", c, se, v)
SrvPing(c) == F("SPING", c, se, "none")
SrvRst(c) == F("SRST", c, 0, "none")

\* Sending: a full channel loses what it held.
Put(n, out) == IF Cardinality(n \cup out) > MaxNet THEN out ELSE n \cup out

ClientFrames == {"OPEN", "CLOSE", "ABORT", "PING", "RST"}
ServerFrames == {"H", "T", "SPING", "SRST"}

Frame == [t : ClientFrames \cup ServerFrames, ce : Caller, se : {0} \cup Srv,
          v : {"none"} \cup Exch!Verdict]

ClientCall == [phase : {"idle", "live", "ended", "gone"}, opened : BOOLEAN,
               closed : BOOLEAN, retxOpen : BOOLEAN, retxClose : BOOLEAN,
               abort : BOOLEAN, lock : {0} \cup Srv]

Entry == [know : {"unknown", "live", "tomb", "keyonly", "aged"},
          rx : {"open", "eof", "cut"}, cancelled : BOOLEAN, suppress : BOOLEAN,
          hdr : BOOLEAN, term : {"none"} \cup Exch!Verdict, held : BOOLEAN]

\* Types of the variables; a terminal frame and a full tombstone, and nothing
\* else, carry a verdict.
TypeOK ==
  /\ kind \in {"unary", "stream"} /\ ce \in Client /\ se \in Srv
  /\ cl \in ClientCall
  /\ sv \in [Caller -> Entry]
  /\ \A c \in Caller : (sv[c].know = "tomb") = (sv[c].term # "none")
  /\ net \subseteq Frame
  /\ \A f \in net : (f.t = "T") = (f.v # "none")
  /\ asked \subseteq Caller
  /\ life \in [Caller -> Life]
  /\ fate \in [Memory -> [Caller -> {"none", "running", "dropped"} \cup Exch!Verdict]]
  /\ outcome \in [Caller -> {"none"} \cup LocalEnd \cup Exch!Verdict]

Init ==
  /\ kind \in {"unary", "stream"}
  /\ ce = 1 /\ se = 1 /\ cl = NoCall /\ net = {}
  /\ sv = [c \in Caller |-> NoEntry] /\ life = [c \in Caller |-> 1]
  /\ Exch!Init

ServerSide == <<se, sv, life, fate>>
ClientSide == <<ce, cl, outcome>>

-----------------------------------------------------------------------------
(***************************************************************************)
(* The client's calls and timers.                                          *)
(***************************************************************************)
Live == cl.phase = "live"

Ends(o) == outcome' = [outcome EXCEPT ![ce] = o]

\* retire: the stream leaves the live map for a tombstone, which takes over the
\* abort and nothing else.
Retired(c) == [NoCall EXCEPT !.phase = "ended", !.abort = c.abort]

\* sendAbort: nothing before the OPEN is out, and never a second abort.
sendAbort(c) == [c EXCEPT !.closed = TRUE, !.abort = @ \/ c.opened]
AbortFrame(c) == IF c.opened /\ ~c.abort THEN {ToServer("ABORT")} ELSE {}

\* openFrame, transmitted.
SendOpen(c) ==
  /\ cl' = [c EXCEPT !.opened = TRUE, !.retxOpen = TRUE, !.closed = (kind = "unary")]
  /\ asked' = asked \cup {ce}
  /\ net' = Put(net, {ToServer("OPEN")})

\* newStream, invoke: the OPEN of a stream is sent at once, that of a unary call
\* with its request, which is encoded first.
createStream ==
  /\ cl.phase = "idle" /\ ce \in Caller
  /\ LET c == [NoCall EXCEPT !.phase = "live"]
     IN  IF kind = "stream" THEN SendOpen(c) ELSE cl' = c /\ UNCHANGED <<asked, net>>
  /\ UNCHANGED <<kind, ce, outcome, ServerSide>>

sendRaw ==
  /\ Live /\ ~cl.opened
  /\ SendOpen(cl)
  /\ UNCHANGED <<kind, ce, outcome, ServerSide>>

\* The adapter refuses the OPEN at once: nothing is out, so nothing is aborted.
\* (A refusal that comes later is a loss followed by failAll's local end.)
OpenRefused ==
  /\ Live /\ ~cl.opened
  /\ cl' = Retired(cl) /\ Ends("failed")
  /\ UNCHANGED <<kind, ce, net, asked, ServerSide>>

closeSend ==
  /\ Live /\ kind = "stream" /\ ~cl.closed
  /\ cl' = [cl EXCEPT !.closed = TRUE, !.retxClose = TRUE]
  /\ net' = Put(net, {ToServer("CLOSE")})
  /\ UNCHANGED <<kind, ce, asked, outcome, ServerSide>>

\* cancel, abortFromCtx, abandon, and every loud failure of the stream.
cancel ==
  /\ Live
  /\ cl' = Retired(sendAbort(cl)) /\ net' = Put(net, AbortFrame(cl)) /\ Ends("failed")
  /\ UNCHANGED <<kind, ce, asked, ServerSide>>

\* sweepRetx, and the tombstone's abort.
Owed == (IF cl.retxOpen THEN {ToServer("OPEN")} ELSE {})
        \cup (IF cl.retxClose THEN {ToServer("CLOSE")} ELSE {})
        \cup (IF cl.phase = "ended" /\ cl.abort THEN {ToServer("ABORT")} ELSE {})

sweepRetx ==
  /\ Owed \ net # {}
  /\ net' = Put(net, Owed)
  /\ UNCHANGED <<kind, asked, ClientSide, ServerSide>>

\* probeDue: as long as a frame is owed its retransmissions, at most probeMs
\* apart and first in every sweep, keep the stream from being idle.
probeDue ==
  /\ Live /\ cl.opened /\ Owed = {}
  /\ ToServer("PING") \notin net
  /\ net' = Put(net, {ToServer("PING")})
  /\ UNCHANGED <<kind, asked, ClientSide, ServerSide>>

\* The sweep hears nothing for livenessMs: failAll drops the obligations too.
failAll ==
  /\ Live
  /\ cl' = Retired(cl) /\ Ends("failed")
  /\ UNCHANGED <<kind, ce, net, asked, ServerSide>>

\* The sweep drops an expired tombstone.
TombExpires ==
  /\ cl.phase = "ended"
  /\ cl' = [cl EXCEPT !.phase = "gone", !.abort = FALSE]
  /\ UNCHANGED <<kind, ce, net, asked, outcome, ServerSide>>

-----------------------------------------------------------------------------
(***************************************************************************)
(* Conn.handle, for a frame of the server.                                 *)
(***************************************************************************)

\* The frame is consumed or duplicated; its replies are in flight.
Delivered(f, out) == \E rest \in {net, net \ {f}} : net' = Put(rest, out)

\* finishReset: the call ends, and is aborted in case a handler lives.
finishReset == Retired(sendAbort(cl))

clearTombAbort == [cl EXCEPT !.abort = FALSE]

OnReset(f) ==
  /\ f.t = "SRST"
  /\ IF f.ce # ce
     THEN UNCHANGED ClientSide /\ Delivered(f, {})
     ELSE IF Live
     THEN /\ cl' = finishReset /\ Ends("failed") /\ UNCHANGED ce
          /\ Delivered(f, AbortFrame(cl))
     ELSE /\ cl' = clearTombAbort /\ UNCHANGED <<ce, outcome>>
          /\ Delivered(f, {})
  /\ UNCHANGED <<kind, asked, ServerSide>>

\* A probe, or a frame naming another client incarnation: nothing of this one
\* is touched, and the server is told unless the call is live here.
OnProbe(f) ==
  /\ f.t = "SPING"
  /\ Delivered(f, IF f.ce = ce /\ Live THEN {} ELSE {RstFor(f)})
  /\ UNCHANGED <<kind, asked, ClientSide, ServerSide>>

Foreign(f) == f.ce # ce

\* Mutant: the stream takes frames of any server incarnation.
LockedOutNever(f) == FALSE

LockedOut(f) == cl.lock # 0 /\ f.se # cl.lock

\* handleRx of a header or a terminal, by a live call: the first frame locks,
\* any frame of the call ends the OPEN's retransmission.
Accepts(f) == [cl EXCEPT !.lock = f.se, !.retxOpen = FALSE]

OnHeader(f) ==
  /\ f.t = "H"
  /\ IF Foreign(f) \/ cl.phase \in {"idle", "gone"}
     THEN UNCHANGED ClientSide /\ Delivered(f, {RstFor(f)})
     ELSE /\ cl' = IF Live /\ ~LockedOut(f) THEN Accepts(f) ELSE cl
          /\ UNCHANGED <<ce, outcome>> /\ Delivered(f, {})
  /\ UNCHANGED <<kind, asked, ServerSide>>

OnTerminal(f) ==
  /\ f.t = "T"
  /\ IF Foreign(f) \/ cl.phase \in {"idle", "gone"}
     THEN UNCHANGED ClientSide /\ Delivered(f, {RstFor(f)})
     ELSE /\ IF Live
             THEN IF LockedOut(f) THEN UNCHANGED <<cl, outcome>>
                  ELSE cl' = Retired(Accepts(f)) /\ Ends(f.v)
             ELSE cl' = clearTombAbort /\ UNCHANGED outcome
          /\ UNCHANGED ce /\ Delivered(f, {})
  /\ UNCHANGED <<kind, asked, ServerSide>>

-----------------------------------------------------------------------------
(***************************************************************************)
(* Server.handle, for a frame of call c = f.ce.                            *)
(***************************************************************************)
Known(c) == sv[c].know

\* The entry after the frame, the fate of the call, and the replies.
Settles(f, e, v, out) ==
  /\ sv' = [sv EXCEPT ![f.ce] = e]
  /\ fate' = [fate EXCEPT ![Mem(f.ce)][f.ce] = v]
  /\ Delivered(f, out)
  /\ UNCHANGED <<kind, se, life, asked, ClientSide>>

Keeps(f, e, out) == Settles(f, e, fate[Mem(f.ce)][f.ce], out)

\* A frame other than a probe for a tombstone: the terminal again, if stored.
Replay(c) == IF Known(c) = "tomb" THEN {TFor(c, sv[c].term)} ELSE {}

\* Mutant: a rejected call leaves no tombstone.
openForgets(f) ==
  LET e == [NoEntry EXCEPT !.know = "live", !.hdr = (kind = "stream")]
  IN  \/ Settles(f, e, "running", IF kind = "stream" THEN {HFor(f.ce)} ELSE {})
      \/ Settles(f, sv[f.ce], "rejected", {TFor(f.ce, "rejected")})
      \/ Keeps(f, sv[f.ce], {SrvRst(f.ce)})

\* open, or rejectOpen: the first is acknowledged at once when it is a stream.
open(f) ==
  LET e == [NoEntry EXCEPT !.know = "live", !.hdr = (kind = "stream")]
      r == [NoEntry EXCEPT !.know = "tomb", !.term = "rejected", !.held = sv[f.ce].held]
  IN  \/ Settles(f, e, "running", IF kind = "stream" THEN {HFor(f.ce)} ELSE {})
      \/ Settles(f, r, "rejected", {TFor(f.ce, "rejected")})
      \/ Keeps(f, sv[f.ce], {SrvRst(f.ce)})   \* draining

\* Mutant: an aged call's OPEN is taken for a new one.
OnOpenAny(f) ==
  /\ f.t = "OPEN"
  /\ \/ Known(f.ce) \in {"unknown", "aged"} /\ open(f)
     \/ Known(f.ce) = "live" /\ Keeps(f, sv[f.ce], IF sv[f.ce].hdr THEN {HFor(f.ce)} ELSE {})
     \/ Known(f.ce) \in {"tomb", "keyonly"} /\ Keeps(f, sv[f.ce], Replay(f.ce))

OnOpen(f) ==
  /\ f.t = "OPEN"
  /\ \/ Known(f.ce) = "unknown" /\ open(f)
     \/ Known(f.ce) = "live" /\ Keeps(f, sv[f.ce], IF sv[f.ce].hdr THEN {HFor(f.ce)} ELSE {})
     \/ Known(f.ce) \in {"tomb", "keyonly"} /\ Keeps(f, sv[f.ce], Replay(f.ce))
     \/ Known(f.ce) = "aged" /\ Keeps(f, sv[f.ce], {SrvRst(f.ce)})

\* A half-close or an abort at a live call: the abort has the higher seq, and a
\* half-close behind it is a late frame.
Received(e, t) ==
  IF t = "ABORT" THEN [e EXCEPT !.rx = "cut", !.cancelled = TRUE]
  ELSE [e EXCEPT !.rx = IF @ = "open" THEN "eof" ELSE @]

OnClose(f) ==
  /\ f.t \in {"CLOSE", "ABORT"}
  /\ \/ Known(f.ce) = "live" /\ Keeps(f, Received(sv[f.ce], f.t), {})
     \/ Known(f.ce) \in {"tomb", "keyonly"} /\ Keeps(f, sv[f.ce], Replay(f.ce))
     \/ Known(f.ce) \in {"unknown", "aged"} /\ Keeps(f, [sv[f.ce] EXCEPT !.held = TRUE], {})

OnPing(f) ==
  /\ f.t = "PING"
  /\ Keeps(f, sv[f.ce], CASE Known(f.ce) = "live" -> {}
                          [] Known(f.ce) = "tomb" -> Replay(f.ce)
                          [] OTHER -> {SrvRst(f.ce)})

\* Mutant: the RESET is not acted on.
resetByPeerSidNot(f) == f.t = "RST" /\ Keeps(f, sv[f.ce], {})

\* A RESET naming this incarnation: the peer has disowned the call.
resetByPeerSid(f) ==
  /\ f.t = "RST"
  /\ Keeps(f, IF f.se = se /\ Known(f.ce) = "live"
              THEN [sv[f.ce] EXCEPT !.suppress = TRUE, !.cancelled = TRUE]
              ELSE sv[f.ce], {})

-----------------------------------------------------------------------------
(***************************************************************************)
(* The server's handlers and timers.                                       *)
(***************************************************************************)
SrvStep(c, e, out) ==
  /\ sv' = [sv EXCEPT ![c] = e]
  /\ net' = Put(net, out)
  /\ UNCHANGED <<kind, se, life, asked, ClientSide>>

\* sendHeader of a unary handler.
sendHeader(c) ==
  /\ Known(c) = "live" /\ ~sv[c].hdr
  /\ SrvStep(c, [sv[c] EXCEPT !.hdr = TRUE], {HFor(c)}) /\ UNCHANGED fate

\* What a returning handler's terminal may say: an error once it is cancelled.
Verdicts(c) == IF sv[c].cancelled THEN {"error"} ELSE {"ok", "error"}

\* The handler returns: the terminal is sent and stored, unless it is
\* suppressed; a tombstone may have no room for it.
finish(c) ==
  /\ Known(c) = "live"
  /\ \E v \in Verdicts(c) :
       IF sv[c].suppress
       THEN /\ fate' = [fate EXCEPT ![Mem(c)][c] = "dropped"]
            /\ SrvStep(c, [NoEntry EXCEPT !.know = "keyonly", !.held = sv[c].held], {})
       ELSE /\ fate' = [fate EXCEPT ![Mem(c)][c] = v]
            /\ \/ SrvStep(c, [NoEntry EXCEPT !.know = "tomb", !.term = v, !.held = sv[c].held],
                          {TFor(c, v)})
               \/ SrvStep(c, [NoEntry EXCEPT !.know = "keyonly", !.held = sv[c].held],
                          {TFor(c, v)})

\* The call's deadline.
CallTimeout(c) ==
  /\ Known(c) = "live" /\ ~sv[c].cancelled
  /\ SrvStep(c, [sv[c] EXCEPT !.cancelled = TRUE], {}) /\ UNCHANGED fate

\* Mutant: the terminals of the tombstones are kept.
PeerLostKeeps(c) ==
  /\ \/ Known(c) = "live" /\ SrvStep(c, [sv[c] EXCEPT !.suppress = TRUE, !.cancelled = TRUE], {})
     \/ Known(c) = "tomb" /\ SrvStep(c, [sv[c] EXCEPT !.know = "keyonly"], {})
  /\ UNCHANGED fate

\* The sweep finds the peer silent: live calls are cancelled and will answer
\* nothing, tombstones lose their terminals.
PeerLost(c) ==
  /\ \/ Known(c) = "live" /\ SrvStep(c, [sv[c] EXCEPT !.suppress = TRUE, !.cancelled = TRUE], {})
     \/ Known(c) = "tomb" /\ SrvStep(c, [sv[c] EXCEPT !.know = "keyonly", !.term = "none"], {})
  /\ UNCHANGED fate

\* The sweep drops a tombstone the aged watermark has come to cover.
SrvTombExpires(c) ==
  /\ Known(c) \in {"tomb", "keyonly"}
  /\ SrvStep(c, [NoEntry EXCEPT !.know = "aged", !.held = sv[c].held], {}) /\ UNCHANGED fate

\* Restarts, and lives of containers over at this incarnation.
Upsets == (ce - 1) + (se - 1) + Cardinality({x \in Caller \X Life : x[2] < life[x[1]]})

\* The container of the call is gone and what it remembered with it: the sweep
\* collects one without live calls and tombstones 2 x tombstoneMs after the last
\* frame, and a new incarnation of the peer evicts the oldest without live calls,
\* tombstones and all, when maxDeadPeers are kept. The held RESET is the slot's.
Collected(c) ==
  /\ Known(c) \in {"tomb", "keyonly", "aged"} 
  /\ life[c] < MaxLives /\ Upsets < MaxUpsets
  /\ sv' = [sv EXCEPT ![c] = [NoEntry EXCEPT !.held = sv[c].held]]
  /\ life' = [life EXCEPT ![c] = @ + 1]
  /\ UNCHANGED <<kind, se, net, asked, fate, ClientSide>>

\* Mutant: the held RESET is dropped when its time has come.
HeldResetDropped(c) ==
  /\ sv[c].held
  /\ SrvStep(c, [sv[c] EXCEPT !.held = FALSE], {})
  /\ UNCHANGED fate

\* The sweep reaches a held RESET.
HeldReset(c) ==
  /\ sv[c].held
  /\ SrvStep(c, [sv[c] EXCEPT !.held = FALSE],
             IF Known(c) \in {"live", "tomb", "keyonly"} THEN {} ELSE {SrvRst(c)})
  /\ UNCHANGED fate

SrvProbe(c) ==
  /\ Known(c) = "live" /\ SrvPing(c) \notin net
  /\ SrvStep(c, sv[c], {SrvPing(c)}) /\ UNCHANGED fate

-----------------------------------------------------------------------------
(***************************************************************************)
(* The environment.                                                        *)
(***************************************************************************)
\* The server process is gone, and with it everything it knew.
ServerRestart ==
  /\ se < MaxServer /\ Upsets < MaxUpsets
  /\ se' = se + 1 /\ sv' = [c \in Caller |-> NoEntry] /\ life' = [c \in Caller |-> 1]
  /\ UNCHANGED <<kind, net, asked, fate, ClientSide>>

\* A new Conn: a new epoch, the same sids.
ClientRestart ==
  /\ ce < MaxClient /\ Upsets < MaxUpsets
  /\ ce' = ce + 1 /\ cl' = NoCall
  /\ outcome' = IF cl.phase = "live" THEN [outcome EXCEPT ![ce] = "failed"] ELSE outcome
  /\ UNCHANGED <<kind, net, asked, ServerSide>>

Lose ==
  /\ \E f \in net : net' = net \ {f}
  /\ UNCHANGED <<kind, asked, ClientSide, ServerSide>>

Handle(f) ==
  \/ OnReset(f) \/ OnProbe(f) \/ OnHeader(f) \/ OnTerminal(f)
  \/ OnOpen(f) \/ OnClose(f) \/ OnPing(f) \/ resetByPeerSid(f)

ClientTurn == createStream \/ sendRaw \/ OpenRefused \/ closeSend \/ cancel \/ failAll
              \/ TombExpires

ServerTurn(c) == sendHeader(c) \/ CallTimeout(c) \/ PeerLost(c) \/ SrvTombExpires(c)
                 \/ Collected(c) \/ HeldReset(c)

Next ==
  \/ \E f \in net : Handle(f)
  \/ ClientTurn \/ sweepRetx \/ probeDue
  \/ \E c \in Caller : ServerTurn(c) \/ finish(c) \/ SrvProbe(c)
  \/ ServerRestart \/ ClientRestart \/ Lose

Spec == Init /\ [][Next]_vars

(***************************************************************************)
(* Fairness. A frame sent over and over gets through in the end, one of     *)
(* the kinds termination rests on: neither acks, terminals nor aborts;     *)
(* armed timers fire; an encoder returns; a handler returns once its call  *)
(* is cancelled or its input has ended, a unary one whatever happens.      *)
(***************************************************************************)
Relied == {"OPEN", "CLOSE", "PING", "RST", "SPING", "SRST"}

Deliver(t, c) == \E f \in net : f.t = t /\ f.ce = c /\ f.se \in {0, se} /\ Handle(f)

Returns(c) ==
  (kind = "unary" \/ sv[c].cancelled \/ sv[c].rx # "open") /\ finish(c)

Timers(c) == HeldReset(c) \/ SrvTombExpires(c)

Fairness ==
  /\ WF_vars(sendRaw) /\ WF_vars(sweepRetx) /\ WF_vars(probeDue)
  /\ \A c \in Caller : WF_vars(SrvProbe(c)) /\ WF_vars(Returns(c)) /\ WF_vars(Timers(c))
  /\ \A t \in Relied, c \in Caller : SF_vars(Deliver(t, c))

FairSpec == Spec /\ Fairness

-----------------------------------------------------------------------------
(***************************************************************************)
(* Properties.                                                             *)
(***************************************************************************)

\* The protocol implements the exchange: whatever is lost, duplicated, delayed
\* or restarted, a life of the call's container executes or rejects it at most
\* once and only if its OPEN was sent, a handler has one verdict, and a client ends
\* a call once, with a verdict reached on that very call - not on the call of a
\* dead client that had the same sid - or with its own failure. An OPEN that
\* outlives the container is executed again, in the next life: module Server's
\* StrictlyAtMostOnce is refuted by that.
Implements == Exch!Spec

\* The incarnation s reached verdict v on call c.
Reached(s, c, v) == \E l \in Life : fate[<<s, l>>][c] = v

\* Every terminal in flight is a verdict its incarnation reached on its call, and
\* one in a tombstone the verdict of this life of the container; an OPEN in flight,
\* or owed, is of a call that was made; what the server still knows of a call tells
\* whether this life of the container has run it; a life not yet begun has run
\* nothing; a call not yet ended has no outcome.
Agreement ==
  /\ \A f \in net : /\ f.t = "T" => f.se \in Srv /\ Reached(f.se, f.ce, f.v)
                    /\ f.t = "OPEN" => f.ce \in asked
  /\ \A c \in Caller :
       /\ (Known(c) = "unknown") = (fate[Mem(c)][c] = "none")
       /\ (Known(c) = "live") = (fate[Mem(c)][c] = "running")
       /\ Known(c) = "tomb" => fate[Mem(c)][c] = sv[c].term
       /\ \A s \in Srv, l \in Life :
            s > se \/ (s = se /\ l > life[c]) => fate[<<s, l>>][c] = "none"
       /\ c > ce => outcome[c] = "none"
  /\ Live => outcome[ce] = "none"
  /\ cl.phase = "idle" => cl = NoCall /\ (ce \in Caller => outcome[ce] = "none")
  /\ cl.phase # "idle" => ce \in Caller
  /\ cl.retxOpen => ce \in asked

\* A call that has heard a server incarnation is not completed by the verdict of
\* another: a re-execution after a restart never answers it (handleRx's epoch
\* lock).
LockHolds ==
  [][Live /\ cl.lock # 0 /\ outcome'[ce] \in Exch!Verdict
       => Reached(cl.lock, ce, outcome'[ce])]_vars

\* A unary call, and a stream whose sending side is closed, end at the client:
\* lost terminals and lost half-closes are recovered from by retransmissions,
\* probes and RESETs, across a restart of the server too (sweepRetx, probeDue).
CallEnds == Live /\ (kind = "unary" \/ cl.closed) ~> ~Live

\* A handler whose client has ended the call, forgotten it or restarted is
\* cancelled or returns, even if no abort ever arrives, or one arrived before
\* the OPEN and its obligation is gone (the server's probes and the RESETs they
\* draw).
HandlerStops ==
  \A c \in Caller :
    Known(c) = "live" /\ (c # ce \/ ~Live) ~> Known(c) # "live" \/ sv[c].cancelled

\* A stream locked to a server incarnation that is gone fails: "The next client
\* frame [...] hits the new incarnation as an unknown sid and draws a delayed
\* RESET" (docs/PROTOCOL.md, 6.5).
StreamFails == Live /\ cl.lock \notin {0, se} ~> ~Live
=============================================================================
