------------------------------- MODULE Upload -------------------------------
(***************************************************************************)
(* The two windows of a reliable channel in the client-to-server           *)
(* direction: client-streaming calls of one Conn share the connection      *)
(* window of the server, and each has its own stream window.               *)
(*                                                                         *)
(* Both ends run on event loops (ts/src/conn.ts, ts/src/server.ts), so a   *)
(* step is what runs between two awaits. Client: the application's send    *)
(* per call, which yields when it parks, when it encodes and when the      *)
(* adapter takes or refuses the frame, and Conn.handle. Server:            *)
(* Server.handle, which takes a frame from the read loop to the buffer     *)
(* without yielding, and one handler per call, which yields before its     *)
(* terminal is built. The channel is ordered and loses nothing. A server   *)
(* may start to drain, and a new incarnation may replace it on the         *)
(* surviving channel.                                                      *)
(*                                                                         *)
(* Sequence numbers are left out: an ordered channel keeps them in step,   *)
(* and an abort numbered after a frame that the adapter then refuses ends  *)
(* the call by the sequence check instead, which cancels the handler too   *)
(* (module Sequence has the numbering).                                    *)
(***************************************************************************)
EXTENDS Flow, Sequences, FiniteSets, FiniteSetsExt

CONSTANTS
  Calls,       \* the client-streaming calls of the Conn
  WInit,       \* W_INIT, the stream window the client assumes
  RxBuffer,    \* the server's rx buffer, which it advertises per stream
  WConn,       \* W_CONN, the connection window the client assumes
  PeerWindow,  \* Limits.maxPeerWindow, which the server advertises
  Stuck,       \* the calls whose handler may never read
  MaxMsgs,     \* messages per call (bound of the model)
  MaxFaults,   \* calls that end early, and drains (bound of the model)
  MaxEpoch     \* server incarnations (bound of the model)

ASSUME UploadAssumption ==
  /\ IsFiniteSet(Calls) /\ Stuck \subseteq Calls
  /\ WInit \in Nat \ {0} /\ RxBuffer \in Nat /\ RxBuffer >= WInit
  /\ WConn \in Nat \ {0} /\ PeerWindow \in Nat /\ PeerWindow >= WConn
  /\ MaxMsgs \in Nat /\ MaxFaults \in Nat /\ MaxEpoch \in Nat \ {0}

VARIABLES
  cli,     \* ClientStream of each call
  connTx,  \* Conn.connTx
  locked,  \* the server epoch the Conn is locked to, 0 for none
  up,      \* frames on their way to the server
  down,    \* frames on their way to the client
  epoch,   \* the server incarnation
  draining,   \* the server refuses new calls
  srv,     \* ServerStream of each call
  known,   \* the server has a container and a ledger for the client
  ledger,  \* PeerFlowRx
  faults   \* how many of the faults have happened

cvars == <<cli, connTx, locked>>
svars == <<epoch, draining, srv, known, ledger>>
vars == <<cvars, up, down, svars, faults>>

Epochs == 1..MaxEpoch

\* What send of a call is doing: nothing, parked on its stream's window or on
\* the connection's, woken, encoding with both credits taken, or awaiting the
\* adapter that is about to refuse the frame.
Sending == {"no", "stream", "conn", "woken", "held", "refused"}

NewClient == [state |-> "new", tx |-> assume(WInit), closed |-> FALSE, srv |-> 0,
              sending |-> "no", msgs |-> 0]
NewServer == [state |-> "none", cancelled |-> FALSE, suppress |-> FALSE,
              buffered |-> 0, pinned |-> 0, pending |-> 0, lost |-> FALSE]

UpFrame ==
  [kind : {"open", "data", "close", "abort"}, call : Calls]
    \cup [kind : {"reset"}, call : Calls, epoch : Epochs]
DownFrame ==
  [kind : {"header", "terminal"}, call : Calls, epoch : Epochs]
    \cup [kind : {"reset"}, call : Calls]
    \cup [kind : {"window"}, call : Calls, epoch : Epochs, n : Nat]
    \cup [kind : {"connwindow"}, epoch : Epochs, n : Nat]

TypeOK ==
  /\ cli \in [Calls -> [state : {"new", "live", "answered", "aborted"}, tx : Sender, closed : BOOLEAN,
                        srv : 0..MaxEpoch, sending : Sending, msgs : 0..MaxMsgs]]
  /\ connTx \in Sender
  /\ locked \in 0..MaxEpoch
  /\ up \in Seq(UpFrame)
  /\ down \in Seq(DownFrame)
  /\ epoch \in Epochs
  /\ draining \in BOOLEAN /\ known \in BOOLEAN
  /\ srv \in [Calls -> [state : {"none", "live", "ending", "gone"},
                        cancelled : BOOLEAN, suppress : BOOLEAN,
                        buffered : 0..RxBuffer, pinned : Nat, pending : Nat,
                        lost : BOOLEAN]]
  /\ ledger \in Ledger
  /\ faults \in 0..MaxFaults

Init ==
  /\ cli = [c \in Calls |-> NewClient]
  /\ connTx = assume(WConn)
  /\ locked = 0
  /\ up = <<>>
  /\ down = <<>>
  /\ epoch = 1
  /\ draining = FALSE
  /\ srv = [c \in Calls |-> NewServer]
  /\ known = FALSE
  /\ ledger = NewLedger
  /\ faults = 0

-----------------------------------------------------------------------------
(***************************************************************************)
(* The client's calls. cl is a value of cli: the operators say what a      *)
(* handler makes of it. A call is answered once a terminal ended it, and   *)
(* aborted once its abort frame exists.                                    *)
(***************************************************************************)
Live(c) == cli[c].state = "live"

\* Every parked send of the connection window is woken.
WakeConn(cl) ==
  [c \in Calls |-> IF cl[c].sending = "conn" THEN [cl[c] EXCEPT !.sending = "woken"]
                                             ELSE cl[c]]

WakeStream(cl, c) ==
  [cl EXCEPT ![c].sending = IF @ = "stream" THEN "woken" ELSE @]

\* finishTerm and finishLocal: the call is done and its sender released.
Finished(cl, c, state) ==
  WakeStream([cl EXCEPT ![c].state = state, ![c].tx = release(@)], c)

\* sendAbort and finishLocal: one abort frame per call, even for an answered one.
NoAbortYet(c) == cli[c].state \in {"live", "answered"}
Aborted(cl, c) == IF NoAbortYet(c) THEN Finished(cl, c, "aborted") ELSE cl
AbortOn(ch, c) == IF NoAbortYet(c) THEN Append(ch, [kind |-> "abort", call |-> c]) ELSE ch

\* newStream: the OPEN of a client-streaming call is eager, bare and uncredited.
newStream(c) ==
  /\ cli[c].state = "new"
  /\ cli' = [cli EXCEPT ![c].state = "live"]
  /\ up' = Append(up, [kind |-> "open", call |-> c])
  /\ UNCHANGED <<connTx, locked, down, svars>>

\* takeBoth, from sendRaw or after a wake-up: both credits or neither.
takeBoth(c) ==
  /\ Live(c)
  /\ \/ cli[c].sending = "no" /\ ~cli[c].closed /\ cli[c].msgs < MaxMsgs
     \/ cli[c].sending = "woken"
  /\ LET begun == [cli EXCEPT ![c].msgs = IF cli[c].sending = "no" THEN @ + 1 ELSE @]
     IN \/ /\ empty(cli[c].tx)
           /\ cli' = [begun EXCEPT ![c].sending = "stream"]
           /\ UNCHANGED connTx
        \/ /\ ~empty(cli[c].tx) /\ empty(connTx)
           /\ cli' = [begun EXCEPT ![c].sending = "conn"]
           /\ UNCHANGED connTx
        \/ /\ ~empty(cli[c].tx) /\ ~empty(connTx)
           /\ cli' = [begun EXCEPT ![c].sending = "held", ![c].tx = take(@)]
           /\ connTx' = take(connTx)
  /\ UNCHANGED <<locked, up, down, svars>>

\* acquireBoth: the call ended under a parked or woken send.
ParkEnds(c) ==
  /\ ~Live(c)
  /\ cli[c].sending \in {"stream", "conn", "woken"}
  /\ cli' = [cli EXCEPT ![c].sending = "no"]
  /\ UNCHANGED <<connTx, locked, up, down, svars>>

\* T_stall ends a parked send and, in send, its call with it.
Stall(c) ==
  /\ Live(c)
  /\ cli[c].sending \in {"stream", "conn"}
  /\ cli' = [Aborted(cli, c) EXCEPT ![c].sending = "no"]
  /\ up' = AbortOn(up, c)
  /\ UNCHANGED <<connTx, locked, down, svars>>

\* Mutant: the stream's half is forgotten.
undoCreditConnOnly(cl, c) ==
  /\ connTx' = refund(connTx, 1)
  /\ cli' = WakeConn([cl EXCEPT ![c].sending = "no"])

\* undoCredit: both halves or neither. The send is over.
undoCredit(cl, c) ==
  LET undone == [cl EXCEPT ![c].tx = refund(@, 1), ![c].sending = "no"]
  IN  IF cli[c].tx.sent > 0
      THEN connTx' = refund(connTx, 1) /\ cli' = WakeConn(undone)
      ELSE connTx' = connTx /\ cli' = undone

\* sendRaw, encoded: the call ended, or was half-closed, since the credit was
\* taken; or the frame is numbered and the adapter takes it, or refuses it.
SendEnded(c) ==
  /\ cli[c].sending = "held"
  /\ ~Live(c) \/ cli[c].closed
  /\ undoCredit(cli, c)
  /\ UNCHANGED <<locked, up, down, svars>>

Encoded(c) == cli[c].sending = "held" /\ Live(c) /\ ~cli[c].closed

Transmit(c) ==
  /\ Encoded(c)
  /\ cli' = [cli EXCEPT ![c].sending = "no"]
  /\ up' = Append(up, [kind |-> "data", call |-> c])
  /\ UNCHANGED <<connTx, locked, down, svars>>

Refuse(c) ==
  /\ Encoded(c)
  /\ cli' = [cli EXCEPT ![c].sending = "refused"]
  /\ UNCHANGED <<connTx, locked, up, down, svars>>

\* The message does not encode, or undoRefused after the adapter's refusal of a
\* message that is too large: the credit goes back and send aborts the call. A
\* refusal for another reason, which refunds nothing, is a channel that is dead.
SendFails(c, from) ==
  /\ cli[c].sending = from
  /\ undoCredit(Aborted(cli, c), c)
  /\ up' = AbortOn(up, c)
  /\ UNCHANGED <<locked, down, svars>>

\* closeSend, possibly under a send that is parked or encoding.
closeSend(c) ==
  /\ Live(c) /\ ~cli[c].closed
  /\ cli' = [cli EXCEPT ![c].closed = TRUE]
  /\ up' = Append(up, [kind |-> "close", call |-> c])
  /\ UNCHANGED <<connTx, locked, down, svars>>

\* cancel, abortFromCtx, abandon.
cancel(c) ==
  /\ Live(c)
  /\ cli' = Aborted(cli, c)
  /\ up' = AbortOn(up, c)
  /\ UNCHANGED <<connTx, locked, down, svars>>

-----------------------------------------------------------------------------
(***************************************************************************)
(* Conn.handle, one action per kind of frame.                              *)
(***************************************************************************)
Heads(ch) == {ch[i] : i \in DOMAIN ch \cap {1}}
Received(kind, f) == f.kind = kind /\ down' = Tail(down)

\* Mutant: the count of the dead incarnation survives the restart.
RelockedKeeps(e) == connTx

\* lockServerEpoch: the Conn hears e. A new incarnation starts the sender over.
Relocked(e) == IF locked \notin {0, e} THEN reassume(WConn) ELSE connTx

\* reassume and the first observe wake the parked sends.
Wakes(e) == locked \notin {0, e} \/ ~connTx.observed

\* finishReset: before the first lock nobody else returns the call's credit.
finishReset ==
  \E f \in Heads(down) :
    /\ Received("reset", f)
    /\ IF ~Live(f.call) THEN UNCHANGED <<cli, connTx, up>>
       ELSE /\ up' = AbortOn(up, f.call)
            /\ IF locked = 0
               THEN /\ connTx' = refund(connTx, cli[f.call].tx.sent)
                    /\ cli' = WakeConn([Aborted(cli, f.call) EXCEPT ![f.call].tx = drain(@)])
               ELSE cli' = Aborted(cli, f.call) /\ UNCHANGED connTx
    /\ UNCHANGED <<locked, svars>>

\* Mutant: a connection grant wakes no one.
OnConnGrantQuiet ==
  \E f \in Heads(down) :
    /\ Received("connwindow", f)
    /\ connTx' = IF locked = f.epoch THEN grant(connTx, f.n) ELSE connTx
    /\ UNCHANGED <<cli, locked, up, svars>>

\* A connection grant counts only from the incarnation the Conn is locked to.
OnConnGrant ==
  \E f \in Heads(down) :
    /\ Received("connwindow", f)
    /\ IF locked = f.epoch
       THEN connTx' = grant(connTx, f.n) /\ cli' = WakeConn(cli)
       ELSE UNCHANGED <<connTx, cli>>
    /\ UNCHANGED <<locked, up, svars>>

\* A stream grant, for a live call that is not locked to another incarnation.
OnGrant ==
  \E f \in Heads(down) :
    /\ Received("window", f)
    /\ IF Live(f.call) /\ cli[f.call].srv \in {0, f.epoch}
       THEN cli' = WakeStream([cli EXCEPT ![f.call].tx = grant(@, f.n)], f.call)
       ELSE UNCHANGED cli
    /\ UNCHANGED <<connTx, locked, up, svars>>

\* An H or a T for a live call, unless the call is locked to another incarnation:
\* lock, then apply the advertisements; a T ends the call.
OnAnswer(kind) ==
  \E f \in Heads(down) :
    /\ Received(kind, f)
    /\ Live(f.call)
    /\ LET first == cli[f.call].srv = 0
           window == IF kind = "header" THEN RxBuffer ELSE 0
           heard == [cli EXCEPT ![f.call].srv = f.epoch, ![f.call].tx = observe(@, window)]
           applied == IF kind = "header" THEN WakeStream(heard, f.call)
                                         ELSE Finished(heard, f.call, "answered")
       IN  IF cli[f.call].srv \notin {0, f.epoch} THEN UNCHANGED cvars
           ELSE /\ locked' = IF first THEN f.epoch ELSE locked
                /\ connTx' = observe(IF first THEN Relocked(f.epoch) ELSE connTx, PeerWindow)
                /\ cli' = IF first /\ Wakes(f.epoch) THEN WakeConn(applied) ELSE applied
    /\ UNCHANGED <<up, svars>>

\* An H or a T for a call this side no longer has still locks and advertises,
\* and draws a RESET.
OnStrayAnswer(kind) ==
  \E f \in Heads(down) :
    /\ Received(kind, f)
    /\ ~Live(f.call)
    /\ locked' = f.epoch
    /\ connTx' = observe(Relocked(f.epoch), PeerWindow)
    /\ cli' = IF Wakes(f.epoch) THEN WakeConn(cli) ELSE cli
    /\ up' = Append(up, [kind |-> "reset", call |-> f.call, epoch |-> f.epoch])
    /\ UNCHANGED svars

-----------------------------------------------------------------------------
(***************************************************************************)
(* Server.handle.                                                          *)
(***************************************************************************)
InCalls(c) == srv[c].state \in {"live", "ending"}

Delivered(kind, f) == f.kind = kind /\ up' = Tail(up)

ResetFor(c) == [kind |-> "reset", call |-> c]
Answer(kind, c) == [kind |-> kind, call |-> c, epoch |-> epoch]

\* grantOn: the grant of a settled ledger, if there is one.
GrantOn(ch, s) ==
  IF s.grant = 0 THEN ch
  ELSE Append(ch, [kind |-> "connwindow", epoch |-> epoch, n |-> s.grant])

open ==
  \E f \in Heads(up) :
    /\ Delivered("open", f)
    /\ ~draining
    /\ srv' = [srv EXCEPT ![f.call].state = "live"]
    /\ known' = TRUE
    /\ down' = Append(down, Answer("header", f.call))
    /\ UNCHANGED <<cvars, epoch, draining, ledger>>

\* rejectOpen: no call, but the container and the ledger exist from here on.
rejectOpen ==
  \E f \in Heads(up) :
    /\ Delivered("open", f)
    /\ ~draining
    /\ known' = TRUE
    /\ down' = Append(down, Answer("terminal", f.call))
    /\ UNCHANGED <<cvars, epoch, draining, srv, ledger>>

SrvRefuse ==
  \E f \in Heads(up) :
    /\ Delivered("open", f)
    /\ draining
    /\ down' = Append(down, ResetFor(f.call))
    /\ UNCHANGED <<cvars, svars>>

\* handleRx of a data frame: the connection window first, then the pin count and
\* the buffer. Refused by either, it fails its call and its credit goes back.
SrvData ==
  \E f \in Heads(up) :
    /\ Delivered("data", f)
    /\ InCalls(f.call)
    /\ LET c == f.call
           admitted == admissible(ledger, PeerWindow)
           s == IF admitted THEN retire(admit(ledger), 1, PeerWindow)
                            ELSE unadmitted(ledger, 1, PeerWindow)
       IN  IF admitted /\ srv[c].buffered < RxBuffer
           THEN /\ ledger' = admit(ledger)
                /\ srv' = [srv EXCEPT ![c].pinned = @ + 1, ![c].buffered = @ + 1]
                /\ UNCHANGED down
           ELSE /\ ledger' = s.ledger
                /\ srv' = [srv EXCEPT ![c].cancelled = TRUE]
                /\ down' = GrantOn(down, s)
    /\ UNCHANGED <<cvars, epoch, draining, known>>

\* Mutant: the credit of a frame that drew a RESET is not returned.
SrvStrayDataLost ==
  \E f \in Heads(up) :
    /\ Delivered("data", f)
    /\ ~InCalls(f.call)
    /\ down' = Append(down, ResetFor(f.call))
    /\ UNCHANGED <<cvars, svars>>

\* A data frame for a call this side does not have: its credit goes back to an
\* incarnation with a container, and it draws a RESET. (Containers of the one Conn
\* here are never evicted: what an evicted one is owed is in module Download.)
SrvStrayData ==
  \E f \in Heads(up) :
    /\ Delivered("data", f)
    /\ ~InCalls(f.call)
    /\ LET s == unadmitted(ledger, 1, PeerWindow)
       IN  IF known
           THEN /\ ledger' = s.ledger
                /\ down' = Append(GrantOn(down, s), ResetFor(f.call))
           ELSE /\ down' = Append(down, ResetFor(f.call))
                /\ UNCHANGED ledger
    /\ UNCHANGED <<cvars, epoch, draining, srv, known>>

\* An abort cancels the handler; a half-close only ends its input.
SrvClose(kind) ==
  \E f \in Heads(up) :
    /\ Delivered(kind, f)
    /\ IF InCalls(f.call)
       THEN /\ srv' = [srv EXCEPT ![f.call].cancelled = @ \/ kind = "abort"]
            /\ UNCHANGED down
       ELSE down' = Append(down, ResetFor(f.call)) /\ UNCHANGED srv
    /\ UNCHANGED <<cvars, epoch, draining, known, ledger>>

\* resetByPeerSid, for a RESET that echoes this incarnation.
resetByPeerSid ==
  \E f \in Heads(up) :
    /\ Delivered("reset", f)
    /\ srv' = IF f.epoch = epoch /\ InCalls(f.call)
              THEN [srv EXCEPT ![f.call].suppress = TRUE, ![f.call].cancelled = TRUE]
              ELSE srv
    /\ UNCHANGED <<cvars, down, epoch, draining, known, ledger>>

-----------------------------------------------------------------------------
(***************************************************************************)
(* The handlers, and the server's life.                                    *)
(***************************************************************************)

\* recvBuffered: the connection credit goes back as the frame leaves the
\* buffer, then the stream's, unless the call is over or the frame does not
\* decode: the handler gets the error and may go on.
recvBuffered(c, decodes) ==
  /\ srv[c].state = "live" /\ srv[c].buffered > 0
  /\ LET s == retire(ledger, 1, PeerWindow)
         r == consumed(srv[c].pending, 1, RxBuffer)
         back == GrantOn(down, s)
         grants == decodes /\ ~srv[c].cancelled
     IN  /\ ledger' = s.ledger
         /\ srv' = [srv EXCEPT ![c].buffered = @ - 1, ![c].pinned = @ - 1,
                               ![c].pending = IF grants THEN r.pending ELSE @,
                               ![c].lost = @ \/ ~decodes]
         /\ down' = IF ~grants \/ r.grant = 0 THEN back
                    ELSE Append(back, [kind |-> "window", call |-> c,
                                       epoch |-> epoch, n |-> r.grant])
  /\ UNCHANGED <<cvars, up, epoch, draining, known>>

\* runStream: the handler returns, and its terminal is being built.
Return(c) ==
  /\ srv[c].state = "live"
  /\ srv' = [srv EXCEPT ![c].state = "ending"]
  /\ UNCHANGED <<cvars, up, down, epoch, draining, known, ledger>>

\* The terminal goes out, unless suppressed, and finish: the call leaves the
\* map and everything still pinned is returned.
finish(c) ==
  /\ srv[c].state = "ending"
  /\ srv' = [srv EXCEPT ![c].state = "gone", ![c].pinned = 0]
  /\ LET s == retire(ledger, srv[c].pinned, PeerWindow)
         sent == IF srv[c].suppress THEN down ELSE Append(down, Answer("terminal", c))
     IN  IF srv[c].pinned = 0 THEN down' = sent /\ UNCHANGED ledger
         ELSE down' = GrantOn(sent, s) /\ ledger' = s.ledger
  /\ UNCHANGED <<cvars, up, epoch, draining, known>>

gracefulStop ==
  /\ ~draining
  /\ draining' = TRUE
  /\ UNCHANGED <<cvars, up, down, epoch, srv, known, ledger>>

\* A new incarnation takes over the surviving channel.
Restart ==
  /\ epoch < MaxEpoch
  /\ epoch' = epoch + 1
  /\ draining' = FALSE
  /\ srv' = [c \in Calls |-> NewServer]
  /\ known' = FALSE
  /\ ledger' = NewLedger
  /\ UNCHANGED <<cvars, up, down>>

-----------------------------------------------------------------------------
send(c) ==
  takeBoth(c) \/ ParkEnds(c) \/ SendEnded(c) \/ Transmit(c) \/ SendFails(c, "refused")

ClientHandle ==
  \/ finishReset \/ OnConnGrant \/ OnGrant
  \/ \E kind \in {"header", "terminal"} : OnAnswer(kind) \/ OnStrayAnswer(kind)

ServerHandle ==
  \/ open \/ SrvRefuse \/ SrvData \/ SrvStrayData \/ resetByPeerSid
  \/ \E kind \in {"close", "abort"} : SrvClose(kind)

Work ==
  \/ \E c \in Calls : newStream(c) \/ send(c) \/ Return(c) \/ finish(c)
                       \/ recvBuffered(c, TRUE)
  \/ ClientHandle \/ ServerHandle \/ Restart

Fault ==
  \/ \E c \in Calls : \/ Stall(c) \/ Refuse(c) \/ SendFails(c, "held")
                       \/ closeSend(c) \/ cancel(c) \/ recvBuffered(c, FALSE)
  \/ rejectOpen \/ gracefulStop

Next ==
  \/ Work /\ UNCHANGED faults
  \/ Fault /\ faults < MaxFaults /\ faults' = faults + 1

Spec == Init /\ [][Next]_vars

\* The read loops run, a send that can go on does, a handler that has returned
\* finishes, and the handlers that are not stuck keep reading.
Fairness ==
  /\ WF_vars(ClientHandle /\ UNCHANGED faults)
  /\ WF_vars(ServerHandle /\ UNCHANGED faults)
  /\ \A c \in Calls : /\ WF_vars(send(c) /\ UNCHANGED faults)
                       /\ WF_vars(finish(c) /\ UNCHANGED faults)
  /\ \A c \in Calls \ Stuck : WF_vars(recvBuffered(c, TRUE) /\ UNCHANGED faults)

FairSpec == Spec /\ Fairness

-----------------------------------------------------------------------------
(***************************************************************************)
(* Properties.                                                             *)
(***************************************************************************)
IsData(f) == f.kind = "data"
DataInFlight == Len(SelectSeq(up, IsData))

\* The credit that grants of the current incarnation carry: the connection's,
\* and one stream's.
Returning ==
  MapThenSumSet(LAMBDA i : down[i].n,
    {i \in DOMAIN down : down[i].kind = "connwindow" /\ down[i].epoch = epoch})
ReturningTo(c) ==
  MapThenSumSet(LAMBDA i : down[i].n,
    {i \in DOMAIN down : down[i].kind = "window" /\ down[i].call = c})

Pays(c) == cli[c].sending \in {"held", "refused"}

\* Where a connection credit can be: with the sender, paid for a frame that is
\* not out yet, in flight, in a buffer, held back, or in a grant on its way back.
AllCredit ==
  connTx.granted - connTx.sent + Cardinality({c \in Calls : Pays(c)}) + DataInFlight
    + ledger.outstanding + ledger.pending + Returning

\* Until the server restarts, every connection credit is somewhere, and there
\* is no more of it than the server advertised: whatever way a frame ends
\* (read, discarded with its call, refused, RESET-drawn, taken back by its
\* sender), its credit returns once. So no frame is refused for want of room.
\* The frames the ledger counts are pinned, each to one call that is not yet
\* finished, before and after a restart (unpin, releasePinned).
CreditConserved ==
  /\ epoch = 1 /\ locked = 1 => AllCredit = PeerWindow
  /\ ledger.outstanding = MapThenSumSet(LAMBDA c : srv[c].pinned, {c \in Calls : InCalls(c)})

\* The same of a stream's window, while both ends have the call and the handler
\* has decoded all it read: undoCredit, the half-close under a send and the
\* batches of FlowReceiver lose no message of it and make none. So no frame of
\* it finds the buffer full.
StreamConserved ==
  \A c \in Calls :
    Live(c) /\ cli[c].srv = epoch /\ InCalls(c) /\ ~srv[c].cancelled /\ ~srv[c].lost
      => cli[c].tx.granted - cli[c].tx.sent + (IF Pays(c) THEN 1 ELSE 0)
           + Cardinality({i \in DOMAIN up : IsData(up[i]) /\ up[i].call = c})
           + srv[c].buffered + srv[c].pending + ReturningTo(c) = RxBuffer

NextData(c) == up # <<>> /\ IsData(Head(up)) /\ Head(up).call = c /\ InCalls(c)

\* A conforming sender never overruns the connection window: whatever frame
\* Server.handle takes for a live call is admitted.
ConnNeverOverrun ==
  \A c \in Calls : NextData(c) => admissible(ledger, PeerWindow)

\* A server restart costs no credit for good: once the Conn is locked to the
\* new incarnation (lockServerEpoch), all that exists is at least the window.
CreditNotLost == locked = epoch => AllCredit >= PeerWindow

Parked(c) == cli[c].sending \in {"stream", "conn"}

\* A parked send of a call whose handler keeps reading goes on, however the
\* grants are batched and whatever the stuck calls pin (due, acquireBoth).
HealthyResumes == \A c \in Calls \ Stuck : Parked(c) ~> ~Parked(c)
=============================================================================
