-------------------------------- MODULE Port --------------------------------
(***************************************************************************)
(* The message-port adapter, at both ends of its channels: a page holds a  *)
(* PortTransport under a Conn, a worker holds a PortGateway under a        *)
(* Server, and a MessageChannel joins one Port object of each.  A port has *)
(* no socket whose death could be noticed and reliable mode runs no        *)
(* timers, so the 0-byte goodbye is the only thing that ends the other     *)
(* end's calls.                                                            *)
(*                                                                         *)
(* A frame is abstracted to what the teardown tells apart: the "open" that *)
(* makes a call live at the server, the "term" that ends it at the page,   *)
(* "junk" that does not decode, and the goodbye "bye".  The size refusal   *)
(* of Port.send happens before anything is posted and changes no state.    *)
(***************************************************************************)
EXTENDS PortPromises

CONSTANTS MaxCalls, \* bound: calls a page opens on one channel
          MaxJunk   \* bound: foreign messages posted on one channel

VARIABLES queue,    \* queue[c][e]: posted and not yet dispatched at end e
          reg       \* the channel's life at the gateway

portVars == <<ends, queue, reg, posted>>

Frames == {"open", "term"}
Msgs == Frames \cup {"junk", "bye"}

PortObject == [rx: Seq(Msgs), dead: BOOLEAN, closed: BOOLEAN,
               pump: {"off", "on", "busy", "done"},
               said: BOOLEAN,    \* close() posted the goodbye
               heard: BOOLEAN,   \* the pump read the peer's goodbye
               torn: BOOLEAN,    \* conn.close / disconnectPeer ran
               live: Nat, opened: Nat, got: Nat, junk: Nat]

NewPort == [rx |-> <<>>, dead |-> FALSE, closed |-> FALSE, pump |-> "off",
            said |-> FALSE, heard |-> FALSE, torn |-> FALSE,
            live |-> 0, opened |-> 0, got |-> 0, junk |-> 0]

\* Every message in a queue or a buffer is one the adapter knows, a page never
\* counts more live calls than it opened, and a Port that released its channel
\* is dead.
PortTypeOK ==
  /\ ends \in [Chan -> [End -> PortObject]]
  /\ queue \in [Chan -> [End -> Seq(Msgs)]]
  /\ reg \in [Chan -> {"new", "handed", "bound", "served", "dropped"}]
  /\ posted \in [Chan -> [End -> Nat]]
  /\ \A c \in Chan, e \in End :
       /\ ends[c][e].live <= ends[c]["page"].opened
       /\ ends[c][e].closed => ends[c][e].dead

PortInit ==
  /\ ends = [c \in Chan |-> [e \in End |-> NewPort]]
  /\ queue = [c \in Chan |-> [e \in End |-> <<>>]]
  /\ reg = [c \in Chan |-> "new"]
  /\ posted = [c \in Chan |-> [e \in End |-> 0]]

---------------------------------------------------------------------------
(* The Port object *)

fail(p) == [p EXCEPT !.dead = TRUE]

\* A message for an end whose port is closed goes nowhere.
post(q, c, e, m) ==
  IF ends[c][Other(e)].closed THEN q ELSE [q EXCEPT ![c][Other(e)] = Append(@, m)]

\* Closing discards what was still queued for this end; what was already
\* received stays in rx for the death flush.
Hush(q, c, e) == [q EXCEPT ![c][e] = <<>>]

close(p) ==
  IF p.closed THEN p ELSE [fail(p) EXCEPT !.closed = TRUE, !.said = ~p.dead]

\* The channel after close() of end e.
Farewell(c, e) ==
  LET p == ends[c][e]
  IN  IF p.closed THEN queue
      ELSE Hush(IF p.dead THEN queue ELSE post(queue, c, e, "bye"), c, e)

\* send, seen from the endpoint e whose object becomes `ok` on success: a dead
\* end rejects, a post the port refuses is death seen from this side (the
\* caller's object becomes `no`).
send(c, e, m, ok, no) ==
  \/ /\ ~ends[c][e].dead
     /\ ends' = [ends EXCEPT ![c][e] = ok]
     /\ queue' = post(queue, c, e, m)
     /\ posted' = [posted EXCEPT ![c][e] = @ + 1]
  \/ /\ ends' = [ends EXCEPT ![c][e] = IF @.dead THEN no ELSE fail(no)]
     /\ UNCHANGED <<queue, posted>>

\* Nothing is buffered after death.
received(p, m) == IF p.dead THEN p ELSE [p EXCEPT !.rx = Append(@, m)]

\* A mutant: the goodbye ends the pump as it arrives.
onMessageEager(c, e) ==
  /\ queue[c][e] # <<>>
  /\ e = "server" => reg[c] \in {"bound", "served"}
  /\ queue' = [queue EXCEPT ![c][e] = Tail(@)]
  /\ ends' = [ends EXCEPT ![c][e] =
                IF ~@.dead /\ Head(queue[c][e]) = "bye"
                  THEN [fail(@) EXCEPT !.pump = "done", !.heard = TRUE]
                  ELSE received(@, Head(queue[c][e]))]
  /\ UNCHANGED <<reg, posted>>

\* A MessagePort queues by itself until the gateway binds it.
onMessage(c, e) ==
  /\ queue[c][e] # <<>>
  /\ e = "server" => reg[c] \in {"bound", "served"}
  /\ queue' = [queue EXCEPT ![c][e] = Tail(@)]
  /\ ends' = [ends EXCEPT ![c][e] = received(@, Head(queue[c][e]))]
  /\ UNCHANGED <<reg, posted>>

\* Where the runtime fires it: the other port went away.
onClose(c, e) ==
  /\ ends[c][Other(e)].closed
  /\ queue[c][e] = <<>>
  /\ ~ends[c][e].closed
  /\ e = "server" => reg[c] \in {"bound", "served"}
  /\ ends' = [ends EXCEPT ![c][e] = fail(@)]
  /\ UNCHANGED <<queue, reg, posted>>

\* The core's side of a delivered frame: an OPEN makes a call live at the
\* server, a terminal ends one at the page; a closed Conn knows no call.
Handled(p, m) ==
  [p EXCEPT !.pump = "busy", !.rx = Tail(@), !.got = @ + 1,
            !.live = CASE m = "open" -> @ + 1
                       [] m = "term" /\ @ > 0 -> @ - 1
                       [] OTHER -> @]

\* One turn of the pump: what was received is delivered first, the goodbye is
\* read in its place, and only an empty buffer lets death end the pump.
pumped(p) ==
  IF p.rx # <<>>
    THEN CASE Head(p.rx) = "bye" ->
                [fail(p) EXCEPT !.rx = Tail(@), !.pump = "done", !.heard = TRUE]
           [] Head(p.rx) = "junk" -> [p EXCEPT !.rx = Tail(@)]
           [] OTHER -> Handled(p, Head(p.rx))
    ELSE [p EXCEPT !.pump = "done"]

pump(c, e) ==
  /\ ends[c][e].pump = "on"
  /\ ends[c][e].rx # <<>> \/ ends[c][e].dead
  /\ ends' = [ends EXCEPT ![c][e] = pumped(@)]
  /\ UNCHANGED <<queue, reg, posted>>

\* The await of unpack: the handler is done with the frame.
unpack(c, e) ==
  /\ ends[c][e].pump = "busy"
  /\ ends' = [ends EXCEPT ![c][e].pump = "on"]
  /\ UNCHANGED <<queue, reg, posted>>

---------------------------------------------------------------------------
(* The page: PortTransport under a Conn *)

\* Transport and Conn exist, pump running, before the far end is handed over.
\* A handover that throws closes the transport and both ports.
dialWorker(c) ==
  /\ reg[c] = "new"
  /\ \/ /\ reg' = [reg EXCEPT ![c] = "handed"]
        /\ ends' = [ends EXCEPT ![c]["page"].pump = "on"]
     \/ /\ reg' = [reg EXCEPT ![c] = "dropped"]
        /\ ends' = [ends EXCEPT ![c] =
                      [page |-> close([@["page"] EXCEPT !.pump = "on"]),
                       server |-> [fail(@["server"]) EXCEPT !.closed = TRUE]]]
  /\ UNCHANGED <<queue, posted>>

\* A call: refused by a closed Conn, failed on the spot by a send that fails.
invoke(c) ==
  LET p == ends[c]["page"]
      q == [p EXCEPT !.opened = @ + 1]
  IN  /\ p.pump # "off" /\ ~p.torn /\ p.opened < MaxCalls
      /\ send(c, "page", "open", [q EXCEPT !.live = @ + 1], q)
      /\ UNCHANGED reg

connClosed(p) == [close(p) EXCEPT !.torn = TRUE, !.live = 0]

\* conn.close(): every live call fails, and the transport is closed with it.
connClose(c) ==
  /\ ends[c]["page"].pump # "off"
  /\ ~ends[c]["page"].torn
  /\ ends' = [ends EXCEPT ![c]["page"] = connClosed(@)]
  /\ queue' = Farewell(c, "page")
  /\ UNCHANGED <<reg, posted>>

\* PortTransport.close(cause): the pump's exit does the rest.
transportClose(c) ==
  /\ ends[c]["page"].pump # "off"
  /\ ~ends[c]["page"].closed
  /\ ends' = [ends EXCEPT ![c]["page"] = close(@)]
  /\ queue' = Farewell(c, "page")
  /\ UNCHANGED <<reg, posted>>

\* The pump's exit: conn.close(err), then the transport.
attachConn(c) ==
  /\ ends[c]["page"].pump = "done"
  /\ ~ends[c]["page"].torn \/ ~ends[c]["page"].closed
  /\ ends' = [ends EXCEPT ![c]["page"] = connClosed(@)]
  /\ queue' = Farewell(c, "page")
  /\ UNCHANGED <<reg, posted>>

---------------------------------------------------------------------------
(* The worker: PortGateway under a Server *)

bindPort(c) ==
  /\ reg[c] = "handed"
  /\ reg' = [reg EXCEPT ![c] = "bound"]
  /\ UNCHANGED <<ends, queue, posted>>

\* A mutant: an aborted signal refuses the peer instead of closing its port.
servePeerRefuses(c) ==
  /\ reg[c] \in {"handed", "bound"}
  /\ \/ /\ reg' = [reg EXCEPT ![c] = "served"]
        /\ ends' = [ends EXCEPT ![c]["server"].pump = "on"]
     \/ /\ reg' = [reg EXCEPT ![c] = "dropped"]
        /\ UNCHANGED ends
  /\ UNCHANGED <<queue, posted>>

\* The pump starts; a signal that is aborted already closes the port first.
servePeer(c) ==
  /\ reg[c] \in {"handed", "bound"}
  /\ reg' = [reg EXCEPT ![c] = "served"]
  /\ \/ /\ ends' = [ends EXCEPT ![c]["server"].pump = "on"]
        /\ UNCHANGED queue
     \/ /\ ends' = [ends EXCEPT ![c]["server"] = [close(@) EXCEPT !.pump = "on"]]
        /\ queue' = Farewell(c, "server")
  /\ UNCHANGED posted

\* opts.signal aborts while the peer is served.
abort(c) ==
  /\ reg[c] = "served" /\ ~ends[c]["server"].closed
  /\ ends' = [ends EXCEPT ![c]["server"] = close(@)]
  /\ queue' = Farewell(c, "server")
  /\ UNCHANGED <<reg, posted>>

\* A mutant: the peer is torn down when its port dies, before the flush.
serveExitEarly(c) ==
  /\ reg[c] = "served"
  /\ ends[c]["server"].dead /\ ~ends[c]["server"].torn
  /\ ends' = [ends EXCEPT ![c]["server"] = [close(@) EXCEPT !.torn = TRUE, !.live = 0]]
  /\ queue' = Farewell(c, "server")
  /\ UNCHANGED <<reg, posted>>

\* The pump's exit: server.disconnectPeer, then drop.
serveExit(c) ==
  /\ reg[c] = "served" /\ ends[c]["server"].pump = "done"
  /\ reg' = [reg EXCEPT ![c] = "dropped"]
  /\ ends' = [ends EXCEPT ![c]["server"] = [close(@) EXCEPT !.torn = TRUE, !.live = 0]]
  /\ queue' = Farewell(c, "server")
  /\ UNCHANGED posted

\* A handler returns and its terminal goes out through sendFrames; the gateway
\* rejects it for a peer it has dropped.
finish(c) ==
  LET p == ends[c]["server"]
      q == [p EXCEPT !.live = @ - 1]
  IN  /\ p.live > 0
      /\ send(c, "server", "term", q, q)
      /\ UNCHANGED reg

\* PortGateway.close: every port that is bound says goodbye.
gatewayClose ==
  LET B == {c \in Chan : reg[c] \in {"bound", "served"} /\ ~ends[c]["server"].closed}
  IN  /\ B # {}
      /\ ends' = [c \in Chan |-> IF c \in B THEN [ends[c] EXCEPT !["server"] = close(@)]
                                 ELSE ends[c]]
      /\ queue' = [c \in Chan |-> IF c \in B THEN Farewell(c, "server")[c] ELSE queue[c]]
      /\ UNCHANGED <<reg, posted>>

---------------------------------------------------------------------------
\* Something else sharing the port posts a message that is no envelope.
Foreign(c, e) ==
  /\ ends[c][e].junk < MaxJunk /\ reg[c] # "new" /\ ~ends[c][e].closed
  /\ queue' = post(queue, c, e, "junk")
  /\ ends' = [ends EXCEPT ![c][e].junk = @ + 1]
  /\ UNCHANGED <<reg, posted>>

\* What the runtime's event loop and the gateway's host go on doing.
Turn(c, e) == onMessage(c, e) \/ pump(c, e) \/ unpack(c, e)
PageTurn(c) == Turn(c, "page") \/ attachConn(c)
WorkerTurn(c) == Turn(c, "server") \/ servePeer(c) \/ serveExit(c)

PortNext ==
  \/ \E c \in Chan :
       \/ PageTurn(c) \/ WorkerTurn(c)
       \/ dialWorker(c) \/ invoke(c) \/ connClose(c) \/ transportClose(c)
       \/ bindPort(c) \/ abort(c) \/ finish(c)
       \/ \E e \in End : onClose(c, e) \/ Foreign(c, e)
  \/ gatewayClose

PortSpec == PortInit /\ [][PortNext]_portVars

---------------------------------------------------------------------------
(* Properties *)

\* Every exit path performs the teardown: an endpoint that died, for whatever
\* reason, ends with its Conn closed or its peer disconnected, although the
\* channel runs no timer.
DeathTearsDown ==
  \A c \in Chan, e \in End :
    (ends[c][e].dead /\ ends[c][e].pump # "off") ~> ends[c][e].torn

\* A goodbye that was said ends the other side's calls as well, when that side
\* serves the port.
GoodbyeTearsDown ==
  \A c \in Chan, e \in End :
    (ends[c][e].said /\ reg[c] \in {"handed", "bound", "served"}) ~> ends[c][Other(e)].torn
=============================================================================
