----------------------------- MODULE MCTeardown -----------------------------
(***************************************************************************)
(* What must eventually happen, one component per behaviour: `which` says  *)
(* which of five components that share no state moves, while the others    *)
(* keep their initial state.                                               *)
(*   server   stop and gracefulStop wait for the handlers                  *)
(*   upload   parked sends of a reliable channel                           *)
(*   port     the message-port adapter                                     *)
(*   socket   the WebSocket adapter                                        *)
(*   wasm     open() and the worker around a Go instance                   *)
(***************************************************************************)
EXTENDS MCServer, SocketPromises, WasmPromises

CONSTANTS c1, c2, p1, p2

VARIABLES
  which,
  cli, connTx, locked, up, down, epoch, draining, srv, known, ledger, faults,
  ends, queue, reg, posted,
  ws, tx,
  mode, conn, upmsgs, downmsgs, glob, gone, answered

\* Two calls, nobody stuck, no server restart.
U == INSTANCE Upload WITH
       Calls <- {c1, c2}, Stuck <- {}, WInit <- 1, RxBuffer <- 2, WConn <- 2,
       PeerWindow <- 3, MaxMsgs <- 2, MaxFaults <- 0, MaxEpoch <- 1

P == INSTANCE Port WITH Chan <- {c1}, MaxCalls <- 1, MaxJunk <- 1

S == INSTANCE Socket WITH High <- 1, Pings <- TRUE, MaxSends <- 2, MaxRx <- 2

W == INSTANCE Wasm WITH Page <- {p1, p2}, up <- upmsgs, down <- downmsgs

serverVars == vars
uploadVars == <<cli, connTx, locked, up, down, epoch, draining, srv, known, ledger, faults>>
portVars == <<ends, queue, reg, posted>>
sockVars == <<ws, sock, tx, wire>>
wasmVars == <<mode, page, conn, port, upmsgs, downmsgs, inst, glob, gone, answered, owner>>
allVars == <<which, serverVars, uploadVars, portVars, sockVars, wasmVars>>

TeardownInit ==
  /\ which \in {"server", "upload", "port", "socket", "wasm"}
  /\ Init /\ U!Init /\ P!PortInit /\ S!SockInit /\ W!WasmInit
  /\ which # "socket" => ws.ready = "open" /\ ~sock.gateway
  /\ which # "wasm" => mode = "own"

\* The component that moves, and what stands still.
OfServer == which = "server" /\ UNCHANGED <<which, uploadVars, portVars, sockVars, wasmVars>>
OfUpload == which = "upload" /\ UNCHANGED <<which, serverVars, portVars, sockVars, wasmVars>>
OfPort == which = "port" /\ UNCHANGED <<which, serverVars, uploadVars, sockVars, wasmVars>>
OfSocket == which = "socket" /\ UNCHANGED <<which, serverVars, uploadVars, portVars, wasmVars>>
OfWasm == which = "wasm" /\ UNCHANGED <<which, serverVars, uploadVars, portVars, sockVars>>

TeardownNext ==
  \/ OfServer /\ Next
  \/ OfUpload /\ U!Next
  \/ OfPort /\ P!PortNext
  \/ OfSocket /\ S!SockNext
  \/ OfWasm /\ W!WasmNext

\* A handler that was told to end returns: some cancelled call leaves the live
\* ones, which only finish and disconnectPeer can make it do.
CancelledEnds == \E k \in cancelled \cap live : live' = live \ {k}

\* What else the event loop has to run: read loops, sends that can go on,
\* handlers that read, pumps, timers and queued messages. New calls, faults,
\* closes and crashes never have to happen.
EventLoop ==
  \/ OfServer /\ (finishOrphan \/ StopReturns)
  \/ /\ OfUpload /\ UNCHANGED faults
     /\ \/ U!ClientHandle \/ U!ServerHandle
        \/ \E c \in {c1, c2} : U!send(c) \/ U!finish(c) \/ U!recvBuffered(c, TRUE)
  \/ OfPort /\ (P!PageTurn(c1) \/ P!WorkerTurn(c1))
  \/ OfSocket /\ (S!PumpTurn \/ \E i \in 1..2 : S!SendTurn(i))
  \/ OfWasm /\ W!Turn

\* The weakest fairness a JavaScript engine can give: while some task can run,
\* some task does.
TeardownSpec ==
  /\ TeardownInit /\ [][TeardownNext]_allVars
  /\ WF_allVars(EventLoop) /\ WF_live(CancelledEnds)

-----------------------------------------------------------------------------
(***************************************************************************)
(* The components' properties, which their modules state and explain; the  *)
(* Server's StopTerminates and StoppedMeansDone, and what the Promises     *)
(* modules state, are checked under their own names.                       *)
(***************************************************************************)

\* A parked send of a call whose handler keeps reading goes on, however the
\* grants are batched (PeerFlowRx.due, acquireBoth).
HealthyResumes == U!HealthyResumes

\* Whatever killed an endpoint of a port or a socket, it ends with its Conn
\* closed or its peer disconnected, although the channel runs no timer; and a
\* goodbye that was said ends the other side's calls as well, when that side
\* serves the port (attachConn, servePeer, close, onMessage).
DeathTearsDown == P!DeathTearsDown /\ P!GoodbyeTearsDown /\ S!SocketTearsDown

\* Sockets, pages, connections and the worker are well-formed: a keepalive timer
\* runs only while its socket is open and alive (fail, onOpen), and a sock that
\* is dead holds no open connection (Sock.bury).
TeardownTypeOK ==
  /\ which = "socket" => S!SockTypeOK
  /\ which = "wasm" => W!WasmTypeOK

\* No send waits forever: the stall budget or the death of the socket settles
\* it (send, stall).
SendSettles == S!SendSettles

\* Every open() settles, also one that joined somebody else's start, and every
\* connection ends or is served by an instance that is alive (open, serveIn,
\* awaitPublish, dial, serve, watchEntryPoint, bury).
NothingHangs == W!OpenSettles /\ W!NoHungDial
=============================================================================
