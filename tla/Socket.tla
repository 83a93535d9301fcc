------------------------------- MODULE Socket -------------------------------
(***************************************************************************)
(* The WebSocket adapter: one Socket with the transport or the gateway     *)
(* entry that owns it.  A send is a task of its own: it waits for the      *)
(* socket to open, parks while bufferedAmount is at the mark, and re-reads *)
(* the mark on a poll timer of its own, bounded by one stall budget and by *)
(* the death of the socket.  The pump hands received messages to the core  *)
(* and its exit is the teardown that fails the live calls.                 *)
(*                                                                         *)
(* A message is the number of the send that carries it; sizes are counted  *)
(* in messages.  The size refusal happens before the task exists.          *)
(***************************************************************************)
EXTENDS SocketPromises, Naturals, Sequences, SequencesExt, FiniteSets

CONSTANTS High,     \* maxBufferedAmount, in messages
          Pings,    \* whether the runtime exposes ping and pong
          MaxSends, \* bound: sends issued
          MaxRx     \* bound: messages that arrive

VARIABLES ws,       \* the platform's socket: state and bufferedAmount
          tx        \* the send tasks, in the order they were issued

sockVars == <<ws, sock, tx, wire>>

Waiting == {"opening", "parked"}

SockTypeOK ==
  /\ ws \in [ready: {"connecting", "open", "closing", "closed"}, buffered: 0 .. MaxSends]
  /\ sock \in [opened: BOOLEAN, dead: BOOLEAN, kaTimer: BOOLEAN, gateway: BOOLEAN,
               rx: 0 .. MaxRx, came: 0 .. MaxRx, got: 0 .. MaxRx,
               pump: {"on", "busy", "done"}, torn: BOOLEAN]
  /\ tx \in Seq(Waiting \cup {"sent", "refused"}) /\ Len(tx) <= MaxSends
  /\ wire \in Seq(1 .. Len(tx))
  /\ sock.kaTimer => sock.opened /\ ~sock.dead

\* Constructed over a socket in any state; events already past do not refire.
SockInit ==
  \E r \in {"connecting", "open", "closing"}, g \in BOOLEAN :
    /\ ws = [ready |-> r, buffered |-> 0]
    /\ sock = [opened |-> r = "open", dead |-> r = "closing",
               kaTimer |-> r = "open" /\ Pings, gateway |-> g,
               rx |-> 0, came |-> 0, got |-> 0, pump |-> "on", torn |-> FALSE]
    /\ tx = <<>> /\ wire = <<>>

---------------------------------------------------------------------------
(* Death *)

fail(s) == [s EXCEPT !.dead = TRUE, !.kaTimer = FALSE]

Fail == sock' = fail(sock)

\* A close that was already under way is reported; an error may be at any time.
onClose ==
  /\ ws.ready = "closing"
  /\ ws' = [ws EXCEPT !.ready = "closed"]
  /\ Fail /\ UNCHANGED <<tx, wire>>

onError ==
  /\ ws.ready # "closed" /\ ~sock.dead
  /\ Fail /\ UNCHANGED <<ws, tx, wire>>

\* The keepalive: no read progress in time, or a ping that throws.
keepalive ==
  /\ sock.kaTimer
  /\ Fail /\ UNCHANGED <<ws, tx, wire>>

\* ws.close starts the closing handshake, whose end onClose reports, if it comes.
closing(w) == IF w.ready \in {"connecting", "open"} THEN [w EXCEPT !.ready = "closing"] ELSE w

\* close() of the transport or of the gateway, or an aborted signal.
close ==
  /\ ~sock.dead
  /\ Fail
  /\ ws' = closing(ws)
  /\ UNCHANGED <<tx, wire>>

---------------------------------------------------------------------------
(* Sending *)

AtMark == High > 0 /\ ws.buffered >= High

Becomes(i, st) == tx' = [tx EXCEPT ![i] = st]

\* The tail of send, for task i of t.  A socket that is closing refuses the
\* message, which is death seen from here, or discards it without a word.
Write(t, i) ==
  \/ /\ ws.ready = "open"
     /\ tx' = [t EXCEPT ![i] = "sent"]
     /\ ws' = [ws EXCEPT !.buffered = @ + 1]
     /\ wire' = Append(wire, i)
     /\ UNCHANGED sock
  \/ /\ ws.ready # "open"
     /\ \/ tx' = [t EXCEPT ![i] = "refused"] /\ Fail
        \/ tx' = [t EXCEPT ![i] = "sent"] /\ UNCHANGED sock
     /\ UNCHANGED <<ws, wire>>

Issue(st) == tx' = Append(tx, st) /\ UNCHANGED <<ws, sock, wire>>

\* A new send, up to its first await.
send ==
  /\ Len(tx) < MaxSends
  /\ CASE sock.dead             -> Issue("refused")
       [] ~sock.opened          -> Issue("opening")
       [] sock.opened /\ AtMark -> Issue("parked")
       [] OTHER                 -> Write(Append(tx, "parked"), Len(tx) + 1)

Opening == {i \in DOMAIN tx : tx[i] = "opening"}

\* The waiting sends that pass the mark, in the order they wait.
Pass == {i \in Opening : High = 0 \/ Cardinality({j \in Opening : j < i}) + ws.buffered < High}

\* The open event wakes every waiting send, one after the other; those the mark
\* stops park.  A dead socket stays unopened.
onOpen ==
  /\ ws.ready = "connecting"
  /\ IF sock.dead
       THEN /\ ws' = [ws EXCEPT !.ready = "open"]
            /\ UNCHANGED <<sock, tx, wire>>
       ELSE /\ ws' = [ready |-> "open", buffered |-> ws.buffered + Cardinality(Pass)]
            /\ sock' = [sock EXCEPT !.opened = TRUE, !.kaTimer = Pings]
            /\ tx' = [i \in DOMAIN tx |-> IF i \in Pass THEN "sent"
                                          ELSE IF i \in Opening THEN "parked" ELSE tx[i]]
            /\ wire' = wire \o SetToSortSeq(Pass, <)

\* A mutant: a send that was parked does not look at the latch again.
pollBlind(i) ==
  /\ tx[i] = "parked" /\ ~AtMark
  /\ Becomes(i, "sent")
  /\ ws' = [ws EXCEPT !.buffered = @ + 1]
  /\ wire' = Append(wire, i)
  /\ UNCHANGED sock

\* The poll timer of a parked send; each has its own phase.
poll(i) ==
  /\ tx[i] = "parked" /\ ~AtMark /\ ~sock.dead
  /\ Write(tx, i)

\* Death wakes whatever waits.
closedErr(i) ==
  /\ tx[i] \in Waiting /\ sock.dead
  /\ Becomes(i, "refused")
  /\ UNCHANGED <<ws, sock, wire>>

\* A mutant: only the wait for open has the stall budget.
stallOpening(i) ==
  /\ tx[i] = "opening" /\ ~sock.dead
  /\ Fail /\ Becomes(i, "refused")
  /\ UNCHANGED <<ws, wire>>

\* The stall budget of one send runs out: the whole socket is dead.
stall(i) ==
  /\ tx[i] \in Waiting /\ ~sock.dead
  /\ Fail /\ Becomes(i, "refused")
  /\ UNCHANGED <<ws, wire>>

\* The frame's own signal aborts.
signalAborted(i) ==
  /\ tx[i] \in Waiting /\ ~sock.dead
  /\ Becomes(i, "refused")
  /\ UNCHANGED <<ws, sock, wire>>

\* The peer reads on.
Drain ==
  /\ ws.ready = "open" /\ ws.buffered > 0
  /\ ws' = [ws EXCEPT !.buffered = @ - 1]
  /\ UNCHANGED <<sock, tx, wire>>

---------------------------------------------------------------------------
(* Receiving *)

\* Nothing is buffered after death.
onMessage ==
  /\ ws.ready = "open" /\ sock.came < MaxRx /\ ~sock.dead
  /\ sock' = [sock EXCEPT !.rx = @ + 1, !.came = @ + 1]
  /\ UNCHANGED <<ws, tx, wire>>

\* One turn of the pump: what was received first, then death.
pump ==
  /\ sock.pump = "on"
  /\ \/ /\ sock.rx > 0
        /\ sock' = [sock EXCEPT !.rx = @ - 1, !.got = @ + 1, !.pump = "busy"]
     \/ /\ sock.rx = 0 /\ sock.dead
        /\ sock' = [sock EXCEPT !.pump = "done"]
  /\ UNCHANGED <<ws, tx, wire>>

unpack ==
  /\ sock.pump = "busy"
  /\ sock' = [sock EXCEPT !.pump = "on"]
  /\ UNCHANGED <<ws, tx, wire>>

\* A Conn's pump exits: conn.close(err), and the transport closes the socket.
attachConn ==
  /\ sock.pump = "done" /\ ~sock.torn /\ ~sock.gateway
  /\ sock' = [fail(sock) EXCEPT !.torn = TRUE]
  /\ ws' = closing(ws)
  /\ UNCHANGED <<tx, wire>>

\* A gateway's pump exits: server.disconnectPeer, then drop, which trips the
\* latch and leaves the platform's socket to its host.
servePeer ==
  /\ sock.pump = "done" /\ ~sock.torn /\ sock.gateway
  /\ sock' = [fail(sock) EXCEPT !.torn = TRUE]
  /\ UNCHANGED <<ws, tx, wire>>

\* conn.close() by the application: the calls fail at once.
connClose ==
  /\ ~sock.torn /\ ~sock.gateway
  /\ sock' = [fail(sock) EXCEPT !.torn = TRUE]
  /\ ws' = closing(ws)
  /\ UNCHANGED <<tx, wire>>

\* The peer starts to close.
PeerCloses ==
  /\ ws.ready = "open"
  /\ ws' = [ws EXCEPT !.ready = "closing"]
  /\ UNCHANGED <<sock, tx, wire>>

PumpTurn == pump \/ unpack \/ attachConn \/ servePeer
Bounded(i) == closedErr(i) \/ stall(i)

SockNext ==
  \/ onOpen \/ onClose \/ onError \/ keepalive \/ close \/ connClose
  \/ PeerCloses \/ Drain \/ onMessage \/ send \/ PumpTurn
  \/ \E i \in DOMAIN tx : poll(i) \/ Bounded(i) \/ signalAborted(i)

SockSpec == SockInit /\ [][SockNext]_sockVars

SendTurn(i) == i \in DOMAIN tx /\ Bounded(i)

---------------------------------------------------------------------------
(* Properties *)

Unsettled(i) == i \in DOMAIN tx /\ tx[i] \in Waiting

\* No send waits forever, also not on a peer that never drains and with no
\* signal to bound it: the stall budget or the death of the socket settles it.
SendSettles ==
  \A i \in 1 .. MaxSends : Unsettled(i) ~> ~Unsettled(i)

\* Whatever killed the socket, the teardown runs: it is the only thing that
\* ends live calls where every timer is off.
SocketTearsDown == sock.dead ~> sock.torn

\* "WebSocket neither loses, duplicates, nor reorders": the messages of a socket
\* reach the platform in the order their sends were made.
OrderKept == \A i, j \in DOMAIN wire : i < j => wire[i] < wire[j]
=============================================================================
