------------------------------ MODULE Download ------------------------------
(***************************************************************************)
(* The connection window of a reliable channel in the server-to-client     *)
(* direction, and what becomes of it when containers are evicted. Several  *)
(* Conns share one transport peer of the server (two Conns on one socket,  *)
(* or a client that came back): each has a container, whose sender counts  *)
(* against that Conn's window. Only maxDeadPeers containers without a live *)
(* call are kept; the sender of an evicted one is stashed in the peer's    *)
(* ledger, and grants still reach it there (ts/src/server.ts ensurePeer,   *)
(* ts/src/util.ts PeerFlowRx).                                             *)
(*                                                                         *)
(* Calls are server-streaming and shorter than their stream window, which  *)
(* is left out (module Upload has it); each Conn's channel is ordered and  *)
(* loses nothing; handlers await their sends.                              *)
(***************************************************************************)
EXTENDS Flow, Sequences, SequencesExt, FiniteSets, FiniteSetsExt

CONSTANTS
  Conns,     \* client incarnations on the transport peer
  Window,    \* the Conns' maxPeerWindow, which their OPENs advertise
  MaxDead,   \* limits.maxDeadPeers
  Visitors,  \* Conns that make one call, wait for its end and get no message,
  MaxMsgs,   \* messages the others get in all, and (bounds of the model)
  MaxSid     \* calls the others make

Sids == 1..MaxSid

VARIABLES
  epochs,    \* PeerSlot.epochs: the containers, as [conn, tx], in creation order
  evicted,   \* PeerFlowRx.evicted: [conn, tx], in eviction order
  handler,   \* handlers: "none", "idle", "encoding" or "done"; what cancelled it; messages sent
  down, up,  \* frames of each Conn, from and to the server
  call,      \* the Conn's calls: "none", "live", "over"
  pinned,    \* frames in the rx buffer of a call that its release returns
  connRx,    \* the Conns' ledgers
  dropped,   \* history: Conns whose stashed sender was dropped
  overrun    \* history: Conns that refused a frame

dnVars == <<epochs, evicted, handler, down, up, call, pinned, connRx, dropped, overrun>>
dnServer == <<epochs, evicted, handler, dropped>>
dnClient == <<call, pinned, connRx, overrun>>

NoHandler == [at |-> "none", ended |-> "no", sent |-> 0]

DnTypeOK ==
  /\ epochs \in Seq([conn : Conns, tx : Sender])
  /\ evicted \in Seq([conn : Conns, tx : Sender]) /\ Len(evicted) <= MaxDead
  /\ handler \in [Conns -> [Sids -> [at : {"none", "idle", "encoding", "done"},
                                     ended : {"no", "abort", "reset"}, sent : 0..MaxMsgs]]]
  /\ call \in [Conns -> [Sids -> {"none", "live", "over"}]]
  /\ pinned \in [Conns -> [Sids -> 0..Window]]
  /\ connRx \in [Conns -> Ledger]
  /\ \A c \in Conns : connRx[c].outstanding <= Window

DnInit ==
  /\ epochs = <<>> /\ evicted = <<>>
  /\ handler = [c \in Conns |-> [s \in Sids |-> NoHandler]]
  /\ down = [c \in Conns |-> <<>>] /\ up = [c \in Conns |-> <<>>]
  /\ call = [c \in Conns |-> [s \in Sids |-> "none"]]
  /\ pinned = [c \in Conns |-> [s \in Sids |-> 0]]
  /\ connRx = [c \in Conns |-> NewLedger]
  /\ dropped = {} /\ overrun = {}

-----------------------------------------------------------------------------
(***************************************************************************)
(* The client: Conn and ClientStream.                                      *)
(***************************************************************************)
UpFrame(t, s, n) == [t |-> t, sid |-> s, n |-> n]

Grant(n) == IF n > 0 THEN <<UpFrame("GRANT", 0, n)>> ELSE <<>>

\* The ledger settles; what is due is granted behind the frames out.
Returns(c, settled, in, out) ==
  /\ connRx' = [connRx EXCEPT ![c] = settled.ledger]
  /\ up' = [up EXCEPT ![c] = in \o out \o Grant(settled.grant)]

\* newStream: sids in order, one OPEN each.
newStream(c, s) ==
  /\ c \in Visitors => s = 1
  /\ call[c][s] = "none" /\ \A r \in Sids : r < s => call[c][r] # "none"
  /\ call' = [call EXCEPT ![c][s] = "live"]
  /\ up' = [up EXCEPT ![c] = Append(@, UpFrame("OPEN", s, 0))]
  /\ UNCHANGED <<down, pinned, connRx, overrun, dnServer>>

\* recvBuffered.
recv(c, s) ==
  /\ call[c][s] = "live" /\ pinned[c][s] > 0
  /\ pinned' = [pinned EXCEPT ![c][s] = @ - 1]
  /\ Returns(c, retire(connRx[c], 1, Window), up[c], <<>>)
  /\ UNCHANGED <<down, call, overrun, dnServer>>

\* release's retirePeer: the ledger when everything still buffered goes with the call.
bulkRetire(c, s) == retire(connRx[c], pinned[c][s], Window)

\* The call ends at the client; out are the frames this sends.
Released(c, s, out) ==
  /\ call' = [call EXCEPT ![c][s] = "over"]
  /\ pinned' = [pinned EXCEPT ![c][s] = 0]
  /\ Returns(c, bulkRetire(c, s), up[c], out)

\* cancel, and any local failure: abort, then release.
cancel(c, s) ==
  /\ call[c][s] = "live" /\ c \notin Visitors
  /\ Released(c, s, <<UpFrame("ABORT", s, 0)>>)
  /\ UNCHANGED <<down, overrun, dnServer>>

ClientTakes(c) == down' = [down EXCEPT ![c] = Tail(@)]

\* A data frame of a live call: admitted and buffered, or an overrun, which
\* fails the call; of one that is over: credited and answered with a RESET.
OnData(c, f) ==
  /\ f.t = "DATA"
  /\ IF call[c][f.sid] # "live"
     THEN LET g == unadmitted(connRx[c], 1, Window)
          IN  /\ connRx' = [connRx EXCEPT ![c] = g.ledger]
              /\ up' = [up EXCEPT ![c] = @ \o Grant(g.grant) \o <<UpFrame("RST", f.sid, 0)>>]
              /\ UNCHANGED <<call, pinned, overrun>>
     ELSE IF admissible(connRx[c], Window)
     THEN /\ connRx' = [connRx EXCEPT ![c] = admit(@)]
          /\ pinned' = [pinned EXCEPT ![c][f.sid] = @ + 1]
          /\ UNCHANGED <<up, call, overrun>>
     ELSE LET l == bulkRetire(c, f.sid)
              g == unadmitted(l.ledger, 1, Window)
          IN  /\ call' = [call EXCEPT ![c][f.sid] = "over"]
              /\ pinned' = [pinned EXCEPT ![c][f.sid] = 0]
              /\ Returns(c, g, up[c], <<UpFrame("ABORT", f.sid, 0)>> \o Grant(l.grant))
              /\ overrun' = overrun \cup {c}

OnTerm(c, f) ==
  /\ f.t = "TERM"
  /\ IF call[c][f.sid] = "live" THEN Released(c, f.sid, <<>>)
     ELSE /\ up' = [up EXCEPT ![c] = Append(@, UpFrame("RST", f.sid, 0))]
          /\ UNCHANGED <<call, pinned, connRx>>
  /\ UNCHANGED overrun

ClientHandle(c) ==
  /\ down[c] # <<>>
  /\ OnData(c, Head(down[c])) \/ OnTerm(c, Head(down[c]))
  /\ ClientTakes(c) /\ UNCHANGED dnServer

-----------------------------------------------------------------------------
(***************************************************************************)
(* The server.                                                             *)
(***************************************************************************)
Holds(st, c) == \E i \in DOMAIN st : st[i].conn = c

TxIn(st, c) == st[CHOOSE i \in DOMAIN st : st[i].conn = c].tx

Without(st, c) == SelectSeq(st, LAMBDA e : e.conn # c)

\* The sender of c in st becomes Op of it.
On(st, c, Op(_)) ==
  [i \in DOMAIN st |-> IF st[i].conn = c THEN [st[i] EXCEPT !.tx = Op(@)] ELSE st[i]]

Present(c) == Holds(epochs, c)

Running(c) == \E s \in Sids : handler[c][s].at \in {"idle", "encoding"}

\* The containers the cap counts, oldest first.
Dead == SelectSeq(epochs, LAMBDA e : ~Running(e.conn))

\* unstash: the sender of c, or a new one that adopts the OPEN's advertisement.
unstash(st, c) == IF Holds(st, c) THEN TxIn(st, c) ELSE observe(assume(0), Window)

\* Mutant: the stash has no cap.
stashUncapped(st, e) == Append(st, e)

\* stash: past the cap the oldest position is dropped.
stash(st, e) == LET all == Append(st, e) IN IF Len(all) <= MaxDead THEN all ELSE Tail(all)

\* Mutant: the container is evicted before the incarnation's position is taken out.
ensurePeerLate(c) ==
  LET full == Len(Dead) >= MaxDead
      held == IF full THEN stash(evicted, Dead[1]) ELSE evicted
      kept == IF full THEN Without(epochs, Dead[1].conn) ELSE epochs
  IN  [evicted |-> Without(held, c),
       epochs |-> Append(kept, [conn |-> c, tx |-> unstash(held, c)])]

\* ensurePeer for a Conn without a container, then observeAdvertisement: its
\* position is taken out of the stash before the container it evicts goes in.
ensurePeer(c) ==
  LET rest == Without(evicted, c)
      full == Len(Dead) >= MaxDead
      kept == IF full THEN Without(epochs, Dead[1].conn) ELSE epochs
  IN  [evicted |-> IF full THEN stash(rest, Dead[1]) ELSE rest,
       epochs |-> Append(kept, [conn |-> c, tx |-> unstash(evicted, c)])]

\* The position of c's sender, wherever it is kept.
Position(es, st, c) == CASE Holds(es, c) -> TxIn(es, c)
                         [] Holds(st, c) -> TxIn(st, c)
                         [] OTHER -> assume(0)

Seen == {c \in Conns : Present(c) \/ Holds(evicted, c) \/ c \in dropped}

ServerTakes(c) == up' = [up EXCEPT ![c] = Tail(@)]

\* open: the handler starts, or rejectOpen answers at once.
open(c, s) ==
  LET p == IF Present(c) THEN [evicted |-> evicted, epochs |-> epochs] ELSE ensurePeer(c)
  IN  /\ epochs' = p.epochs /\ evicted' = p.evicted
      /\ dropped' = dropped \cup {d \in Seen : Position(p.epochs, p.evicted, d)
                                                # Position(epochs, evicted, d)}
      /\ \/ /\ handler' = [handler EXCEPT ![c][s].at = "idle"]
            /\ UNCHANGED down
         \/ /\ handler' = [handler EXCEPT ![c][s].at = "done"]
            /\ down' = [down EXCEPT ![c] = Append(@, [t |-> "TERM", sid |-> s])]

\* An abort cancels the handler; so does a RESET, which also silences it.
resetByPeerSid(c, s, t) ==
  /\ handler' = IF handler[c][s].at \in {"idle", "encoding"}
                THEN [handler EXCEPT ![c][s].ended = IF t = "RST" THEN "reset"
                                                     ELSE IF @ = "no" THEN "abort" ELSE @]
                ELSE handler
  /\ UNCHANGED <<down, epochs, evicted, dropped>>

\* Mutant: a grant for an incarnation without a container is dropped.
creditEvictedNot(c, n) == UNCHANGED evicted

creditEvicted(c, n) == evicted' = On(evicted, c, LAMBDA tx : grant(tx, n))

\* A connection grant: to the container, or to the stashed position.
OnGrant(c, n) ==
  /\ IF Present(c) THEN epochs' = On(epochs, c, LAMBDA tx : grant(tx, n)) /\ UNCHANGED evicted
     ELSE creditEvicted(c, n) /\ UNCHANGED epochs
  /\ UNCHANGED <<down, handler, dropped>>

ServerHandle(c) ==
  /\ up[c] # <<>>
  /\ LET f == Head(up[c])
     IN  \/ f.t = "OPEN" /\ open(c, f.sid)
         \/ f.t \in {"ABORT", "RST"} /\ resetByPeerSid(c, f.sid, f.t)
         \/ f.t = "GRANT" /\ OnGrant(c, f.n)
  /\ ServerTakes(c) /\ UNCHANGED dnClient

\* send: a credit is taken, then the message is encoded.
send(c, s) ==
  /\ handler[c][s].at = "idle" /\ handler[c][s].ended = "no" /\ c \notin Visitors
  /\ MapThenSumSet(LAMBDA r : handler[c][r].sent, Sids) < MaxMsgs
  /\ ~empty(TxIn(epochs, c))
  /\ epochs' = On(epochs, c, take)
  /\ handler' = [handler EXCEPT ![c][s].at = "encoding"]
  /\ UNCHANGED <<down, up, evicted, dropped, dnClient>>

\* Encoded: the frame goes out; cancelled meanwhile, refused as too large or not
\* encodable, its credit goes back (undoCredit). A refusal for another reason,
\* which refunds nothing, is a channel that is dead.
Sent(c, s) ==
  /\ handler[c][s].at = "encoding"
  /\ \/ /\ handler[c][s].ended = "no"
        /\ down' = [down EXCEPT ![c] = Append(@, [t |-> "DATA", sid |-> s])]
        /\ handler' = [handler EXCEPT ![c][s].at = "idle", ![c][s].sent = @ + 1]
        /\ UNCHANGED epochs
     \/ /\ handler' = [handler EXCEPT ![c][s].at = "idle", ![c][s].sent = @ + 1]
        /\ epochs' = On(epochs, c, LAMBDA tx : refund(tx, 1))
        /\ UNCHANGED down
  /\ UNCHANGED <<up, evicted, dropped, dnClient>>

\* The handler returns, or gives up on the window after T_stall: its terminal
\* goes out, unless a RESET has disowned the call.
finish(c, s) ==
  /\ handler[c][s].at = "idle"
  /\ handler' = [handler EXCEPT ![c][s] = [handler[c][s] EXCEPT !.at = "done", !.ended = "no"]]
  /\ down' = IF handler[c][s].ended = "reset" THEN down
             ELSE [down EXCEPT ![c] = Append(@, [t |-> "TERM", sid |-> s])]
  /\ UNCHANGED <<up, epochs, evicted, dropped, dnClient>>

DnNext ==
  \E c \in Conns :
    \/ ClientHandle(c) \/ ServerHandle(c)
    \/ \E s \in Sids : \/ newStream(c, s) \/ recv(c, s) \/ cancel(c, s)
                       \/ send(c, s) \/ Sent(c, s) \/ finish(c, s)

DnSpec == DnInit /\ [][DnNext]_dnVars

-----------------------------------------------------------------------------
(***************************************************************************)
(* Properties.                                                             *)
(***************************************************************************)
Sums(q, Val(_)) == MapThenSumSet(LAMBDA i : Val(q[i]), DOMAIN q)

\* The credit of a Conn, wherever it is: with the sender (in its container or
\* stashed), held by a send that encodes, on its way as data or as a grant, in
\* the Conn's buffers, or waiting to be granted.
CreditOf(c) ==
  LET tx == Position(epochs, evicted, c)
  IN  (tx.granted - tx.sent)
      + Cardinality({s \in Sids : handler[c][s].at = "encoding"})
      + Sums(down[c], LAMBDA f : IF f.t = "DATA" THEN 1 ELSE 0)
      + Sums(up[c], LAMBDA f : f.n)
      + MapThenSumSet(LAMBDA s : pinned[c][s], Sids) + connRx[c].pending

\* Eviction neither loses nor invents credit: as long as its stashed position
\* was never dropped, a Conn's window is exactly accounted for, so it does not
\* shrink for good and the Conn never refuses a frame (stash, unstash,
\* creditEvicted, undoCredit, release, admit).
CreditExact ==
  /\ \A c \in Seen \ dropped : CreditOf(c) = Window
  /\ overrun \subseteq dropped

\* Nothing is dropped unless more than 2 * maxDeadPeers incarnations share the
\* peer, an incarnation coming back to a full stash included (ensurePeer).
StashSuffices == dropped # {} => Cardinality(Seen) > 2 * MaxDead
=============================================================================
