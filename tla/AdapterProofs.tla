--------------------------- MODULE AdapterProofs ----------------------------
(***************************************************************************)
(* Theorems about the wasm host and the WebSocket adapter, for any number  *)
(* of pages, connections, sends and received messages.                     *)
(***************************************************************************)
EXTENDS SocketPromises, WasmPromises, Naturals, Sequences, FiniteSets, TLAPS

CONSTANTS Page, High, Pings, MaxSends, MaxRx
VARIABLES mode, conn, up, down, glob, gone, answered, ws, tx

W == INSTANCE Wasm

-----------------------------------------------------------------------------
(***************************************************************************)
(* The wasm host.                                                          *)
(***************************************************************************)
WPage == [st: {"none", "opening", "ready", "rejected"}, dead: BOOLEAN,
          crashed: BOOLEAN, closed: BOOLEAN]
WConn == [st: {"none", "open", "ended"}, of: Page \cup {W!NoPage}, name: W!Names]
WPort == W!Held \cup {"page", "bye", "gone"}
WDown == Seq({"ready", "error", "exited"})

WTyped ==
  /\ mode \in {"own", "given", "here"}
  /\ page \in [Page -> WPage]
  /\ conn \in [Conn -> WConn]
  /\ port \in [Conn -> WPort]
  /\ inst \in {"none", "loading", "running", "up", "dead", "failed", "terminated"}
  /\ glob \in {"none", "fn", "bad"}
  /\ down \in [Page -> WDown]
  /\ gone \in BOOLEAN /\ answered \in BOOLEAN /\ owner \in Page \cup {W!NoPage}
  /\ \A c \in Conn : conn[c].st = "open" => ~page[conn[c].of].dead

LEMMA WTypes == W!WasmTypeOK <=> WTyped
  BY DEF W!WasmTypeOK, WTyped, WPage, WConn, WPort, WDown

WMsg == {W!StartMsg(p) : p \in Page} \cup {W!ServeMsg(c) : c \in Conn}

\* The start of the instance is on its way, or the instance has not said yet
\* how it went.
Starting == inst \in {"none", "loading", "running"}

\* The worker's inbox: a start comes from a page that waits for its outcome.
WMail ==
  /\ up \in Seq(WMsg)
  /\ \A i \in 1..Len(up) : up[i].drpc = "start" => page[up[i].of].st # "none"

WInv ==
  /\ WTyped
  /\ \A c \in Conn : conn[c].st = "open" => conn[c].of \in Page
  /\ WMail
  /\ \A p \in Page : page[p].st \in {"none", "opening"} => ~page[p].dead
  /\ inst = "terminated" => mode = "own"
  /\ inst = "none" => owner = W!NoPage
  /\ inst \notin {"none", "terminated"} => owner \in Page /\ page[owner].st # "none"
  \* nothing was told to anybody before the start was decided
  /\ Starting => ~answered /\ \A p \in Page : down[p] = <<>>
  /\ Starting => \A p \in Page : page[p].st = "rejected" => page[p].crashed
  \* what the owner of a successful start reads first is the success
  /\ inst \in {"up", "dead"} /\ page[owner].st = "opening" =>
       down[owner] # <<>> /\ Head(down[owner]) = "ready"
  /\ W!OwnerNotRejected

LEMMA WInvInit == W!WasmInit => WInv
<1> SUFFICES ASSUME W!WasmInit PROVE WInv
  OBVIOUS
<1>1. WTyped
  <2>1. page \in [Page -> WPage] /\ conn \in [Conn -> WConn] /\ port \in [Conn -> WPort]
    BY DEF W!WasmInit, WPage, WConn, WPort, W!Names, W!NoPage
  <2>2. down \in [Page -> WDown]
    <3>1. <<>> \in Seq({"ready", "error", "exited"})
      OBVIOUS
    <3> QED
      BY <3>1 DEF W!WasmInit, WDown
  <2>3. \A c \in Conn : conn[c].st # "open"
    BY DEF W!WasmInit
  <2> QED
    BY Zenon, <2>1, <2>2, <2>3 DEF W!WasmInit, WTyped
<1>2. up \in Seq(WMsg) /\ up = <<>> /\ Len(up) = 0
  BY DEF W!WasmInit
<1>3. W!OwnerNotRejected
  BY DEF W!WasmInit, W!OwnerNotRejected
<1>4. \A p \in Page : page[p].st = "none" /\ ~page[p].dead /\ down[p] = <<>>
  BY DEF W!WasmInit
<1>5. \A c \in Conn : conn[c].st = "none"
  BY DEF W!WasmInit
<1>6. inst = "none" /\ owner = W!NoPage /\ answered = FALSE
  BY DEF W!WasmInit
<1> QED
  BY <1>1, <1>2, <1>3, <1>4, <1>5, <1>6 DEF WInv, WMail, Starting

LEMMA EndedConns ==
  ASSUME WTyped, NEW S
  PROVE  /\ W!Ended(S) \in [Conn -> WConn]
         /\ \A c \in Conn : /\ W!Ended(S)[c].of = conn[c].of
                            /\ W!Ended(S)[c].st = "open" => conn[c].st = "open" /\ c \notin S
  BY DEF WTyped, WConn, W!Ended

LEMMA FarewellPorts ==
  ASSUME WTyped, NEW S
  PROVE  W!Farewell(S) \in [Conn -> WPort]
  BY DEF WTyped, WPort, W!Farewell

LEMMA TellPages ==
  ASSUME WTyped, NEW m \in {"ready", "error", "exited"}
  PROVE  /\ W!Tell(m) \in [Page -> WDown]
         /\ \A p \in Page : /\ page[p].st # "none" => W!Tell(m)[p] = Append(down[p], m)
                            /\ page[p].st = "none" => W!Tell(m)[p] = down[p]
<1>1. \A p \in Page : down[p] \in WDown /\ Append(down[p], m) \in WDown
  BY DEF WTyped, WDown
<1> QED
  BY <1>1 DEF W!Tell

\* What is kept of the worker's inbox stays in order.
LEMMA MailKept ==
  ASSUME WTyped, WMail, up' = up \/ up' = <<>> \/ (up # <<>> /\ up' = Tail(up)),
         \A p \in Page : page[p].st # "none" => page'[p].st # "none"
  PROVE  WMail'
<1>1. \A i \in 1..Len(up) : up[i].drpc = "start" => up[i].of \in Page
  BY DEF WMail, WMsg, W!StartMsg, W!ServeMsg
<1>2. CASE up' = up
  BY <1>1, <1>2 DEF WMail
<1>3. CASE up' = <<>>
  BY <1>3 DEF WMail
<1>4. CASE up # <<>> /\ up' = Tail(up)
  <2>1. /\ up' \in Seq(WMsg) /\ Len(up') = Len(up) - 1 /\ Len(up) \in Nat
        /\ \A i \in 1..Len(up') : up'[i] = up[i + 1] /\ i + 1 \in 1..Len(up)
    BY <1>4 DEF WMail
  <2> QED
    BY <1>1, <2>1 DEF WMail
<1> QED
  BY <1>2, <1>3, <1>4

LEMMA MailSent ==
  ASSUME WTyped, WMail, NEW m \in WMsg, up' = Append(up, m),
         m.drpc = "start" => page'[m.of].st # "none",
         \A p \in Page : page[p].st # "none" => page'[p].st # "none"
  PROVE  WMail'
<1>1. \A i \in 1..Len(up) : up[i].drpc = "start" => up[i].of \in Page
  BY DEF WMail, WMsg, W!StartMsg, W!ServeMsg
<1>2. /\ up' \in Seq(WMsg) /\ Len(up') = Len(up) + 1 /\ Len(up) \in Nat
      /\ up'[Len(up) + 1] = m /\ \A i \in 1..Len(up) : up'[i] = up[i]
  BY DEF WMail
<1>3. \A i \in 1..Len(up') : i \in 1..Len(up) \/ i = Len(up) + 1
  BY <1>2
<1> QED
  BY <1>1, <1>2, <1>3 DEF WMail

\* A step in which only ports and connections move.
LEMMA PortsMove ==
  ASSUME WInv, UNCHANGED <<mode, page, down, inst, gone, answered, owner>>,
         glob' \in {"none", "fn", "bad"}, port' \in [Conn -> WPort],
         conn' = conn \/ \E S : conn' = W!Ended(S),
         up' = up \/ (up # <<>> /\ up' = Tail(up))
  PROVE  WInv'
<1>1. /\ conn' \in [Conn -> WConn]
      /\ \A c \in Conn : conn'[c].of = conn[c].of /\ (conn'[c].st = "open" => conn[c].st = "open")
  BY EndedConns DEF WInv, WTyped
<1>2. WTyped'
  BY <1>1 DEF WInv, WTyped
<1>3. WMail'
  BY MailKept DEF WInv
<1>4. \A c \in Conn : conn'[c].st = "open" => conn'[c].of \in Page
  BY <1>1 DEF WInv
<1>5. Starting' <=> Starting
  BY DEF Starting
<1>6. W!OwnerNotRejected'
  BY DEF WInv, W!OwnerNotRejected
<1> QED
  BY <1>2, <1>3, <1>4, <1>5, <1>6 DEF WInv

LEMMA AbandonStep ==
  ASSUME WInv, NEW S, W!Abandon(S) PROVE WInv'
<1>1. W!Farewell(S) \in [Conn -> WPort]
  BY FarewellPorts DEF WInv
<1>2. port' = W!Farewell(S) /\ (conn' = conn \/ conn' = W!Ended(S))
  BY DEF W!Abandon, W!Abandoned
<1>3. UNCHANGED <<mode, page, up, down, inst, glob, gone, answered, owner>>
  BY DEF W!Abandon
<1>4. glob \in {"none", "fn", "bad"}
  BY DEF WInv, WTyped
<1> QED
  BY <1>1, <1>2, <1>3, <1>4, PortsMove

LEMMA MovesStep ==
  ASSUME WInv, NEW c \in Conn, NEW st \in WPort, W!Moves(c, st) PROVE WInv'
<1>1. /\ port' = [port EXCEPT ![c] = st] /\ conn' = conn /\ up' = up
      /\ UNCHANGED <<mode, page, down, inst, glob, gone, answered, owner>>
  BY DEF W!Moves
<1>2. glob \in {"none", "fn", "bad"} /\ port \in [Conn -> WPort]
  BY DEF WInv, WTyped
<1> QED
  BY <1>1, <1>2, PortsMove

LEMMA PortSteps ==
  ASSUME WInv, NEW c \in Conn, W!onGoodbye(c) \/ W!onServe(c) \/ W!serve(c) \/ W!hand(c)
  PROVE  WInv'
<1>0. glob \in {"none", "fn", "bad"} /\ port \in [Conn -> WPort] /\ WTyped
  BY DEF WInv, WTyped
<1>1. CASE W!onGoodbye(c)
  <2>1. /\ port' = [port EXCEPT ![c] = "gone"] /\ up' = up
        /\ UNCHANGED <<mode, page, down, inst, glob, gone, answered, owner>>
        /\ \E S : conn' = W!Ended(S)
    BY <1>1, Zenon DEF W!onGoodbye
  <2>2. port' \in [Conn -> WPort]
    BY <1>0, <2>1 DEF WPort
  <2> QED
    BY <1>0, <2>1, <2>2, PortsMove
<1>2. CASE W!onServe(c)
  <2>1. /\ port' = W!Farewell({c}) \/ port' = [port EXCEPT ![c] = "held"]
        /\ conn' = conn /\ up # <<>> /\ up' = Tail(up)
        /\ UNCHANGED <<mode, page, down, inst, glob, gone, answered, owner>>
    BY <1>2 DEF W!onServe
  <2>2. port' \in [Conn -> WPort]
    BY <1>0, <2>1, FarewellPorts DEF WPort, W!Held
  <2> QED
    BY <1>0, <2>1, <2>2, PortsMove
<1>3. CASE W!serve(c) \/ W!hand(c)
  <2>1. W!Abandon({c}) \/ \E st \in {"served", "granted", "waiting"} : W!Moves(c, st)
    <3>1. CASE W!hand(c)
      BY <3>1 DEF W!hand
    <3>2. CASE W!serve(c)
      BY Zenon, <3>2, <1>0 DEF W!serve
    <3> QED
      BY <1>3, <3>1, <3>2
  <2> QED
    BY <2>1, AbandonStep, MovesStep DEF WPort, W!Held
<1> QED
  BY <1>1, <1>2, <1>3

LEMMA PublishStep ==
  ASSUME WInv, NEW v \in {"fn", "bad"}, W!publish(v) PROVE WInv'
<1>1. /\ UNCHANGED <<mode, page, up, down, inst, gone, answered, owner>>
      /\ glob' = v /\ (conn' = conn \/ conn' = W!Ended(W!Waiters))
      /\ \/ port' = [c \in Conn |-> IF c \in W!Waiters THEN "granted" ELSE port[c]]
         \/ port' = W!Farewell(W!Waiters)
  BY DEF W!publish, W!Abandoned
<1>2. port' \in [Conn -> WPort]
  BY <1>1, FarewellPorts DEF WInv, WTyped, WPort, W!Held
<1> QED
  BY <1>1, <1>2, PortsMove

LEMMA DialStep ==
  ASSUME WInv, NEW p \in Page, NEW c \in Conn, NEW n \in W!Names, W!dial(p, c, n)
  PROVE  WInv'
<1>0. WTyped
  BY DEF WInv
<1>1. /\ UNCHANGED <<mode, page, down, inst, glob, gone, answered, owner>>
      /\ ~page[p].dead
      /\ conn' = [conn EXCEPT ![c] = [st |-> "open", of |-> p, name |-> n]]
      /\ \/ port' = [port EXCEPT ![c] = "held"] /\ up' = up
         \/ up' = Append(up, W!ServeMsg(c)) /\ port' = port
  BY DEF W!dial
<1>2. conn' \in [Conn -> WConn] /\ port' \in [Conn -> WPort]
  BY <1>0, <1>1 DEF WTyped, WConn, WPort, W!Held
<1>3. \A d \in Conn : conn'[d].st = "open" => conn'[d].of \in Page /\ ~page[conn'[d].of].dead
  BY <1>0, <1>1 DEF WInv, WTyped
<1>4. WTyped'
  BY <1>0, <1>1, <1>2, <1>3 DEF WTyped
<1>5. WMail'
  <2>1. CASE up' = up
    BY <1>0, <1>1, <2>1, MailKept DEF WInv
  <2>2. CASE up' = Append(up, W!ServeMsg(c))
    <3>1. W!ServeMsg(c) \in WMsg /\ W!ServeMsg(c).drpc # "start"
      BY DEF WMsg, W!ServeMsg
    <3> QED
      BY <1>0, <1>1, <2>2, <3>1, MailSent DEF WInv
  <2> QED
    BY <1>1, <2>1, <2>2
<1>6. W!OwnerNotRejected' /\ (Starting' <=> Starting)
  BY <1>1 DEF WInv, W!OwnerNotRejected, Starting
<1> QED
  BY <1>1, <1>3, <1>4, <1>5, <1>6 DEF WInv

\* A step in which the sock of one page moves, and with it perhaps the worker it
\* owns.
LEMMA PageMoves ==
  ASSUME WInv, NEW p \in Page, NEW r \in WPage, page' = [page EXCEPT ![p] = r],
         page[p].st # "none", r.st # "none", r.st = "opening" => ~r.dead,
         conn' = conn \/ conn' = W!Buried(p), r.dead => conn' = W!Buried(p) \/ page[p].dead,
         UNCHANGED <<mode, glob, gone, answered, owner>>,
         \/ UNCHANGED <<inst, up, port>>
         \/ mode = "own" /\ inst' = "terminated" /\ up' = <<>> /\ port' \in [Conn -> WPort],
         down' = down \/ (down[p] # <<>> /\ down' = [down EXCEPT ![p] = Tail(down[p])]),
         Starting /\ r.st = "rejected" => r.crashed,
         p = owner /\ owner # W!NoPage /\ r.st = "rejected" => r.crashed \/ inst' \in {"failed", "terminated"},
         p = owner /\ r.st = "opening" /\ inst \in {"up", "dead"}
           => page[p].st = "opening" /\ down' = down
  PROVE  WInv'
<1>0. WTyped /\ page \in [Page -> WPage] /\ conn \in [Conn -> WConn] /\ down \in [Page -> WDown]
  BY DEF WInv, WTyped
<1>1. /\ page' \in [Page -> WPage] /\ page'[p] = r
      /\ \A q \in Page : q # p => page'[q] = page[q]
  BY <1>0
<1>2. /\ conn' \in [Conn -> WConn]
      /\ \A c \in Conn : /\ conn'[c].of = conn[c].of
                         /\ conn'[c].st = "open" => conn[c].st = "open"
                         /\ conn' = W!Buried(p) => (conn'[c].st = "open" => conn[c].of # p)
  <2>1. conn' \in [Conn -> WConn] /\ \A c \in Conn : conn'[c].of = conn[c].of /\ (conn'[c].st = "open" => conn[c].st = "open")
    BY <1>0, EndedConns DEF W!Buried
  <2>2. ASSUME conn' = W!Buried(p), NEW c \in Conn, conn'[c].st = "open" PROVE conn[c].of # p
    <3>1. conn[c].st = "open" /\ c \notin {d \in Conn : conn[d].of = p /\ conn[d].st = "open"}
      BY <1>0, <2>2, EndedConns DEF W!Buried
    <3> QED
      BY <3>1
  <2> QED
    BY <2>1, <2>2
<1>3. \A c \in Conn : conn'[c].st = "open" => conn'[c].of \in Page /\ ~page'[conn'[c].of].dead
  <2> SUFFICES ASSUME NEW c \in Conn, conn'[c].st = "open"
               PROVE  conn'[c].of \in Page /\ ~page'[conn'[c].of].dead
    OBVIOUS
  <2>1. conn'[c].of = conn[c].of /\ conn[c].st = "open"
    BY <1>2
  <2>2. conn[c].of \in Page /\ ~page[conn[c].of].dead
    BY <2>1 DEF WInv, WTyped
  <2>3. conn[c].of = p => ~r.dead
    BY <1>2, <2>2
  <2> QED
    BY <1>1, <2>1, <2>2, <2>3
<1>4. down' \in [Page -> WDown] /\ \A q \in Page : q # p => down'[q] = down[q]
  <2>1. CASE down' = down
    BY <1>0, <2>1
  <2>2. CASE down[p] # <<>> /\ down' = [down EXCEPT ![p] = Tail(down[p])]
    <3>1. Tail(down[p]) \in WDown
      BY <1>0, <2>2 DEF WDown
    <3> QED
      BY <1>0, <2>2, <3>1
  <2> QED
    BY <2>1, <2>2
<1>5. WTyped'
  BY <1>0, <1>1, <1>2, <1>3, <1>4 DEF WTyped
<1>6. WMail'
  <2>1. \A q \in Page : page[q].st # "none" => page'[q].st # "none"
    BY <1>1
  <2>2. up' = up \/ up' = <<>>
    OBVIOUS
  <2> QED
    BY <1>0, <2>1, <2>2, MailKept DEF WInv
<1>7. /\ \A q \in Page : page'[q].st \in {"none", "opening"} => ~page'[q].dead
  BY <1>0, <1>1 DEF WInv
<1>8. /\ inst' = "terminated" => mode' = "own"
      /\ inst' = "none" => owner' = W!NoPage
      /\ inst' \notin {"none", "terminated"} => owner' \in Page /\ page'[owner'].st # "none"
  BY <1>1 DEF WInv
<1>9. ASSUME Starting'
      PROVE  /\ ~answered' /\ \A q \in Page : down'[q] = <<>>
             /\ \A q \in Page : page'[q].st = "rejected" => page'[q].crashed
  <2>1. Starting
    BY <1>9 DEF Starting
  <2>2. \A q \in Page : down[q] = <<>>
    BY <2>1 DEF WInv
  <2>3. down' = down
    BY <2>2
  <2> QED
    BY <1>1, <2>1, <2>2, <2>3 DEF WInv
<1>10. inst' \in {"up", "dead"} /\ page'[owner'].st = "opening" =>
         down'[owner'] # <<>> /\ Head(down'[owner']) = "ready"
  <2> SUFFICES ASSUME inst' \in {"up", "dead"}, page'[owner].st = "opening"
               PROVE  down'[owner] # <<>> /\ Head(down'[owner]) = "ready"
    OBVIOUS
  <2>1. inst \in {"up", "dead"} /\ owner \in Page
    BY DEF WInv
  <2>2. page[owner].st = "opening" /\ down'[owner] = down[owner]
    BY <1>1, <1>4, <2>1
  <2> QED
    BY <2>1, <2>2 DEF WInv
<1>11. W!OwnerNotRejected'
  <2> SUFFICES ASSUME owner # W!NoPage, page'[owner].st = "rejected"
               PROVE  page'[owner].crashed \/ inst' \in {"failed", "terminated"}
    BY DEF W!OwnerNotRejected
  <2>1. owner \in Page
    BY <1>0 DEF WTyped
  <2>2. CASE owner = p
    BY <1>1, <2>2
  <2>3. CASE owner # p
    BY <1>1, <2>1, <2>3 DEF WInv, W!OwnerNotRejected
  <2> QED
    BY <2>2, <2>3
<1> QED
  BY <1>3, <1>5, <1>6, <1>7, <1>8, <1>9, <1>10, <1>11 DEF WInv

LEMMA StopMoves ==
  ASSUME WInv, W!Stop
  PROVE  \/ UNCHANGED <<inst, up, port>>
         \/ mode = "own" /\ inst' = "terminated" /\ up' = <<>> /\ port' \in [Conn -> WPort]
  BY DEF WInv, WTyped, W!Stop, W!Terminated, WPort

LEMMA RejectsStep ==
  ASSUME WInv, NEW p \in Page, NEW crash \in BOOLEAN, W!Rejects(p, crash), page[p].st = "opening",
         UNCHANGED <<mode, glob, gone, answered, owner>>,
         down' = down \/ (down[p] # <<>> /\ down' = [down EXCEPT ![p] = Tail(down[p])]),
         ~crash => down[p] # <<>> /\ Head(down[p]) # "ready"
  PROVE  WInv'
<1> DEFINE r == [st |-> "rejected", dead |-> TRUE, crashed |-> crash, closed |-> TRUE]
<1>1. r \in WPage /\ r.st = "rejected" /\ r.crashed = crash /\ r.dead = TRUE
  BY DEF WPage
<1>2. page' = [page EXCEPT ![p] = r] /\ conn' = W!Buried(p) /\ W!Stop
  BY DEF W!Rejects
<1>3. Starting => crash
  BY DEF WInv
<1>4. p = owner /\ ~crash => inst' \in {"failed", "terminated"}
  <2> SUFFICES ASSUME p = owner, ~crash PROVE inst' \in {"failed", "terminated"}
    OBVIOUS
  <2>1. ~Starting /\ inst \notin {"up", "dead"}
    BY <1>3 DEF WInv
  <2>2. inst \in {"failed", "terminated"}
    BY <2>1 DEF WInv, WTyped, Starting
  <2> QED
    BY <1>2, <2>2, StopMoves
<1> HIDE DEF r
<1> QED
  BY Zenon, <1>1, <1>2, <1>3, <1>4, StopMoves, PageMoves

LEMMA OnMessageStep ==
  ASSUME WInv, NEW p \in Page, W!onMessage(p) PROVE WInv'
<1> DEFINE m == Head(down[p])
<1>0. /\ WTyped /\ page \in [Page -> WPage] /\ page[p] \in WPage
      /\ down[p] # <<>> /\ down' = [down EXCEPT ![p] = Tail(down[p])]
      /\ UNCHANGED <<mode, glob, gone, answered, owner>>
  BY DEF WInv, WTyped, W!onMessage
<1>1. page[p].st # "none" \/ (page[p].st = "none" /\ UNCHANGED <<page, conn, inst, up, port>>)
  BY Zenon DEF W!onMessage
<1>2. CASE ~page[p].dead /\ m = "ready" /\ page[p].st = "opening"
  <2>1. page' = [page EXCEPT ![p].st = "ready"] /\ UNCHANGED <<conn, inst, up, port>>
    BY Zenon, <1>2 DEF W!onMessage
  <2> DEFINE r == [page[p] EXCEPT !.st = "ready"]
  <2>2. r \in WPage /\ r.st = "ready" /\ ~r.dead /\ page' = [page EXCEPT ![p] = r]
    BY <1>0, <1>2, <2>1 DEF WPage
  <2> HIDE DEF r
  <2> QED
    BY Zenon, <1>0, <1>2, <2>1, <2>2, PageMoves
<1>3. CASE ~page[p].dead /\ m # "ready" /\ page[p].st = "opening"
  <2>1. W!Rejects(p, FALSE)
    BY Zenon, <1>3 DEF W!onMessage
  <2> QED
    BY Zenon, <1>0, <1>3, <2>1, RejectsStep
<1>4. CASE ~page[p].dead /\ m = "exited" /\ page[p].st = "ready"
  <2>1. page' = [page EXCEPT ![p].dead = TRUE] /\ conn' = W!Buried(p) /\ UNCHANGED <<inst, up, port>>
    BY <1>4 DEF W!onMessage, W!Die
  <2> DEFINE r == [page[p] EXCEPT !.dead = TRUE]
  <2>2. r \in WPage /\ r.st = "ready" /\ page' = [page EXCEPT ![p] = r]
    BY Zenon, <1>0, <1>4, <2>1 DEF WPage
  <2> HIDE DEF r
  <2> QED
    BY Zenon, <1>0, <1>4, <2>1, <2>2, PageMoves
<1>5. CASE UNCHANGED <<page, conn, inst, up, port>> /\ page[p].st \notin {"none", "opening"}
  <2>1. page' = [page EXCEPT ![p] = page[p]]
    BY <1>0, <1>5
  <2>2. ~Starting
    BY <1>0 DEF WInv
  <2>3. page[p].dead => page[p].dead
    OBVIOUS
  <2>4. owner = p /\ owner # W!NoPage /\ page[p].st = "rejected" => page[p].crashed \/ inst \in {"failed", "terminated"}
    BY <1>0, <2>2 DEF WInv, W!OwnerNotRejected, WTyped, Starting
  <2> QED
    BY Zenon, <1>0, <1>5, <2>1, <2>2, <2>4, PageMoves
<1>6. CASE UNCHANGED <<page, conn, inst, up, port>> /\ page[p].st = "opening" /\ page[p].dead
  BY Zenon, <1>6 DEF WInv
<1>7. CASE UNCHANGED <<page, conn, inst, up, port>> /\ page[p].st = "none"
  <2>1. down' \in [Page -> WDown] /\ \A q \in Page : q # p => down'[q] = down[q]
    BY <1>0 DEF WTyped, WDown
  <2>2. WTyped' /\ WMail'
    BY Zenon, <1>0, <1>7, <2>1, MailKept DEF WTyped, WInv
  <2>3. ~Starting /\ ~Starting'
    BY <1>0, <1>7 DEF WInv, Starting
  <2>4. W!OwnerNotRejected'
    BY <1>0, <1>7 DEF WInv, W!OwnerNotRejected
  <2> QED
    BY Zenon, <1>0, <1>7, <2>1, <2>2, <2>3, <2>4 DEF WInv
<1> QED
  BY Zenon, <1>2, <1>3, <1>4, <1>5, <1>6, <1>7 DEF W!onMessage

LEMMA PageSteps ==
  ASSUME WInv, NEW p \in Page, W!workerError(p) \/ W!close(p) \/ W!hereBury(p)
  PROVE  WInv'
<1>0. page \in [Page -> WPage] /\ page[p] \in WPage
  BY DEF WInv, WTyped
<1>1. CASE W!workerError(p)
  BY Zenon, <1>1, RejectsStep DEF W!workerError
<1>2. CASE W!close(p)
  <2> DEFINE r == [page[p] EXCEPT !.dead = TRUE, !.closed = TRUE]
  <2>1. page' = [page EXCEPT ![p].dead = TRUE, ![p].closed = TRUE] /\ page[p].st = "ready"
    BY <1>2 DEF W!close
  <2>2. r \in WPage /\ r.st = "ready" /\ page' = [page EXCEPT ![p] = r]
    BY Zenon, <1>0, <2>1 DEF WPage
  <2>3. /\ W!Stop /\ UNCHANGED <<mode, down, glob, gone, answered, owner>>
        /\ conn' = IF page[p].dead THEN conn ELSE W!Buried(p)
    BY <1>2 DEF W!close
  <2> HIDE DEF r
  <2> QED
    BY Zenon, <2>1, <2>2, <2>3, StopMoves, PageMoves
<1>3. CASE W!hereBury(p)
  <2> DEFINE r == [page[p] EXCEPT !.dead = TRUE]
  <2>1. page' = [page EXCEPT ![p].dead = TRUE] /\ page[p].st = "ready"
    BY <1>3 DEF W!hereBury, W!Die
  <2>2. r \in WPage /\ r.st = "ready" /\ page' = [page EXCEPT ![p] = r]
    BY Zenon, <1>0, <2>1 DEF WPage
  <2>3. /\ UNCHANGED <<mode, down, glob, gone, answered, owner, inst, up, port>>
        /\ conn' = W!Buried(p)
    BY <1>3 DEF W!hereBury, W!Die
  <2> HIDE DEF r
  <2> QED
    BY Zenon, <2>1, <2>2, <2>3, PageMoves
<1> QED
  BY <1>1, <1>2, <1>3

LEMMA OpenStep ==
  ASSUME WInv, NEW p \in Page, W!open(p) PROVE WInv'
<1>0. WTyped /\ page \in [Page -> WPage] /\ page[p] \in WPage
  BY DEF WInv, WTyped
<1>1. /\ page[p].st = "none" /\ page' = [page EXCEPT ![p].st = "opening"]
      /\ UNCHANGED <<mode, conn, port, down, glob, gone, answered>>
  BY DEF W!open
<1>2. /\ page' \in [Page -> WPage] /\ page'[p].st = "opening" /\ page'[p].dead = page[p].dead
      /\ \A q \in Page : q # p => page'[q] = page[q]
  BY <1>0, <1>1 DEF WPage
<1>3. /\ \A c \in Conn : conn[c].st = "open" => conn[c].of \in Page /\ ~page'[conn[c].of].dead
      /\ \A q \in Page : page'[q].st \in {"none", "opening"} => ~page'[q].dead
  BY <1>1, <1>2 DEF WInv, WTyped
<1>4. CASE mode = "here"
  <2>1. inst' = "loading" /\ owner' = p /\ up' = up /\ \A q \in Page : page[q].st = "none"
    BY <1>4, Zenon DEF W!open
  <2>2. inst = "none"
    BY <1>4, <2>1 DEF WInv
  <2>3. Starting /\ Starting'
    BY <2>1, <2>2 DEF Starting
  <2>4. WTyped'
    BY <1>0, <1>1, <1>2, <1>3, <2>1 DEF WTyped
  <2>5. WMail'
    BY <1>0, <1>2, <2>1, MailKept DEF WInv
  <2>6. \A q \in Page : page'[q].st = "rejected" => page'[q].crashed
    BY <1>2, <2>1
  <2>7. W!OwnerNotRejected'
    BY <1>2, <2>1 DEF W!OwnerNotRejected
  <2>8. ~answered' /\ \A q \in Page : down'[q] = <<>>
    BY <1>1, <2>3 DEF WInv
  <2> QED
    BY <1>1, <1>2, <1>3, <2>1, <2>3, <2>4, <2>5, <2>6, <2>7, <2>8 DEF WInv
<1>5. CASE mode # "here"
  <2>1. inst' = inst /\ owner' = owner /\ up' = Append(up, W!StartMsg(p))
    BY <1>5 DEF W!open
  <2>2. Starting' <=> Starting
    BY <2>1 DEF Starting
  <2>3. WTyped'
    BY <1>0, <1>1, <1>2, <1>3, <2>1 DEF WTyped
  <2>4. WMail'
    <3>1. W!StartMsg(p) \in WMsg /\ W!StartMsg(p).of = p
      BY DEF WMsg, W!StartMsg
    <3>2. \A q \in Page : page[q].st # "none" => page'[q].st # "none"
      BY <1>2
    <3>3. page'[W!StartMsg(p).of].st # "none"
      BY <1>2, <3>1
    <3> QED
      BY <1>0, <2>1, <3>1, <3>2, <3>3, MailSent DEF WInv
  <2>5. \A q \in Page : page'[q].st # "opening" \/ q = p => q = p \/ page'[q] = page[q]
    BY <1>2
  <2>6. inst \notin {"none", "terminated"} => owner \in Page /\ owner # p
    BY <1>1 DEF WInv
  <2>7. W!OwnerNotRejected'
    BY <1>0, <1>2, <2>1 DEF WInv, WTyped, W!OwnerNotRejected
  <2> QED
    BY <1>1, <1>2, <1>3, <2>1, <2>2, <2>3, <2>4, <2>6, <2>7 DEF WInv
<1> QED
  BY <1>4, <1>5

LEMMA OnStartStep ==
  ASSUME WInv, NEW p \in Page, W!onStart(p) PROVE WInv'
<1>0. WTyped
  BY DEF WInv
<1>1. /\ up # <<>> /\ Head(up) = W!StartMsg(p) /\ up' = Tail(up)
      /\ UNCHANGED <<mode, page, conn, port, glob, gone, answered>>
  BY DEF W!onStart
<1>2. WMail'
  BY Zenon, <1>0, <1>1, MailKept DEF WInv
<1>3. page[p].st # "none"
  <2>1. Len(up) >= 1 /\ up[1] = W!StartMsg(p)
    BY <1>1 DEF WInv, WMail
  <2>2. up[1].drpc = "start" /\ up[1].of = p /\ 1 \in 1..Len(up)
    BY <2>1 DEF WInv, WMail, W!StartMsg
  <2> QED
    BY <2>2 DEF WInv, WMail
<1>4. CASE inst = "none"
  <2>1. inst' = "loading" /\ owner' = p /\ down' = down
    BY <1>4 DEF W!onStart
  <2>2. WTyped' /\ Starting /\ Starting'
    BY <1>0, <1>1, <1>4, <2>1 DEF WTyped, Starting
  <2>3. W!OwnerNotRejected'
    BY <1>1, <2>1, <2>2 DEF WInv, W!OwnerNotRejected
  <2> QED
    BY <1>1, <1>2, <1>3, <2>1, <2>2, <2>3 DEF WInv
<1>5. CASE inst # "none"
  <2>1. inst' = inst /\ owner' = owner /\ (down' = down \/ (answered /\ down' = W!Tell("error")))
    BY <1>5 DEF W!onStart
  <2>2. /\ down' \in [Page -> WDown]
        /\ \A q \in Page : down'[q] = down[q] \/ (answered /\ down'[q] = Append(down[q], "error"))
    BY <1>0, <2>1, TellPages DEF WTyped
  <2>3. WTyped' /\ (Starting' <=> Starting)
    BY <1>0, <1>1, <2>1, <2>2 DEF WTyped, Starting
  <2>4. Starting => \A q \in Page : down'[q] = <<>>
    BY <2>2 DEF WInv
  <2>5. ASSUME inst \in {"up", "dead"}, page[owner].st = "opening"
        PROVE  down'[owner] # <<>> /\ Head(down'[owner]) = "ready"
    <3>1. down[owner] # <<>> /\ Head(down[owner]) = "ready" /\ owner \in Page /\ down[owner] \in WDown
      BY Zenon, <2>5, <1>0 DEF WInv, WTyped
    <3>2. CASE down'[owner] = down[owner]
      BY <3>1, <3>2
    <3>3. CASE down'[owner] = Append(down[owner], "error")
      BY <3>1, <3>3 DEF WDown
    <3> QED
      BY <2>2, <3>1, <3>2, <3>3
  <2>6. W!OwnerNotRejected'
    BY <1>1, <2>1 DEF WInv, W!OwnerNotRejected
  <2> QED
    BY Zenon, <1>1, <1>2, <2>1, <2>2, <2>3, <2>4, <2>5, <2>6 DEF WInv
<1> QED
  BY <1>4, <1>5

\* The worker says goodbye on the ports it holds and tells the pages.
LEMMA BuryStep ==
  ASSUME WInv, W!bury PROVE WInv'
<1>0. WTyped /\ inst = "dead"
  BY Zenon DEF WInv, W!bury
<1>1. /\ gone' = TRUE /\ port' = W!Farewell(W!HeldPorts) /\ down' = W!Tell("exited")
      /\ UNCHANGED <<mode, page, conn, up, inst, glob, answered, owner>>
  BY DEF W!bury
<1>2. port' \in [Conn -> WPort] /\ down' \in [Page -> WDown]
  BY <1>0, <1>1, FarewellPorts, TellPages
<1>3. WTyped' /\ WMail' /\ ~Starting'
  BY Zenon, <1>0, <1>1, <1>2, MailKept DEF WInv, WTyped, Starting
<1>4. ASSUME page[owner].st = "opening"
      PROVE  down'[owner] # <<>> /\ Head(down'[owner]) = "ready"
  <2>1. down[owner] # <<>> /\ Head(down[owner]) = "ready" /\ owner \in Page /\ down[owner] \in WDown
    BY <1>0, <1>4 DEF WInv, WTyped
  <2>2. down'[owner] = Append(down[owner], "exited")
    BY <1>0, <1>1, <1>4, <2>1, TellPages
  <2> QED
    BY <2>1, <2>2 DEF WDown
<1>5. W!OwnerNotRejected'
  BY <1>1 DEF WInv, W!OwnerNotRejected
<1> QED
  BY Zenon, <1>0, <1>1, <1>3, <1>4, <1>5 DEF WInv

LEMMA StartFailsStep ==
  ASSUME WInv, Starting, inst # "none", W!StartFails PROVE WInv'
<1>0. WTyped /\ owner \in Page /\ page[owner] \in WPage /\ page[owner].st # "none"
  BY DEF WInv, WTyped, Starting
<1>1. inst' = "failed" /\ UNCHANGED <<mode, conn, up, glob, owner>>
  BY DEF W!StartFails
<1>2. CASE mode = "here"
  <2>1. page' = [page EXCEPT ![owner].st = "rejected"] /\ UNCHANGED <<port, down, gone, answered>>
    BY <1>2 DEF W!StartFails
  <2>2. /\ page' \in [Page -> WPage] /\ \A q \in Page : page'[q].dead = page[q].dead
        /\ \A q \in Page : q # owner => page'[q] = page[q]
        /\ page'[owner].st = "rejected"
    BY <1>0, <2>1 DEF WTyped, WPage
  <2>3. WTyped'
    BY <1>0, <1>1, <2>1, <2>2 DEF WInv, WTyped
  <2>4. WMail'
    BY <1>0, <1>1, <2>2, MailKept DEF WInv
  <2>5. W!OwnerNotRejected' /\ ~Starting'
    BY <1>1 DEF W!OwnerNotRejected, Starting
  <2> QED
    BY <1>0, <1>1, <2>1, <2>2, <2>3, <2>4, <2>5 DEF WInv
<1>3. CASE mode # "here"
  <2>1. /\ gone' = TRUE /\ answered' = TRUE /\ port' = W!Farewell(W!HeldPorts)
        /\ down' = W!Tell("error") /\ page' = page
    BY <1>3 DEF W!StartFails
  <2>2. port' \in [Conn -> WPort] /\ down' \in [Page -> WDown]
    BY Zenon, <1>0, <2>1, FarewellPorts, TellPages
  <2>3. WTyped' /\ WMail'
    BY Zenon, <1>0, <1>1, <2>1, <2>2, MailKept DEF WInv, WTyped
  <2>4. W!OwnerNotRejected' /\ ~Starting'
    BY <1>1 DEF W!OwnerNotRejected, Starting
  <2> QED
    BY <1>0, <1>1, <2>1, <2>3, <2>4 DEF WInv
<1> QED
  BY <1>2, <1>3

LEMMA ReadyStep ==
  ASSUME WInv, inst = "running", inst' = "up", W!Ready,
         UNCHANGED <<mode, conn, port, up, glob, gone, owner>>
  PROVE  WInv'
<1>0. WTyped /\ owner \in Page /\ page[owner] \in WPage /\ page[owner].st # "none" /\ Starting
  BY DEF WInv, WTyped, Starting
<1>1. ~Starting'
  BY DEF Starting
<1>2. CASE mode = "here"
  <2>1. page' = [page EXCEPT ![owner].st = "ready"] /\ UNCHANGED <<down, answered>>
    BY <1>2 DEF W!Ready
  <2>2. /\ page' \in [Page -> WPage] /\ \A q \in Page : page'[q].dead = page[q].dead
        /\ \A q \in Page : q # owner => page'[q] = page[q]
        /\ page'[owner].st = "ready"
    BY <1>0, <2>1 DEF WTyped, WPage
  <2>3. WTyped'
    BY <1>0, <2>1, <2>2 DEF WInv, WTyped
  <2>4. WMail'
    BY <1>0, <2>2, MailKept DEF WInv
  <2>5. W!OwnerNotRejected'
    BY <2>2 DEF W!OwnerNotRejected
  <2> QED
    BY <1>0, <1>1, <2>1, <2>2, <2>3, <2>4, <2>5 DEF WInv
<1>3. CASE mode # "here"
  <2>1. down' = W!Tell("ready") /\ answered' = TRUE /\ page' = page
    BY <1>3 DEF W!Ready
  <2>2. down' \in [Page -> WDown] /\ down'[owner] = Append(down[owner], "ready")
    BY <1>0, <2>1, TellPages
  <2>3. down[owner] = <<>>
    BY <1>0 DEF WInv
  <2>4. down'[owner] # <<>> /\ Head(down'[owner]) = "ready"
    BY <2>2, <2>3
  <2>5. WTyped' /\ WMail'
    BY Zenon, <1>0, <2>1, <2>2, MailKept DEF WInv, WTyped
  <2>6. W!OwnerNotRejected'
    BY <1>0, <2>1 DEF WInv, W!OwnerNotRejected
  <2> QED
    BY <1>0, <1>1, <2>1, <2>4, <2>5, <2>6 DEF WInv
<1> QED
  BY <1>2, <1>3

\* The instance moves on and tells nobody.
LEMMA InstanceMoves ==
  ASSUME WInv, \/ inst = "loading" /\ inst' = "running"
               \/ inst = "up" /\ inst' = "dead",
         UNCHANGED <<mode, page, conn, port, up, down, glob, gone, answered, owner>>
  PROVE  WInv'
<1>1. WTyped' /\ WMail'
  BY Zenon, MailKept DEF WInv, WTyped
<1>2. (Starting' <=> Starting) /\ W!OwnerNotRejected'
  BY DEF WInv, Starting, W!OwnerNotRejected
<1> QED
  BY Zenon, <1>1, <1>2 DEF WInv

LEMMA WInvStep == WInv /\ [W!WasmNext]_(W!wasmVars) => WInv'
<1> SUFFICES ASSUME WInv, [W!WasmNext]_(W!wasmVars) PROVE WInv'
  OBVIOUS
<1>1. ASSUME NEW p \in Page, W!onMessage(p) \/ W!hereBury(p) \/ W!onStart(p) \/ W!open(p)
                              \/ W!workerError(p) \/ W!close(p)
      PROVE  WInv'
  BY <1>1, OnMessageStep, PageSteps, OnStartStep, OpenStep
<1>2. ASSUME NEW c \in Conn, W!onGoodbye(c) \/ W!onServe(c) \/ W!serve(c) \/ W!hand(c)
      PROVE  WInv'
  BY <1>2, PortSteps
<1>3. CASE W!bury \/ W!watchEntryPoint
  BY <1>3, BuryStep, AbandonStep DEF W!watchEntryPoint
<1>4. CASE W!instantiate \/ W!awaitPublish
  <2>1. Starting /\ inst # "none"
    BY <1>4 DEF W!instantiate, W!awaitPublish, Starting
  <2>2. CASE W!StartFails
    BY <2>1, <2>2, StartFailsStep
  <2>3. CASE ~W!StartFails
    <3>1. CASE W!instantiate
      <4>1. /\ inst = "loading" /\ inst' = "running"
            /\ UNCHANGED <<mode, page, conn, port, up, down, glob, gone, answered, owner>>
        BY <2>3, <3>1, Zenon DEF W!instantiate
      <4> QED
        BY <4>1, InstanceMoves
    <3>2. CASE W!awaitPublish
      <4>1. /\ inst = "running" /\ inst' = "up" /\ W!Ready
            /\ UNCHANGED <<mode, conn, port, up, glob, gone, owner>>
        BY <2>3, <3>2, Zenon DEF W!awaitPublish
      <4> QED
        BY <4>1, ReadyStep
    <3> QED
      BY <1>4, <3>1, <3>2
  <2> QED
    BY <2>2, <2>3
<1>5. CASE W!died
  BY <1>5, InstanceMoves DEF W!died
<1>6. ASSUME NEW v \in {"fn", "bad"}, W!publish(v) PROVE WInv'
  BY <1>6, PublishStep
<1>7. ASSUME NEW p \in Page, NEW c \in Conn, NEW n \in W!Names, W!dial(p, c, n) PROVE WInv'
  BY <1>7, DialStep
<1>8. CASE UNCHANGED W!wasmVars
  <2>1. glob \in {"none", "fn", "bad"} /\ port \in [Conn -> WPort]
    BY DEF WInv, WTyped
  <2> QED
    BY <1>8, <2>1, PortsMove DEF W!wasmVars
<1> QED
  BY <1>1, <1>2, <1>3, <1>4, <1>5, <1>6, <1>7, <1>8, Zenon DEF W!WasmNext, W!Turn

\* The page's and the worker's state stay well formed, and no connection is open
\* on a sock that is dead: Sock.bury ends every one of them.
THEOREM WasmTypeCorrect == W!WasmSpec => []W!WasmTypeOK
<1>1. WInv => W!WasmTypeOK
  BY WTypes DEF WInv
<1> QED
  BY <1>1, WInvInit, WInvStep, PTL DEF W!WasmSpec

\* The page whose start is the one that runs is rejected only by that start's own
\* failure, by a crash of its worker or by its own close: the answer to a second
\* start is held back until nobody can mistake it (serveIn's `answered`).
THEOREM StartIsNotRejected == W!WasmSpec => []OwnerNotRejected
<1>1. WInv => OwnerNotRejected
  BY DEF WInv, W!OwnerNotRejected, OwnerNotRejected, W!NoPage, NoPage
<1> QED
  BY <1>1, WInvInit, WInvStep, PTL DEF W!WasmSpec

\* The ports that a step newly hands to the instance.
NewlyServed == {c \in Conn : port[c] # "served" /\ port'[c] = "served"}

LEMMA FarewellServesNobody ==
  ASSUME WTyped, NEW S, port' = W!Farewell(S) PROVE NewlyServed = {}
  BY DEF WTyped, W!Farewell, NewlyServed

LEMMA OnlyServed ==
  ASSUME WTyped, NEW c \in Conn, NEW st, st # "served", port' = [port EXCEPT ![c] = st]
  PROVE  NewlyServed = {}
  BY DEF WTyped, NewlyServed

LEMMA ServesWhileUp == WInv /\ [W!WasmNext]_(W!wasmVars) => NewlyServed = {} \/ inst = "up"
<1> SUFFICES ASSUME WInv, inst # "up", [W!WasmNext]_(W!wasmVars) PROVE NewlyServed = {}
  OBVIOUS
<1>0. WTyped
  BY DEF WInv
<1>1. CASE port' = port
  BY <1>1 DEF NewlyServed
<1>2. CASE W!Stop
  BY <1>0, <1>2 DEF W!Stop, NewlyServed, WTyped
<1>3. ASSUME NEW p \in Page, W!onMessage(p) PROVE NewlyServed = {}
  BY <1>1, <1>2, <1>3 DEF W!onMessage, W!Rejects, W!Die
<1>4. ASSUME NEW p \in Page, W!hereBury(p) \/ W!onStart(p) \/ W!open(p)
      PROVE NewlyServed = {}
  BY <1>1, <1>4 DEF W!hereBury, W!Die, W!onStart, W!open
<1>5. ASSUME NEW p \in Page, W!workerError(p) \/ W!close(p) PROVE NewlyServed = {}
  BY <1>2, <1>5 DEF W!workerError, W!Rejects, W!close
<1>6. ASSUME NEW c \in Conn, W!onGoodbye(c) PROVE NewlyServed = {}
  BY Zenon, <1>0, <1>6, OnlyServed DEF W!onGoodbye
<1>7. ASSUME NEW c \in Conn, W!onServe(c) PROVE NewlyServed = {}
  <2>1. port' = W!Farewell({c}) \/ port' = [port EXCEPT ![c] = "held"]
    BY <1>7 DEF W!onServe
  <2> QED
    BY <1>0, <2>1, OnlyServed, FarewellServesNobody
<1>8. ASSUME NEW S, W!Abandon(S) PROVE NewlyServed = {}
  BY <1>0, <1>8, FarewellServesNobody DEF W!Abandon
<1>9. ASSUME NEW c \in Conn, W!serve(c) \/ W!hand(c) PROVE NewlyServed = {}
  <2>1. W!Abandon({c})
    BY Zenon, <1>9 DEF W!serve, W!hand
  <2> QED
    BY <1>8, <2>1
<1>10. CASE W!bury
  BY <1>0, <1>10, FarewellServesNobody DEF W!bury
<1>11. CASE W!instantiate \/ W!awaitPublish
  <2>1. CASE W!StartFails
    BY <1>0, <1>1, <2>1, FarewellServesNobody DEF W!StartFails
  <2>2. CASE ~W!StartFails
    BY <1>1, <1>11, <2>2 DEF W!instantiate, W!awaitPublish
  <2> QED
    BY <2>1, <2>2
<1>12. CASE W!watchEntryPoint
  BY <1>8, <1>12 DEF W!watchEntryPoint
<1>13. CASE W!died \/ UNCHANGED W!wasmVars \/ \E v \in {"fn", "bad"} : W!publish(v)
  BY <1>1, <1>13 DEF W!died, W!publish, W!wasmVars
<1>14. ASSUME NEW p \in Page, NEW c \in Conn, NEW n \in W!Names, W!dial(p, c, n)
       PROVE  NewlyServed = {}
  <2>1. port' = [port EXCEPT ![c] = "held"] \/ port' = port
    BY <1>14 DEF W!dial
  <2> QED
    BY <1>0, <1>1, <2>1, OnlyServed
<1> QED
  BY <1>3, <1>4, <1>5, <1>6, <1>7, <1>9, <1>10, <1>11, <1>12, <1>13, <1>14, Zenon
  DEF W!WasmNext, W!Turn

\* No step of either realm hands a port to an instance that is not up: serve and
\* entryPointNamed look at the instance again after every wait.
THEOREM PortsGoToTheLiving == W!WasmSpec => CorpseServesNobody
<1>1. NewlyServed = {} \/ inst = "up" =>
        \A c \in Conn : port[c] # "served" /\ port'[c] = "served" => inst = "up"
  BY DEF NewlyServed
<1>2. UNCHANGED W!wasmVars => UNCHANGED <<port, inst>>
  BY DEF W!wasmVars
<1> QED
  BY <1>1, <1>2, WInvInit, WInvStep, ServesWhileUp, PTL DEF W!WasmSpec, CorpseServesNobody

---------------------------------------------------------------------------
(* The WebSocket adapter *)

S == INSTANCE Socket

\* The socket's record with numbers for its counters, every message that came
\* either still buffered or given to the core, and a pump that is done only over
\* an empty buffer and a tripped latch (after which nothing is buffered).
SInv ==
  /\ sock \in [opened: BOOLEAN, dead: BOOLEAN, kaTimer: BOOLEAN, gateway: BOOLEAN,
               rx: Nat, came: Nat, got: Nat,
               pump: {"on", "busy", "done"}, torn: BOOLEAN]
  /\ sock.got + sock.rx = sock.came
  /\ sock.pump = "done" => sock.rx = 0 /\ sock.dead

\* What death, closing and tearing down do to the socket's record.
LEMMA FailKeeps ==
  ASSUME SInv,
         \/ sock' = S!fail(sock)
         \/ sock' = [S!fail(sock) EXCEPT !.torn = TRUE]
  PROVE  SInv' /\ sock'.dead /\ sock'.came = sock.came /\ sock'.pump = sock.pump
  BY Zenon DEF SInv, S!fail

\* What every step of the socket shows: its invariant again, a wire and a count
\* of arrivals that only a living socket extends.
SStep ==
  /\ SInv'
  /\ sock.dead => wire' = wire /\ sock'.came = sock.came

LEMMA SockInitInv ==
  ASSUME Pings \in BOOLEAN
  PROVE  S!SockInit => SInv
  BY SMTT(30) DEF S!SockInit, SInv

LEMMA WriteKeeps ==
  ASSUME SInv, ~sock.dead, NEW t, NEW i, S!Write(t, i)
  PROVE  SStep
<1>1. CASE UNCHANGED sock
  BY <1>1 DEF SInv, SStep
<1>2. CASE S!Fail
  BY Zenon, <1>2, FailKeeps DEF S!Fail, SStep
<1> QED
  BY <1>1, <1>2 DEF S!Write

LEMMA SendKeeps ==
  ASSUME SInv, S!send
  PROVE  SStep
<1>1. ASSUME NEW st, S!Issue(st)
      PROVE  SStep
  BY <1>1 DEF S!Issue, SInv, SStep
<1>2. CASE sock.dead
  BY Zenon, <1>1, <1>2 DEF S!send
<1>3. CASE ~sock.dead
  BY Zenon, <1>1, <1>3, WriteKeeps DEF S!send
<1> QED
  BY Zenon, <1>2, <1>3

LEMMA PumpKeeps ==
  ASSUME SInv, S!PumpTurn
  PROVE  SStep
<1>0. sock.rx \in Nat /\ sock.got \in Nat /\ sock.came \in Nat
  BY DEF SInv
<1>1. CASE S!pump
  <2>1. CASE sock.rx > 0 /\ sock' = [sock EXCEPT !.rx = @ - 1, !.got = @ + 1, !.pump = "busy"]
    <3>1. sock.rx - 1 \in Nat /\ sock.got + 1 \in Nat
      BY <1>0, <2>1
    <3>2. (sock.got + 1) + (sock.rx - 1) = sock.came
      BY <1>0 DEF SInv
    <3> QED
      BY Zenon, <1>1, <2>1, <3>1, <3>2 DEF S!pump, SInv, SStep
  <2>2. CASE sock.rx = 0 /\ sock.dead /\ sock' = [sock EXCEPT !.pump = "done"]
    BY Zenon, <1>1, <2>2 DEF S!pump, SInv, SStep
  <2> QED
    BY <1>1, <2>1, <2>2 DEF S!pump
<1>2. CASE S!unpack
  BY <1>2 DEF S!unpack, SInv, SStep
<1>3. CASE S!attachConn \/ S!servePeer
  <2>1. sock' = [S!fail(sock) EXCEPT !.torn = TRUE] /\ wire' = wire
    BY <1>3 DEF S!attachConn, S!servePeer
  <2> QED
    BY Zenon, <2>1, FailKeeps DEF SStep
<1> QED
  BY Zenon, <1>1, <1>2, <1>3 DEF S!PumpTurn

LEMMA TaskKeeps ==
  ASSUME SInv, NEW i, S!poll(i) \/ S!Bounded(i) \/ S!signalAborted(i)
  PROVE  SStep
<1>1. CASE S!poll(i)
  BY Zenon, <1>1, WriteKeeps DEF S!poll
<1>2. CASE S!stall(i)
  BY Zenon, <1>2, FailKeeps DEF S!stall, S!Fail, SStep
<1>3. CASE S!closedErr(i) \/ S!signalAborted(i)
  BY <1>3 DEF S!closedErr, S!signalAborted, SInv, SStep
<1> QED
  BY Zenon, <1>1, <1>2, <1>3 DEF S!Bounded

LEMMA SockNextInv ==
  ASSUME Pings \in BOOLEAN, SInv, S!SockNext
  PROVE  SStep
<1>1. CASE S!onOpen
  <2>1. CASE sock.dead
    BY <1>1, <2>1 DEF S!onOpen, SInv, SStep
  <2>2. CASE ~sock.dead
    <3>1. sock' = [sock EXCEPT !.opened = TRUE, !.kaTimer = Pings]
      BY Zenon, <1>1, <2>2 DEF S!onOpen
    <3> QED
      BY Zenon, <2>2, <3>1 DEF SInv, SStep
  <2> QED
    BY <2>1, <2>2
<1>2. CASE S!onClose \/ S!onError \/ S!keepalive \/ S!close
  BY Zenon, <1>2, FailKeeps DEF S!onClose, S!onError, S!keepalive, S!close, S!Fail, SStep
<1>3. CASE S!connClose
  BY <1>3, FailKeeps DEF S!connClose, SStep
<1>4. CASE S!PeerCloses \/ S!Drain
  BY <1>4 DEF S!PeerCloses, S!Drain, SInv, SStep
<1>5. CASE S!onMessage
  <2>1. sock' = [sock EXCEPT !.rx = @ + 1, !.came = @ + 1] /\ ~sock.dead
    BY Zenon, <1>5 DEF S!onMessage
  <2>2. /\ sock.rx + 1 \in Nat /\ sock.came + 1 \in Nat
        /\ sock.got + (sock.rx + 1) = sock.came + 1
    BY DEF SInv
  <2> QED
    BY Zenon, <2>1, <2>2 DEF SInv, SStep
<1>6. CASE S!send
  BY Zenon, <1>6, SendKeeps
<1>7. CASE S!PumpTurn
  BY Zenon, <1>7, PumpKeeps
<1>8. CASE \E i \in DOMAIN tx : S!poll(i) \/ S!Bounded(i) \/ S!signalAborted(i)
  BY <1>8, TaskKeeps
<1> QED
  BY Zenon, <1>1, <1>2, <1>3, <1>4, <1>5, <1>6, <1>7, <1>8 DEF S!SockNext

\* The death of a socket, for any mark and any number of sends: once the latch
\* has tripped nothing goes to the wire and nothing is buffered, and the pump
\* returns only when every message that was received has been delivered.
THEOREM SocketDeathFlushes ==
  ASSUME Pings \in BOOLEAN
  PROVE  S!SockSpec => DeathFlushes
<1>1. SInv /\ [S!SockNext]_(S!sockVars) => SInv'
  BY SockNextInv DEF S!sockVars, SInv, SStep
<1>2. SInv /\ [S!SockNext]_(S!sockVars)
        => [/\ sock.dead => wire' = wire /\ sock'.came = sock.came
            /\ sock'.pump = "done" => sock'.got = sock'.came]_<<sock, wire>>
  <2> SUFFICES ASSUME SInv, S!SockNext
               PROVE  /\ sock.dead => wire' = wire /\ sock'.came = sock.came
                      /\ sock'.pump = "done" => sock'.got = sock'.came
    BY DEF S!sockVars
  <2>1. SStep
    BY SockNextInv
  <2> QED
    BY <2>1 DEF SStep, SInv
<1> QED
  BY SockInitInv, <1>1, <1>2, PTL DEF S!SockSpec, DeathFlushes
=============================================================================
