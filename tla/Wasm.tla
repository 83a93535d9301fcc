-------------------------------- MODULE Wasm --------------------------------
(***************************************************************************)
(* A Go server compiled to wasm: the sock a page gets from open(), the     *)
(* worker the package ships, and the instance that runs in it (or, with    *)
(* worker: false, in the page's own realm).  The page and the worker talk  *)
(* over the worker's channel (start, serve / ready, error, exited); each   *)
(* connection is a MessagePort handed to the instance under the name of an *)
(* entry point it publishes: the one it was started on, or a second one    *)
(* that may appear later.  No timer of the protocol runs on such a         *)
(* channel, so a port nobody will ever serve has to be ended out loud.     *)
(*                                                                         *)
(* Steps that follow one another in promise reactions are actions of their *)
(* own where something else may run between them.                          *)
(***************************************************************************)
EXTENDS WasmPromises, Naturals, Sequences, FiniteSets

CONSTANT Page       \* the open() calls that share one realm or worker

VARIABLES mode,     \* "own": a worker open() made; "given"; "here"
          conn,     \* the connections at the page: conn[c]
          up, down, \* the worker's channel, to the worker and to each page
          glob,     \* what globalThis holds under the second name
          gone,     \* bury() ran in the worker
          answered  \* the worker has told the page how the start went

wasmVars == <<mode, page, conn, port, up, down, inst, glob, gone, answered, owner>>

Names == {"main", "second"}
StartMsg(p) == [drpc |-> "start", of |-> p]
ServeMsg(c) == [drpc |-> "serve", of |-> c]
Held == {"held", "waiting", "granted", "served"}

WasmTypeOK ==
  /\ mode \in {"own", "given", "here"}
  /\ page \in [Page -> [st: {"none", "opening", "ready", "rejected"}, dead: BOOLEAN,
                        crashed: BOOLEAN, closed: BOOLEAN]]
  /\ conn \in [Conn -> [st: {"none", "open", "ended"}, of: Page \cup {NoPage}, name: Names]]
  /\ port \in [Conn -> Held \cup {"page", "bye", "gone"}]
  /\ inst \in {"none", "loading", "running", "up", "dead", "failed", "terminated"}
  /\ glob \in {"none", "fn", "bad"}
  /\ down \in [Page -> Seq({"ready", "error", "exited"})]
  /\ gone \in BOOLEAN /\ answered \in BOOLEAN /\ owner \in Page \cup {NoPage}
  \* a sock that is dead holds no connection
  /\ \A c \in Conn : conn[c].st = "open" => ~page[conn[c].of].dead

\* Only a worker the application brought is shared by several open() calls.
WasmInit ==
  /\ mode \in {"own", "given", "here"}
  /\ page = [p \in Page |-> [st |-> "none", dead |-> FALSE, crashed |-> FALSE, closed |-> FALSE]]
  /\ conn = [c \in Conn |-> [st |-> "none", of |-> NoPage, name |-> "main"]]
  /\ port = [c \in Conn |-> "page"]
  /\ up = <<>> /\ down = [p \in Page |-> <<>>]
  /\ inst = "none" /\ glob = "none" /\ gone = FALSE /\ answered = FALSE /\ owner = NoPage

---------------------------------------------------------------------------
(* Both realms: ending connections *)

\* The goodbye on a set of ports (farewell); in the page's own realm there is
\* no far side to say it, and channelTo closes the transport itself.
Farewell(S) == [c \in Conn |-> IF c \in S THEN IF mode = "here" THEN "gone" ELSE "bye"
                               ELSE port[c]]
Ended(S) == [c \in Conn |-> IF c \in S THEN [conn[c] EXCEPT !.st = "ended"] ELSE conn[c]]
Abandoned(S) == IF mode = "here" THEN Ended(S) ELSE conn

Tell(m) == [p \in Page |-> IF page[p].st = "none" THEN down[p] ELSE Append(down[p], m)]

\* A mutant: the sock is marked dead and its connections are left alone.
BuriedNone(p) == conn

\* Sock.bury, in the page: once, every connection of this sock.
Buried(p) == Ended({c \in Conn : conn[c].of = p /\ conn[c].st = "open"})

\* stop(): only a worker open() made is terminated.
Terminated == mode = "own"
Stop ==
  IF Terminated
    THEN /\ inst' = "terminated" /\ up' = <<>>
         /\ port' = [c \in Conn |-> IF port[c] = "page" THEN "page" ELSE "gone"]
    ELSE UNCHANGED <<inst, up, port>>

---------------------------------------------------------------------------
(* The page *)

\* open: the listeners are on the worker before the start is posted.
open(p) ==
  /\ page[p].st = "none"
  /\ mode # "given" => \A q \in Page : page[q].st = "none"
  /\ page' = [page EXCEPT ![p].st = "opening"]
  /\ IF mode = "here"
       THEN inst' = "loading" /\ owner' = p /\ UNCHANGED up
       ELSE up' = Append(up, StartMsg(p)) /\ UNCHANGED <<inst, owner>>
  /\ UNCHANGED <<mode, conn, port, down, glob, gone, answered>>

\* die / close on the way up: open() rejects and closes its sock.
Rejects(p, crash) ==
  /\ page' = [page EXCEPT ![p] = [st |-> "rejected", dead |-> TRUE, crashed |-> crash,
                                  closed |-> TRUE]]
  /\ conn' = Buried(p)
  /\ Stop

Die(p) ==
  /\ page' = [page EXCEPT ![p].dead = TRUE]
  /\ conn' = Buried(p)
  /\ UNCHANGED <<inst, up, port>>

\* The worker's `error` event: the start's failure, until the instance serves.
workerError(p) ==
  /\ mode # "here" /\ page[p].st = "opening"
  /\ Rejects(p, TRUE)
  /\ UNCHANGED <<mode, down, glob, gone, answered, owner>>

\* A sock that died or closed has taken its listeners off.
onMessage(p) ==
  /\ down[p] # <<>>
  /\ down' = [down EXCEPT ![p] = Tail(@)]
  /\ LET m == Head(down[p])
         deaf == page[p].dead
     IN  CASE ~deaf /\ m = "ready" /\ page[p].st = "opening" ->
                 /\ page' = [page EXCEPT ![p].st = "ready"]
                 /\ UNCHANGED <<conn, inst, up, port>>
           [] ~deaf /\ m # "ready" /\ page[p].st = "opening" -> Rejects(p, FALSE)
           [] ~deaf /\ m = "exited" /\ page[p].st = "ready" -> Die(p)
           [] OTHER -> UNCHANGED <<page, conn, inst, up, port>>
  /\ UNCHANGED <<mode, glob, gone, answered, owner>>

\* dial: refused by a dead sock; in the page's own realm also by a dead
\* instance, whose serve throws before the connection exists.
dial(p, c, n) ==
  /\ page[p].st = "ready" /\ ~page[p].dead /\ conn[c].st = "none"
  /\ mode = "here" => inst = "up"
  /\ conn' = [conn EXCEPT ![c] = [st |-> "open", of |-> p, name |-> n]]
  /\ IF mode = "here"
       THEN port' = [port EXCEPT ![c] = "held"] /\ UNCHANGED up
       ELSE up' = Append(up, ServeMsg(c)) /\ UNCHANGED port
  /\ UNCHANGED <<mode, page, down, inst, glob, gone, answered, owner>>

\* Sock.close: the local teardown first, then whatever ends the instance.
close(p) ==
  /\ page[p].st = "ready" /\ ~page[p].closed
  /\ page' = [page EXCEPT ![p].dead = TRUE, ![p].closed = TRUE]
  /\ conn' = IF page[p].dead THEN conn ELSE Buried(p)
  /\ Stop
  /\ UNCHANGED <<mode, down, glob, gone, answered, owner>>

\* HereSock: the exit of the instance is wired to bury.
hereBury(p) ==
  /\ mode = "here" /\ inst = "dead" /\ page[p].st = "ready" /\ ~page[p].dead
  /\ Die(p)
  /\ UNCHANGED <<mode, down, glob, gone, answered, owner>>

\* The goodbye reaches the connection's transport.
onGoodbye(c) ==
  /\ port[c] = "bye"
  /\ port' = [port EXCEPT ![c] = "gone"]
  /\ conn' = Ended({c} \cap {d \in Conn : conn[d].st = "open"})
  /\ UNCHANGED <<mode, page, up, down, inst, glob, gone, answered, owner>>

---------------------------------------------------------------------------
(* The worker *)

\* A mutant: every second start is answered at once.
onStartAnswers(p) ==
  /\ up # <<>> /\ Head(up) = StartMsg(p)
  /\ up' = Tail(up)
  /\ IF inst = "none"
       THEN inst' = "loading" /\ owner' = p /\ UNCHANGED down
       ELSE down' = Tell("error") /\ UNCHANGED <<inst, owner>>
  /\ UNCHANGED <<mode, page, conn, port, glob, gone, answered>>

\* One worker is one instance: a second start is answered only once no page can
\* be waiting for the first one's outcome.
onStart(p) ==
  /\ up # <<>> /\ Head(up) = StartMsg(p)
  /\ up' = Tail(up)
  /\ IF inst = "none"
       THEN inst' = "loading" /\ owner' = p /\ UNCHANGED down
       ELSE /\ down' = IF answered THEN Tell("error") ELSE down
            /\ UNCHANGED <<inst, owner>>
  /\ UNCHANGED <<mode, page, conn, port, glob, gone, answered>>

onServe(c) ==
  /\ up # <<>> /\ Head(up) = ServeMsg(c)
  /\ up' = Tail(up)
  /\ port' = IF gone \/ inst = "none" THEN Farewell({c}) ELSE [port EXCEPT ![c] = "held"]
  /\ UNCHANGED <<mode, page, conn, down, inst, glob, gone, answered, owner>>

HeldPorts == {c \in Conn : port[c] \in Held}

\* The worker's reaction to the end of a running instance: the goodbye on every
\* port it holds, then `exited`.
bury ==
  /\ mode # "here" /\ inst = "dead" /\ ~gone
  /\ gone' = TRUE
  /\ port' = Farewell(HeldPorts)
  /\ down' = Tell("exited")
  /\ UNCHANGED <<mode, page, conn, up, inst, glob, answered, owner>>

---------------------------------------------------------------------------
(* The instance *)

\* A start that will never succeed: nothing to exit, but the ports already
\* transferred are told.
StartFails ==
  /\ inst' = "failed"
  /\ IF mode = "here"
       THEN /\ page' = [page EXCEPT ![owner].st = "rejected"]
            /\ UNCHANGED <<port, down, gone, answered>>
       ELSE /\ gone' = TRUE /\ answered' = TRUE
            /\ port' = Farewell(HeldPorts)
            /\ down' = Tell("error")
            /\ UNCHANGED page
  /\ UNCHANGED <<mode, conn, up, glob, owner>>

\* startInstance up to go.run: newGo, instantiate, a name another start has claimed.
instantiate ==
  /\ inst = "loading"
  /\ \/ StartFails
     \/ /\ inst' = "running"
        /\ UNCHANGED <<mode, page, conn, port, up, down, glob, gone, answered, owner>>

Ready ==
  IF mode = "here"
    THEN page' = [page EXCEPT ![owner].st = "ready"] /\ UNCHANGED <<down, answered>>
    ELSE down' = Tell("ready") /\ answered' = TRUE /\ UNCHANGED page

\* Readiness raced against the exit, the clock and a value that is no function.
awaitPublish ==
  /\ inst = "running"
  /\ \/ StartFails
     \/ /\ inst' = "up" /\ Ready
        /\ UNCHANGED <<mode, conn, port, up, glob, gone, owner>>

\* go.run settles: the corpse is made inert and `exited` resolves.
died ==
  /\ inst = "up"
  /\ inst' = "dead"
  /\ UNCHANGED <<mode, page, conn, port, up, down, glob, gone, answered, owner>>

\* abandon: ports the instance will never serve, and nothing else, are ended.
Abandon(S) ==
  /\ port' = Farewell(S) /\ conn' = Abandoned(S)
  /\ UNCHANGED <<mode, page, up, down, inst, glob, gone, answered, owner>>

Moves(c, st) ==
  /\ port' = [port EXCEPT ![c] = st]
  /\ UNCHANGED <<mode, page, conn, up, down, inst, glob, gone, answered, owner>>

Waiters == {c \in Conn : port[c] = "waiting"}

\* Instance.serve and entryPointNamed: a corpse throws, the name it was started
\* on is served at once, another is read off globalThis or waited for, unless
\* another instance of the realm is starting on it.
serve(c) ==
  /\ port[c] = "held" /\ inst \in {"up", "dead"}
  /\ IF inst = "dead" THEN Abandon({c})
     ELSE IF conn[c].name = "main" THEN Moves(c, "served")
     ELSE CASE glob = "fn"   -> Moves(c, "granted")
            [] glob = "bad"  -> Abandon({c})
            [] glob = "none" -> Moves(c, "waiting") \/ (Waiters = {} /\ Abandon({c}))

\* The second gateway publishes; what it published stays on globalThis, and the
\* shared wait of every dial to the name is over.
publish(v) ==
  /\ inst = "up" /\ glob = "none"
  /\ glob' = v
  /\ port' = IF v = "fn" THEN [c \in Conn |-> IF c \in Waiters THEN "granted" ELSE port[c]]
             ELSE Farewell(Waiters)
  /\ conn' = IF v = "fn" THEN conn ELSE Abandoned(Waiters)
  /\ UNCHANGED <<mode, page, up, down, inst, gone, answered, owner>>

\* A mutant: the wait for a name has no clock.
watchEntryPointForever ==
  /\ Waiters # {} /\ inst = "dead"
  /\ Abandon(Waiters)

\* The wait ends without a publish: its clock, or the exit of the instance.
watchEntryPoint ==
  /\ Waiters # {} /\ inst \in {"up", "dead"}
  /\ Abandon(Waiters)

\* A mutant: the name is there, so the port is handed over.
handBlind(c) == port[c] = "granted" /\ Moves(c, "served")

\* The other side of the wait: the instance may have died while it ran.
hand(c) ==
  /\ port[c] = "granted" /\ inst \in {"up", "dead"}
  /\ IF inst = "dead" THEN Abandon({c}) ELSE Moves(c, "served")

---------------------------------------------------------------------------
\* What the two event loops, the start's race and the name's clock go on doing.
Turn ==
  \/ \E p \in Page : onMessage(p) \/ hereBury(p) \/ onStart(p)
  \/ \E c \in Conn : onGoodbye(c) \/ onServe(c) \/ serve(c) \/ hand(c)
  \/ bury \/ instantiate \/ awaitPublish \/ watchEntryPoint

WasmNext ==
  \/ Turn \/ died
  \/ \E v \in {"fn", "bad"} : publish(v)
  \/ \E p \in Page : open(p) \/ workerError(p) \/ close(p)
  \/ \E p \in Page, c \in Conn, n \in Names : dial(p, c, n)

WasmSpec == WasmInit /\ [][WasmNext]_wasmVars

---------------------------------------------------------------------------
(* Properties *)

\* Every open() settles, also one that joined somebody else's start: readiness
\* is raced against exit and clock, and a start is never left unanswered.
OpenSettles == \A p \in Page : page[p].st = "opening" ~> page[p].st # "opening"

\* No connection hangs: one that is open ends, or is served by an instance that
\* is alive, whatever died or never appeared between the dial and the serve.
NoHungDial ==
  \A c \in Conn :
    conn[c].st = "open" ~> conn[c].st = "ended" \/ (port[c] = "served" /\ inst = "up")
=============================================================================
