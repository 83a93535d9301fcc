---------------------------- MODULE WasmPromises ----------------------------
(***************************************************************************)
(* What the host of a Go instance promises its pages, in terms of the state*)
(* the promises are about; module Wasm is the host.                        *)
(***************************************************************************)

CONSTANT Conn       \* the connections dialled

VARIABLES page,     \* the socks: page[p]
          port,     \* the far end of each connection's channel
          inst,     \* the instance
          owner     \* history: the page whose start is honoured

NoPage == "nobody"

\* A port is handed to a living instance only: the instance is looked at again
\* on the far side of every wait (serve, entryPointNamed), since a dead runtime
\* would be re-entered and nobody would ever serve the port.
CorpseServesNobody ==
  [][\A c \in Conn : port[c] # "served" /\ port'[c] = "served" => inst = "up"]_<<port, inst>>

\* An answer to a duplicate start never rejects the open() whose start is the
\* one that runs: that open rejects only if its own start failed or its worker
\* broke (serveIn's `answered`).
OwnerNotRejected ==
  owner # NoPage /\ page[owner].st = "rejected" =>
    page[owner].crashed \/ inst \in {"failed", "terminated"}
=============================================================================
