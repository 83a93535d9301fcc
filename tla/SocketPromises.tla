--------------------------- MODULE SocketPromises ---------------------------
(***************************************************************************)
(* What the WebSocket adapter promises about the death of a socket, in     *)
(* terms of the state the promise is about; module Socket is the adapter.  *)
(***************************************************************************)

VARIABLES sock,     \* the adapter's Socket and its pump
          wire      \* the messages handed to the platform, in order

\* The death of a socket: nothing is put on the wire and nothing is buffered once
\* the latch has tripped, although sends were parked when it did (send re-checks
\* after every await, onMessage before it buffers), and the pump returns only
\* after it has delivered everything that was received before.
DeathFlushes ==
  [][/\ sock.dead => wire' = wire /\ sock'.came = sock.came
     /\ sock'.pump = "done" => sock'.got = sock'.came]_<<sock, wire>>
=============================================================================
