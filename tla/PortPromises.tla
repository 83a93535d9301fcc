---------------------------- MODULE PortPromises ----------------------------
(***************************************************************************)
(* What the message-port adapter promises about the end of a channel, in   *)
(* terms of the state the promises are about; module Port is the adapter.  *)
(***************************************************************************)
EXTENDS Naturals, Sequences

CONSTANT Chan       \* the channels, one peer each

VARIABLES ends,     \* the Port objects: ends[c][e]
          posted    \* history: frames accepted by send, by the end that sent

End == {"page", "server"}
Other(e) == IF e = "page" THEN "server" ELSE "page"

\* A frame whose send was accepted before the goodbye reaches the peer's core
\* before that peer tears down: an end that was torn down by a goodbye it read
\* has handled every frame the other end ever sent (close posts the goodbye
\* last, onMessage keeps the order), and no pump returns over a received frame.
\* Only the 0-byte message is a goodbye: foreign traffic is never read as one.
FlushedBeforeTeardown ==
  \A c \in Chan, e \in End :
    /\ ends[c][e].heard => ends[c][Other(e)].said /\ ends[c][e].got = posted[c][Other(e)]
    /\ ends[c][e].pump = "done" => ends[c][e].rx = <<>>

\* disconnectPeer is the last the server hears of a peer: after it no call of
\* that peer is live and none becomes live, whatever the death flush delivered
\* (servePeer awaits the pump before the teardown).
TeardownIsLast ==
  \A c \in Chan, e \in End : ends[c][e].torn => ends[c][e].live = 0
=============================================================================
