------------------------------ MODULE MCParts ------------------------------
(***************************************************************************)
(* Five components that share no state, one per behaviour: `which` says    *)
(* which of them moves while the others keep their initial state.          *)
(*   peers     the containers of several peers and the dead-peer cap       *)
(*   replies   the rate-limited replies and the sweeper                    *)
(*   sequence  the numbers of one direction of a call                      *)
(*   download  the connection window of evicted containers                 *)
(*   port      the two ends of a message port, with several calls         *)
(***************************************************************************)
EXTENDS MCServer, RepliesPromises, SequencePromises, PortPromises

CONSTANTS p1, p2, k1, k2, n1, n2, n3, c1

VARIABLES
  which,
  calls, clock, status, kept, replayAt, sweeping,
  refused, tx, finals, net, rx,
  epochs, evicted, handler, down, up, call, pinned, connRx, lostStash, overrun,
  portQueue, reg

\* One peer with two calls, or two peers with one each.
R == INSTANCE Replies WITH
       CallSets <- {{<<p1, k1>>, <<p1, k2>>}, {<<p1, k1>>, <<p2, k1>>}},
       TombTTL <- 2, Hold <- 1, MaxNow <- 3, MaxCuts <- 1

\* The number space wraps, and a frame may lie beyond the forward window.
Q == INSTANCE Sequence WITH KLoud <- 2, QueueCap <- 1, MaxSent <- 10

\* One Conn with traffic, two that come and go and push it out of the cache.
D == INSTANCE Download WITH
       Conns <- {n1, n2, n3}, Visitors <- {n2, n3}, Window <- 1, MaxDead <- 1,
       MaxMsgs <- 2, MaxSid <- 2, dropped <- lostStash

P == INSTANCE Port WITH MaxCalls <- 2, MaxJunk <- 1, queue <- portQueue

serverVars == vars
repVars == <<calls, clock, slots, status, kept, replayAt, pending, resetAt, budget, totals,
             armed, sweeping, stopped, log, cuts>>
seqVars == <<mode, v, refused, tx, finals, tardy, net, rx, top, queue, read, counted, failed>>
dnVars == <<epochs, evicted, handler, down, up, call, pinned, connRx, lostStash, overrun>>
portVars == <<ends, portQueue, reg, posted>>
allVars == <<which, serverVars, repVars, seqVars, dnVars, portVars>>

PartsInit ==
  /\ which \in {"peers", "replies", "sequence", "download", "port"}
  /\ Init /\ R!RepInit /\ Q!SeqInit /\ D!DnInit /\ P!PortInit
  /\ which # "replies" => calls = {<<p1, k1>>, <<p2, k1>>}
  /\ which # "sequence" => mode = "strict"

\* Incarnations are told apart only by equality: those that appear are taken to
\* appear in order.
Appeared(e) == \E s \in Sid : born[<<e, s>>] # Never
InOrderOfAppearance == \A e \in Epoch \ {1} : Appeared(e) => Appeared(e - 1)

\* The two Conns that come and go do so one after the other.
VisitorsInOrder == call[n3][1] # "none" => call[n2][1] = "over"

\* Two peers are followed for a tick less than two calls of one peer.
TwoPeersEarlier == calls = {<<p1, k1>>, <<p2, k1>>} => clock <= 2

PartsNext ==
  /\ UNCHANGED which
  /\ \/ /\ which = "peers" /\ (Serve \/ disconnectPeer \/ finishOrphan) /\ InOrderOfAppearance'
        /\ UNCHANGED <<repVars, seqVars, dnVars, portVars>>
     \/ /\ which = "replies" /\ R!RepNext /\ TwoPeersEarlier'
        /\ UNCHANGED <<serverVars, seqVars, dnVars, portVars>>
     \/ which = "sequence" /\ Q!SeqNext /\ UNCHANGED <<serverVars, repVars, dnVars, portVars>>
     \/ /\ which = "download" /\ D!DnNext /\ VisitorsInOrder'
        /\ UNCHANGED <<serverVars, repVars, seqVars, portVars>>
     \/ which = "port" /\ P!PortNext /\ UNCHANGED <<serverVars, repVars, seqVars, dnVars>>

PartsSpec == PartsInit /\ [][PartsNext]_allVars

-----------------------------------------------------------------------------
(***************************************************************************)
(* The components' properties, which their modules state and explain. What *)
(* the Promises modules state is checked under its own name: a component   *)
(* that does not move keeps an initial state, and its promises.            *)
(***************************************************************************)

\* The state of the part that moves is well-formed: a reply budget never counts
\* more than maxRepliesPerRTI and only peers with a slot have a container; queue
\* and stash keep their caps; no port counts more live calls than were opened
\* (allowReply, ensurePeer, putDrop, stash, close).
PartsTypeOK ==
  CASE which = "replies" -> R!RepTypeOK
    [] which = "sequence" -> Q!SeqTypeOK
    [] which = "download" -> D!DnTypeOK
    [] which = "port" -> P!PortTypeOK
    [] which = "peers" -> TypeOK

\* Eviction neither loses nor invents credit: a Conn whose stashed position was
\* never dropped has its window exactly accounted for, and never refuses a frame
\* (stash, creditEvicted, admit).
CreditExact == which = "download" => D!CreditExact

\* No position is dropped unless more than 2 * maxDeadPeers incarnations share
\* the peer (ensurePeer, stash).
StashSuffices == which = "download" => D!StashSuffices
=============================================================================
