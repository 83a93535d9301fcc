# A TLA+ model of grpc-dgram

grpc-dgram runs gRPC calls over datagram and message channels. The core is
written twice, in Go (the repository root) and in TypeScript (`ts/src`), with
adapters for UDP, WebSocket, WebRTC, WebTransport and JS message ports. This
directory models the TypeScript implementation. TLC checks the models on small
instances, and TLAPS proves the most important properties for all instances.

File names below are relative to `ts/src`.

## The system

| Part | State | What makes it hard |
|---|---|---|
| Server calls (`server.ts`) | live calls; one container per client incarnation with tombstones, floor, watermark checkpoints and liveness clock | duplicated and late OPENs, caps that evict memory, lost peers that return, shutdown |
| Replies and sweeper (`server.ts`, `util.ts`) | delayed RESETs, replay clocks, a reply budget per peer, server-wide totals, one timer | an answer denied now has to be asked for again; a timer that goes idle has to be started again |
| Calls end to end (`conn.ts`, `server.ts`) | client streams, their tombstones and abort obligations, the lock to a server epoch, retransmission timers | lost terminals, aborts that overtake their OPEN, restarts of both ends |
| Sequence numbers (`seq.ts`, `util.ts`) | next number, received bitmap, receive queue | wrap-around, reordering, a number taken back after an `await` |
| Flow control (`util.ts`, `conn.ts`, `server.ts`) | stream and connection senders; per-peer ledger of buffered frames and held-back credit; stash of evicted senders | two windows taken together, frames that outlive their call, a server restart under a surviving channel |
| Message port, WebSocket (`transport/port`, `transport/websocket`, `seam.ts`) | latches, pump, parked sends, keepalive | reliable channels run no protocol timer, so teardown is all that ends their calls |
| WebAssembly host (`wasm`) | socks, worker, instance, entry points, served ports | readiness races exit and clock; several pages share a worker |

JavaScript runs one task at a time, so steps interleave only at an `await`. In
every module an action is what runs between two awaits, and state that is read
before an `await` and used after it is held in a variable.

Frames flow from client to server (OPEN, data, CLOSE, abort, RESET, PING,
WINDOW) and back (H, data, T, RESET, PING, WINDOW). On an unreliable channel
(datagrams) the protocol retransmits, probes and keeps tombstones. On a reliable
one (sockets, ports) it does none of this, but it has flow control.

## Modules

| Module | Models | Used by |
|---|---|---|
| `PeerState` | `PeerState` of `server.ts` as a record: tombstones, caps, watermark, expiry | `Server` |
| `Server` | the call lifecycle at the server on an unreliable channel | `MCServer`, `MCParts`, `MCTeardown` |
| `Replies` | what the server answers without starting a call, the limits on it, `Sweeper` | `MCParts` |
| `Exchange` | the abstract specification of a call: asked once, taken at most once in each memory of the server, one verdict, reported truly | `Call` |
| `Call` | client, server and lossy channel, end to end | `MCCall` |
| `Sequence` | `TxSeq`, `RxWindow`, `FrameQueue` | `MCParts` |
| `Flow` | `FlowSender`, `FlowReceiver`, `PeerFlowRx` as operators | `Upload`, `Download` |
| `Upload` | client-streaming calls of one `Conn` on a reliable channel | `MCUpload`, `MCTeardown` |
| `Download` | the server's senders, in containers and in the stash | `MCParts` |
| `Port` | `Port`, `PortTransport`, `PortGateway` at both ends | `MCParts`, `MCTeardown` |
| `Socket` | `Socket`, `WebSocketTransport`, `WebSocketGateway` | `MCSocket`, `MCTeardown` |
| `Wasm` | `open`, both kinds of sock, `serveIn`, the instance | `MCTeardown` |
| `RepliesPromises`, `SequencePromises`, `PortPromises`, `SocketPromises`, `WasmPromises` | what those components promise: the properties, with the variables and constants they speak of | the component, its MC module, its proofs |
| `PeerStateProofs`, `ServerProofs`, `ServerLimitProofs` | proofs about `Server` | |
| `CallProofs`, `RepliesProofs`, `SequenceProofs`, `PortProofs` | proofs about `Call`, `Replies`, `Sequence`, `Port` | |
| `AdapterProofs` | proofs about `Socket` and `Wasm` | |

`MCParts` and `MCTeardown` hold several components that share no state. Their
variable `which` is chosen in the initial state; the component it names moves, and
the others stay as they are. So a behaviour is a behaviour of one component, and
one run asks one kind of question (safety there, eventuality here) of all of them.
Both extend the Promises modules and instantiate the components over their variables,
so the runs and the theorems state the same definitions.

### Server and PeerState

Any frame of a call that the client has allocated may arrive at any time, any
number of times, or never. So frames are not stored: a delivery is an action that
is enabled as long as the call exists. This covers loss, duplication, reordering
and unbounded delay. `handle`, `open` and `rejectOpen` run without an `await`
between reading and changing the state, so they are one step; so is the end of a
call from the check of `suppressTerm` to `finish`. `sweep` is a whole tick.

`ps` is `slot.epochs`; `live`, `orphans`, `suppress` and `cancelled` are the state
of the server streams; `drain`, `closed`, `stopping` and `returned` are shutdown;
`born` is the client's sid allocation. The other variables are histories that only
properties read. The insertion order of tombstones is a stamp per sid instead of a
list, because proofs reach that.

### Replies

Calls become live, tombstoned and forgotten as `Server` would have them; peers send
frames about them. Every path that answers asks `allowReply`. The sweep runs without an
`await` (its sends are not awaited), and so does every turn of `handle` and
`disconnectPeer`. The model visits the slots of a sweep one by one, which keeps a step
small; nothing but the sweep moves until the last slot is done. Its timer is armed by `kick`
and let go when `hasWork` is false. `log[p][a]` is the number of replies to `p` in this tick
and the `a` before it, `cuts[p][a]` the number of times `disconnectPeer` took its slot.

### Exchange and Call

`Call` has one call per client incarnation, unary or streaming, with its creation,
acknowledgement, half-close, terminal and abort. A timer fires whenever it is armed,
which includes every order that real durations allow. A restarted client gives out the
same sid again. Frames in flight are a set of at most `MaxNet`; delivering one may leave
it there (a duplicate), sending one may lose it. `asked`, `fate` and `outcome` are what
`Exchange` is about, and `Implements` says that `Call` only changes them as `Exchange` may.

What the server remembers of a call is in the container of the client's incarnation. The
aged watermark of a container covers the call for good, but the container itself goes
(`Collected`): the sweep collects it when it has been idle for two tombstone lifetimes, and
`ensurePeer` evicts the oldest idle one when a peer comes back with too many incarnations.
A late OPEN then finds a new container and is executed again. So `Exchange` counts executions
per memory, a pair of a server incarnation and a life of the container in it; `life[c]` is
the current one. Frames do not carry it: a terminal agrees if its incarnation reached that
verdict in some life.

### Sequence

Numbers are absolute in the model and reduced modulo the number space on the wire;
`check` sees the reduced one. The strict mode is the one of reliable channels, whose
channel keeps order; the two loose ones are the drop policies. A half-close, an abort or a
terminal takes a number of its own, and an abort may follow a half-close. They do not wait
for a send that is being refused, so their number may be given out before the refused one is
taken back; `tardy` records that. Only a frame that is too large is refused and undone; an
adapter that fails a send otherwise is dead, and its channel with it.

### Flow, Upload and Download

The channel is ordered and loses nothing. In `Upload` a send takes both credits or parks
(`acquireBoth`), awaits its encoder, and awaits the adapter, which may refuse the frame;
the call may end at each of these points. `Server.handle` takes a frame from the channel
to the buffer in one step, handlers read or stop reading, `finish` gives pinned credit
back, `SrvStrayData` is a frame whose call is gone. A server may drain, and a new
incarnation may replace it; the client finds out from the first frame of the new epoch
(`Relocked`). In `Download` several `Conn`s share a transport peer, so containers without
calls are evicted, stashed, unstashed and, if the stash is full, dropped. A handler whose
call was reset by the client sends no terminal; one that was aborted does. As in `Sequence`,
the refusal that refunds credit is the one of a frame that is too large.

### Port, Socket and Wasm

`Port` has the queue of each direction as the platform keeps it, and both `Port` objects
with latch, buffer and pump. `Socket` has every send as a task: waiting for the socket to
open, parked at the mark, sent or refused. `Wasm` has the messages between pages and
worker, the start with its outcomes, the ports in every hand they pass through, and a
second entry point which may be published late or never.

## Runs

| Run | Module, configuration | Instance | Result |
|---|---|---|---|
| `server_calls` | `MCServer`, `ServerCalls` | 1 incarnation, 3 calls, cap of 2 live calls, 1 tombstone, TTL 2, 4 ticks | holds |
| `server_floor` | `MCServer`, `ServerFloor` | 3 calls, 1 tombstone, 2 ticks | violated |
| `server_collected` | `MCServer`, `ServerCollected` | 1 call, 10 ticks | violated |
| `upload_credit` | `MCUpload`, `UploadCredit` | 2 calls of 2 messages, one fault, one restart | holds |
| `upload_stuck` | `MCUpload`, `UploadStuck` | 2 calls, one handler may stop reading, fairness | violated |
| `upload_overrun` | `MCUpload`, `UploadOverrun` | 3 calls of 1 message, one restart | violated |
| `call` | `MCCall`, `Call` | 2 client and 2 server incarnations, 2 lives of a container, one of these changes, both clients call, 2 frames in flight | holds |
| `call_ends` | `MCCall`, `CallEnds` | as `call`, the first client calls, fairness | holds |
| `call_restart` | `MCCall`, `CallRestart` | 1 client, 2 server incarnations, fairness | violated |
| `parts` | `MCParts`, `Parts` | `Server` with 3 incarnations and 1 idle container; `Replies`; `Sequence`; `Download`; `Port` | holds |
| `teardown` | `MCTeardown`, `Teardown` | `Server`, `Upload`, `Port`, `Socket`, `Wasm`, fairness | holds |
| `socket_order` | `MCSocket`, `SocketOrder` | 3 sends, mark of 1 message | violated |

What the passing runs show:

- `server_calls`. `AtMostOnce`: no OPEN, however often or late, starts a handler twice
  while the server keeps the incarnation's container. `NeverForgotten` is the reason:
  live map, tombstone, floor and aged watermark hand a sid on without a gap. `OneVerdict`:
  a call rejected by the cap has not run and will not when there is room again.
  `OnlyStaleRefused`: the watermark refuses only calls at least TTL old, although it is
  computed from sids that overtook them. `TombsBounded`: the caps on tombstones and their
  bytes hold. `DeadMeansCancelled`: no call runs on under the mark of a lost peer, which
  later sweeps skip.
- `upload_credit`. `CreditConserved`: connection credit is with the sender, in a send, in
  flight, buffered, held back or being granted, and the sum is the advertised window, until
  a restart; and the ledger counts exactly what live calls have pinned. So a server that was
  not restarted refuses no frame. `StreamConserved`: the same of each stream.
  `CreditNotLost`: a restart never leaves the new window short.
- `call`. `Implements`: the protocol implements `Exchange`; a call is executed at most once
  in each life of its container. `Agreement`: every terminal in flight is a verdict its
  incarnation reached on that call, and every stored one that of its container. `LockHolds`: a call that has heard one
  server incarnation is not answered by another.
- `call_ends`. `CallEnds`: unary calls and half-closed streams end at the client.
  `HandlerStops`: a handler whose client has gone or given up is cancelled or returns, even
  if the abort overtook the OPEN.
- `parts`. `PeersBounded`, `LiveAccounting`: the container cap holds with one eviction per
  creation, counts are exact, no container goes under a live call. `RepliesBounded`: fewer
  than two budgets of replies in any interval of one RTI, and one budget more for each
  disconnect of the peer in it. `TotalsExact`: the server-wide counters
  do not drift. `SlotsAreSwept`: the sweeper never sleeps over a slot. `InOrder`, `Accounted`,
  `StrictFailsRarely`: messages are taken once and in order across the wrap, every number is
  counted once, loss is reported only where there is some, and a strict stream fails only if it
  was ended while a refused number was still taken, or has used up its numbers. `CreditExact`, `StashSuffices`:
  eviction neither loses nor invents credit, and the stash drops nothing before more than
  twice the cap of incarnations share a peer. `FlushedBeforeTeardown`, `TeardownIsLast`: a
  port delivers what was sent before its goodbye, foreign messages do not end it, and no call
  outlives its teardown.
- `teardown`. `StopTerminates`, `StoppedMeansDone`: `stop` resolves, and nothing runs
  afterwards. `HealthyResumes`: a parked send of a call whose handler reads goes on.
  `DeathTearsDown`: every death of a port or a socket, and every goodbye, ends in the
  teardown. `DeathFlushes`, `SendSettles`: a dead socket writes nothing, what it received is
  delivered, and no send waits forever. `OwnerNotRejected`, `CorpseServesNobody`,
  `NothingHangs`: a duplicate start rejects nobody else, no port is handed to a dead instance,
  every start is answered, and no connection is left without an answer.

Each module has one type invariant. `PartsTypeOK` and `TeardownTypeOK` collect those of the
components that move in the two runs.

### Bounds

- `Server`: one sweep per tick and TTL = 2 ticks are the smallest values with the code's
  order T_live < TTL_tomb, and give checkpoints of three ages. Four ticks let a tombstone
  expire and another call overtake it. One tombstone and three calls give evictions while a
  lower sid is live or late; the third call meets the cap of two. Three incarnations are one
  more than the live and the idle container the caps allow.
- `Upload`: windows of one to three frames, the assumed below the advertised, let a sender
  exhaust both; half a window, the granting threshold, is between one and two frames. Four
  messages exceed the connection window. One fault (abort, stall, refusal, failed send,
  rejection, drain) at any point covers each way a credit returns. The calls are symmetric.
- `Call`: with two frames in flight an OPEN can outlive the call, the tombstone and the
  server it was meant for, next to the frame that answers it. One upset (`MaxUpsets`): a
  restart of either end or the end of a container's life. The proofs have no bound.
- `Server` in `Parts`: a peer may be disconnected under one running handler (`MaxOrphans`),
  which finishes after its slot is gone, or after the next OPEN has made a new one.
- `Replies`: one pending RESET puts every path at its limit; two replies per window show
  that the bound is reached and not merely respected, with and without a disconnect
  (`MaxCuts`). The four ticks are two intervals. Two peers are followed up to the second
  tick (`TwoPeersEarlier`): they share only the totals.
- `Sequence`: a number space of 8 with a forward window of 2 is the smallest in which a frame
  can lie beyond the window and still be young, which is what DATA_LOSS is about; 10 frames
  wrap it. The channel respects what the code assumes, that no frame is older than half the
  space.
- `Download`: a window of 1, one idle container and a stash of one give every transition
  between container, stash and loss with three `Conn`s. The third calls only when the call of
  the second is over (`VisitorsInOrder`).
- `Port`, `Socket`, `Wasm`: one or two calls, sends, messages, pages and one connection.
  What can go wrong there is the order of a few events at the end of a channel's life.

Calls, messages, restarts and ticks are bounded and channels end, so only the runs of
`MCServer` check for deadlock.

### Fairness

- `call_ends`, `call_restart`: a frame of a kind that is sent over and over gets through in
  the end (OPEN, CLOSE, PING, RESET; acknowledgements, terminals and aborts need not). Armed
  timers fire. A unary handler returns; a streaming one does once it is cancelled or its input
  has ended. Nothing is assumed of restarts, cancellations or handlers that still have input.
- `upload_stuck`: both read loops run, a send that can go on does, a returned handler is
  finished, and the handlers outside `Stuck` keep reading. Faults have no fairness, so the
  stall timeout rescues nobody.
- `teardown`: while some task of the event loop can run, one does, which any JavaScript
  engine gives; and a handler that was told to end returns. `SendSettles` rests on a stall
  budget above zero (`sendStallTimeoutMs`, by default the keepalive timeout); with 0 a send without a signal may wait for as
  long as its socket lives.

## Findings

1. **The floor swallows calls that were never answered** (`server_floor`,
   `server.ts:357`). The entry cap raises the floor to the lowest tombstoned sid. A lower
   sid whose OPEN is late is then dropped in silence, though the comment says "Only the
   stored replay is lost".
2. **A collected container forgets** (`server_collected`, `server.ts:1377`). Two TTLs after
   the last frame the container goes, watermark included. A duplicate OPEN delayed for longer
   runs the handler again, though the documentation promises strict at-most-once within an
   incarnation.
3. **Held-back credit can stay held back** (`upload_stuck`, `util.ts:708`). The starvation
   clause is applied when credit is returned, not when a frame is admitted. With one stuck
   handler, frames admitted afterwards complete the window and nobody grants the rest: the
   healthy call parks until its stall timeout.
4. **Pipelined frames are forgotten at a restart** (`upload_overrun`, `conn.ts:615`). The
   first answer of a new incarnation restarts the connection sender with nothing sent, while
   the OPEN and data that drew that answer already occupy the new incarnation's buffers. The
   client then overruns the window.
5. **A duplicate OPEN keeps a dead stream alive** (`call_restart`, `conn.ts:1051`). Delivered
   to the restarted server, it makes a call there. The stream, locked to the old incarnation,
   drops that call's answers, and its probes no longer hit an unknown sid, so the RESET the
   documentation promises never comes and the stream never fails.
6. **A parked send is overtaken** (`socket_order`, `transport/websocket/index.ts:344`). Each
   send waiting at the buffered-amount mark polls on a timer of its own, and a new send does
   not queue behind them. The adapter reports a channel without reordering, and the peer's
   strict sequence window fails a call whose frames changed places.

## Proofs

Every theorem is about the specification the runs check, with its constants left open.

### Server

For any number of incarnations, sids and verdicts, any timing and any limits that satisfy
`PeerStateAssumption` and `ServerAssumption` (positive limits, TTL at least twice the
liveness timeout, which is what the timing defaults and their validation give):

| Theorem | States |
|---|---|
| `TypeCorrect` | `[]TypeOK` |
| `ExecutesAtMostOnce` | `[]AtMostOnce` |
| `ForgetsNothing` | `[]NeverForgotten` |
| `CountsLiveCalls` | `[]LiveAccounting` |
| `LostPeersAreSilent` | `[]DeadMeansCancelled` |
| `AnswersOnce` | `[]OneVerdict` |
| `StopIsFinal` | `[]StoppedMeansDone` |
| `RefusesOnlyStale` | `[]OnlyStaleRefused` |
| `TombstonesBounded` | `[]TombsBounded` |
| `ContainersBounded` | `[]PeersBounded` |

None of the properties is inductive alone. `AtMostOnce` needs that a started call is
remembered; that needs `NeverForgotten`; a tombstone may expire only because the watermark
covers it, so the checkpoints have to be ordered in time and height, and an expired checkpoint
must leave one behind that is old enough; the container must not vanish under a live call, so
the count has to be exact. `OneVerdict` needs that a verdict exists only for a call that is
remembered and no longer live. The inductive invariant `IInv` (in `ServerProofs`) is the
conjunction: types, one condition `Sound(e)` per container (count, memory, ordered
checkpoints, dead mark), the links from starts and from verdicts to memory, and shutdown.
`PeerStateProofs` has the lemmas about the operators of `PeerState`: that each keeps the type,
that `addTomb` keeps every sid that was held and adds the new one, that expiry and checkpoints
keep what the watermark covers, that time only adds to it.

`ServerLimitProofs` adds three invariants on top of `IInv`:

- `AInv` for `OnlyStaleRefused`. The watermark refuses sids the server never saw. That is
  right because a client allocates in order, so `AInv` dates both sides: if a sid is allocated
  so are all below it, and not later; and every checkpoint, and the watermark, was taken when
  all sids up to it had been allocated. Ageing a checkpoint then ages all of them.
- `BInv` for `TombsBounded`. `tombBytes` is a running sum that is corrected when a terminal is
  stored, dropped or expires. It is shown equal to the number of pairs of a tombstoned sid and
  a byte of its terminal, a set, whose cardinality each operation changes by a known amount;
  and a live call has no tombstone, so none is counted twice.
- `PInv` for `PeersBounded`. One container is evicted per creation, which keeps the bound only
  because it held before, and because the containers with live calls are at most the live calls.

`ServerCalls` and `Parts` set `ExtraTTL` to 0; longer tombstones are covered by the proofs only.

### Call

For any number of client and server incarnations, of restarts, of lives of the containers and
of frames in flight (`CallAssumption`):

| Theorem | States |
|---|---|
| `CallTypeCorrect` | `[]TypeOK` |
| `TerminalsAgree` | `[]Agreement` |
| `ImplementsExchange` | `Implements`, the refinement of `Exchange` |
| `LockIsKept` | `LockHolds` |

`Agreement` with the types is inductive. It is split into what is said of the frames in
flight (`NetOK`), of the client (`CliOK`) and of the server (`SrvOK`), so that a step of one
side has to be shown to keep its own part and what it sends. Every action is shown to make a
`Step`: the invariant holds afterwards, the abstract variables take a step of `Exchange` or
none, and the lock holds. The theorems follow from that one lemma. `SrvOK` has, beyond what
`Agreement` says of this life, that later lives and incarnations have decided nothing yet:
that is what lets a collected container or a restarted server start from no memory.

### Replies

For any sets of peers and calls (`RepliesLimits`: limits and RTI are positive, as
`resolveLimits` sees to; `Configured`: the hold is a duration, and a tombstone lives for at
least one RTI less a tick):

| Theorem | States |
|---|---|
| `RepliesAreBounded` | `[]RepliesBounded` |
| `TotalsAreExact` | `[]TotalsExact` |
| `EverySlotIsSwept` | `[]SlotsAreSwept` |

The last clause of `Configured` is where `RepliesBounded` depends on the timing: the sweep
prunes a budget older than the tombstone lifetime, and a budget pruned within its window would
start anew. The defaults are 1 s and 30 s; `resolveTiming` keeps the lifetime above twice the
liveness timeout but does not compare it with `retransmitMs`.

The inductive invariant `RInv` has five parts. `BInv` ties the log of replies to the budget.
A window opens with a reply, so what went out since the tick after it is below the window's
count; what went out in the whole last RTI is at most the window's count, one full window less
its first reply, and a full window for each disconnect in that RTI. A disconnect drops a count
of at most `MaxReplies` and adds a window, so it keeps this. `CInv` says that each total is
the cardinality of the set of entries, over all peers; every path that adds or drops entries is
shown to move both by the same amount. `OInv`: only slots hold entries, only containers know
calls. `SInv`: while a sweep is on its way the slots it has passed hold something, so that the
timer is let go after the last slot only if there is none left. `TInv` is the types.

### Sequence

For any number space, window, `K_LOUD` and capacity of the queue (`NumberSpace`: the window is
below half the space, as 4096 is below 2^31; `resolveRxConfig` makes the capacity positive):

| Theorem | States |
|---|---|
| `TakenInOrder` | `[]InOrder` |
| `NumbersAccounted` | `[]Accounted` |
| `StrictStreamsFailRarely` | `[]StrictFailsRarely` |

The receiver compares numbers modulo the space. Lemma `Distance` says that its subtraction gives
the distance of the real numbers when they are less than the space apart, and `NInv` that they
always are: the highest accepted number and every frame in the channel are within half a space
below the sender. A refusal may still take the sender's last number back, so `NInv` and the
clause on DATA_LOSS speak of `SentTop`, the highest number that can be in the channel. `QInv`
orders the queue between the last message read and the highest accepted; `AInv` is the sum;
`FInv` says that in a strict stream that was not ended behind a refused frame the channel holds
exactly the frames between window and sender, so the next one is always the one expected. That no frame is older than half
the space is a guard of the model, `Young`: with 2^32 numbers the code takes it for granted.

### Port

For any set of channels and any number of calls and foreign messages:

| Theorem | States |
|---|---|
| `PortTypeCorrect` | types |
| `FlushComesFirst` | `[]FlushedBeforeTeardown` |
| `NothingAfterTeardown` | `[]TeardownIsLast` |

The argument is a count. In each direction the frames handled, buffered and queued at an end
never exceed those the other end posted, and equal them as long as the end lives or the goodbye
is still ahead of it. `PortInv` has that, where the goodbye may be, and what a torn-down end
no longer holds.

### Socket and Wasm

For any number of sends, messages, pages and connections (and, for the socket, keepalive on or
off):

| Theorem | States |
|---|---|
| `SocketDeathFlushes` | `DeathFlushes` |
| `WasmTypeCorrect` | types, and no open connection without its page |
| `StartIsNotRejected` | `[]OwnerNotRejected` |
| `PortsGoToTheLiving` | `CorpseServesNobody` |

`DeathFlushes` and `CorpseServesNobody` are action properties, shown step by step. `SInv` of the
socket counts what came, what waits and what was delivered. `OwnerNotRejected` needs `WInv`: what
is on its way to whom. Before the start is decided nothing has been said to any page; after a
success the first message its owner reads is the success.

### Only model-checked

All liveness properties: fairness is out of the prover's reach. Of the safety properties, those
of flow control (`CreditConserved`, `StreamConserved`, `CreditNotLost`, `CreditExact`,
`StashSuffices` and the types of `Upload` and `Download`): they are sums over the frames of a
queue, and what such a sum is after a step takes an induction over the queue, which the prover
does not do. The collective type invariants `PartsTypeOK` and `TeardownTypeOK` are proved as far as
the invariants of the parts contain them.

## Not modelled

- WebRTC (`transport/webrtc`): its channel is `Socket` without keepalive and with an event in
  place of the poll timer. WebTransport and UDP hand datagrams to the platform one by one: they
  are the lossy channel of `Call` and `Sequence`.
- Wire format, metadata, compression, status codes, codecs, interceptors, statistics, the
  Connect and protobuf-es bridges, method descriptors: single frames or single calls are
  converted, reported or wrapped, and no state outlives them.
- The Go implementation, whose goroutines and locks interleave otherwise.
- Within the models: the stream window and message loss are in separate modules from the
  call's control frames (`Upload` and `Sequence` against `Call`), since the product is out of
  TLC's reach; `Call` has one call per incarnation; a message that fails to decode and a peer
  that advertises no window are left out of `Upload`; handlers of `Download` await their sends.
