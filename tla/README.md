# danmu-garden: TLA+ models, checks and proofs

`danmu-garden-go` is a Go code base for game servers: a WebSocket network
layer (`internal/network`), service registration and discovery over etcd
(`internal/util/sessionutil`), and the utilities they use (`pkg`). This
directory holds TLA+ models of the parts whose correctness depends on the order
of events, the TLC runs that check them on small instances and the TLAPS proofs
of what matters most. `PROJECT.json` links every definition to the source lines
it models and lists the hazards (the places that are hard to test) with the
properties that cover them.

    tlc -workers 2 -config MCWsOutbound.cfg MCWsSession   # one run
    tlc -workers 2 -config MCToolkit.cfg MCToolkit
    tlapm WsSessionProofs.tla                             # one proof module

## 1. The system

| component | state | operations | interacts with |
|---|---|---|---|
| WebSocket session (`acceptor/base_acceptor.go`, `wsSession`) | context, connection, `sendChan`, `recvChan`, `closeOnce`, `seq` | `Send`, `SendAsync`, `Recv`, `Close`, the goroutines `recvLoop` and `sendLoop` | the acceptor, its user goroutines, the `EventHandler`, the peer |
| WebSocket acceptor (`wsAcceptor`) | `sessions` under `mu`, the HTTP server, the ID generator | `Serve`, `Close`, `Sessions`, the upgrade handler | sessions, `http.Server` |
| connector (`connector/connector.go`) | as a session, without `seq` | `Dial`, then as a session | sessions |
| codec, framer, router, serializer, compressor, crypto | none per message, a handler table | `Encode`, `Decode`, `Dispatch` | both loops |
| service registration (`sessionutil/session_util.go`) | etcd: an ID counter, session keys, leases; per process: `ServerID`, `LeaseID` | `Init`, `Register`, `GoingStop`, `Stop`, the keep-alive goroutine | etcd, other processes |
| discovery and active-standby (same file) | a revision, an event channel; the active key | `GetSessions`, `WatchServices`, `ProcessActiveStandBy` | etcd |
| ring buffer (`pkg/buffer/ring`) | `buf, size, r, w, isEmpty` | `Read`, `Write`, `ReadByte`, `WriteByte`, `Peek`, `Discard`, `ReadFrom`, `WriteTo`, `Reset`, growth | a buffer pool |
| synchronisation (`pkg/util/syncutil`) | versions, condition channels, futures | `NotifyAll`, `Wait`, `Set`, ... | everything concurrent |
| futures, pools, parallel helpers (`pkg/util/conc`, `funcutil`) | a result, a channel, a worker pool | `Go`, `Submit`, `AwaitAll`, `ProcessFuncParallel` | |
| logging (`pkg/log`) | a bounded queue, a flush timer | `Write`, `background`, `Stop` | every component |
| retry (`pkg/util/retry`) | a loop counter and a delay | `Do`, `Handle` | registration |
| Douyin SDK (`internal/sdk/douyin`) | a token cache (library), configuration | 28 calls of the platform's HTTP API, webhook handlers | the platform |
| discovery example (`examples/.../discovery`) | a table of connection managers under `connMu` | start, stop, reconnect | discovery, connector |
| hardware watcher, buffer pools, etcd helpers, application, errors, configuration, metrics | small or none | | |

What is hard about them: a channel send races with the close of the channel;
a close runs on any of several goroutines and calls back into user code; a
mutex is held while waiting for other goroutines; an etcd call may fail after it
was applied; a lease may expire between any two calls; a record read is stale
when it is acted upon; a watch may fall behind a compaction; a request that was
given up may still be handled; a goroutine may be left behind on a channel that
nobody reads; and the ring buffer has two readings of `r = w`.

## 2. Modules

| module | models | role |
|---|---|---|
| `WsSession` | `wsSession`: both loops, `Send`, `Close`, the `closeOnce` body, the peer | component |
| `OutboundStream` | what `Send` promises to the peer | abstract specification, implemented by `WsSession` |
| `SeqLemmas`, `WsSessionProofs` | | proofs |
| `Acceptor` | `wsAcceptor`: `Serve`, `Close`, the upgrade handler, the session map | component; uses a session as `WsSession` presents it |
| `AcceptorProofs` | | proofs |
| `ServiceRegistry` | `Session.Init`, `Register`, `GoingStop`, `Stop`, keep-alive, and the etcd they rely on | component |
| `ServiceRegistryProofs` | | proofs |
| `ServiceDiscovery` | `GetSessions`, `WatchServices`, `ProcessActiveStandBy`, `GoingStop` over a revision log of etcd | component; the other half of `session_util.go` |
| `ServiceDiscoveryProofs` | | proofs |
| `FramePipeline` | codec, framer, compressor, encryptor and router, from `Encode` to the handler | component |
| `FramePipelineProofs` | | proofs |
| `Connector` | `Dial`, the client's loops and `close`, with the connection manager of the discovery example | composition of the two |
| `Notifier` | `VersionedNotifier` over `ContextCond` | component |
| `Parallel` | `ProcessFuncParallel`, `ProcessTaskParallel` | component |
| `AsyncLog` | the asynchronous log core | component |
| `DouyinApi` | the control that all calls of the SDK share, the network and the platform | component |
| `DouyinEndpoints` | one row per call of the SDK | data of `DouyinApi` |
| `ToolkitProofs` | | proofs about the five units that `MCToolkit` puts together with a safety property |
| `RingBuffer` | `ring.Buffer` | component |
| `RingBufferProofs` | | proofs |
| `ByteFifo` | a first-in first-out queue of bytes | abstract specification, implemented by `RingBuffer` |
| `MC*` | model values, symmetry, the choice of a part (`MCToolkit`) or a scenario (`MCWsSession`, `MCDiscovery`) | for TLC |

### WsSession

One variable per field of `wsSession` that is shared, one program counter per
goroutine (`pc`), and history variables (`accepted`, `written`, `skipped`,
`handled`, `pulled`, `failed`) that no action reads. The correspondence:

| code | actions |
|---|---|
| `Send`, `enqueueOutbound` (one `select`) | `CallSend`, then `SendCancelled`, `SendQueued`, `SendParks` or `SendPanics` |
| `Close`, `close`: `closeOnce.Do` | `CallClose`, `EnterOnce`, one action per statement of the body (`OnceCancel` ... `OnceOnClosed`), `LeaveOnce` |
| `recvLoop` | `RecvCheck`, `RecvFrame`, `RecvError`, `RecvDeliver`, `RecvHandle`, `HandlerReturns` |
| `sendLoop`, `writeRaw` | `SendTake`, `SendLoopDone`, `EncodeOk`, `EncodeError`, `WriteOk`, `WriteError` |
| parent context, peer, `Recv()` reader | `ParentCancel`, `PeerSend`, `PeerGone`, `Pull` |

The Go runtime appears where the code depends on it. A `select` with several
ready cases picks any of them. A goroutine that finds the channel full parks in
a FIFO; a receive gives the freed slot to the first parked sender in the same
step; cancelling the context releases all parked senders in one step. A send on
a closed channel panics, and since nothing recovers it the process ends:
`Next` is disabled when `panic # "none"`.

Abstractions. A packet is its sender and number, a received frame its position
and its kind (decodable, undecodable, ignored). `SetReadDeadline` and
`SetWriteDeadline` errors are part of `RecvError` and `WriteError`. An encoded
message is never empty, so the early return of `writeRaw` for empty data does
not occur. `OnMessage` may call `Send` and `Close`; having called `Close` it
makes no further call. `OnError` and `OnClosed` do not call `Send` or `Close`: from
`sendLoop` or inside `closeOnce` these calls would wait for themselves. The
error that `close` returns is not modelled.

### Acceptor

`http` follows the HTTP goroutine of a connection through the upgrade handler
(lines 87-101), `stage` and `closer` show a session as its `closeOnce` does, `mu`
is `a.mu`, `at` and `todo` are the `range` loop of `Close`, which holds `a.mu`
while each `s.Close()` waits for whoever is closing that session. `Shutdown` is
modelled as far as `Serve` relies on it: it closes the listener and idle
connections and waits for the others, but not for hijacked ones. Users' handlers do not
use the acceptor inside `OnClosed`; if they did, `Close` would deadlock (the
mutant `SessionClosedLeavesMap` shows how a model of that fails). `Sessions()`
only reads and is not an action.

### ServiceRegistry

A node is one process; a restart is another node with the same address. `etcd`
is the ID counter, the session keys with their leases, and the set of live
leases; one etcd request is one step and a failing one may have been applied,
before its caller sees the error, or never (an application that arrives later
still is not modelled). `Init` is `CheckIDExist`, `GetID`, `CasID`; `registerFn`
is `Grant` and one of `Registered`, `RegisterRefused`, `RegisterFails`, with
`RestartGet` and `RestartPurge` for `handleRestart`; `Retry` is the loop of
`retry.Do`. The keep-alive goroutine is `TtlOk`, `TtlExit`, `ChannelClosed`,
`CtxSeen`, `Revoke`. A process can crash at every step and a lease can expire at
every step. `TtlExit` is possible with a live lease too: the code exits when
the check is not answered in time. Two live processes cannot have the same
address (`AddressFree`). Not modelled: `sessionRetryTimes = 0` (retry for ever) and
`enableActiveStandBy`; `Stop` is called only after `Register`.

### ServiceDiscovery

etcd is a sequence of revisions (`log`), each the events of some keys, with the
current records (`store`), a compaction revision and the live leases; deleting
several keys of one lease is one revision, as in etcd. The correspondence:

| code | actions |
|---|---|
| `ProcessActiveStandBy` | `RegisterActive` (the transaction, which may look failed when it was applied), `ActiveExists`, `RegisterActiveFails`, `WatchEnds`, `Activate`; `CallAgain` is the caller's next call |
| `GoingStop` | `GoingStop` (the count) and `GoingStopPut`; `CompleteKey` is `getCompleteKey` |
| `GetSessions`, `WatchServices`, and their version-range variants | `GetSessions`, `WatchServices`, `Valid` |
| `start`, `handleWatchResponse` | `Receive`, `Send`, `NoPrevKv`, `WatchError`, `RchClosed`, `CtxDone` |
| `handleWatchErr` | `ErrCompacted` (`GetSessions`), `Rewatch` |
| `Stop` | `Stop`; it has returned when `w = "done"` |
| the reader in the example | `Read`, `ReadClosed`; `view` is the set of services it is connected to |

A `select` of `ProcessActiveStandBy` ends on any response and on any error, so
`WatchEnds` has no guard; only its fairness asks for an event (`Notified`). A
`Rewatch` is taken to replace the reader's view by the sessions it is given
(its type and the comment say no more). A failing watch panics and takes the
process with it (`w = "panic"`). A response may hold buffered events older than a
compaction.

### FramePipeline

A body is an operation, a length class (empty, below the compressor's minimum,
longer) and what was done to it: compressed or not, sealed under which AAD. Of the
AAD only the flags matter, the other fields travel unchanged. `Encode` is
one step, as nothing else touches its buffer; `Decode` is `recvLoop` with `DecodeRaw`
and the router's dispatch. The sender may reuse its header, so that flags of
the last message can be left in it (`ClearFlags`). Both ends use the same compressor and
encryptor, their switches are independent. Left out: errors of the serializer, and frames
that no `Encode` produced.

### Connector

`manager` follows the goroutine of `startManageConnection`, `dial` the goroutine
inside `Dial`, `conns` each connection with both loops and its `closeOnce`.
`Disconnected` is `<-c.Context().Done()`: a connection's context derives from its
manager's. The manager sends nothing, so the send loop only waits for the
context. What the loops do with messages and closed channels is what `WsSession` says
of the server's, line by line the same code. A pause takes any time. The connection that a cancelled
`Dial` leaves behind (`dial[m]` stays "ok") is not followed further, and nothing in the code
closes it.

### Notifier, Parallel, AsyncLog

*Notifier*: every critical section is one action; `ch` is `ContextCond.ch`, a
listener waits outside the lock on the channel it saw (`waitsOn`). *Parallel*: one
program counter per batch, the rendezvous on `done` and `errc` are
`TakeDone` and `TakeError`, `Quits` is the other case of the goroutine's `select`.
*AsyncLog*: `writing` is an entry in the `select` of `Write`, `queue` the channel,
`buffer` and `disk` the two sides of zap's `BufferedWriteSyncer`; after a
flush that timed out its goroutine goes on (`Drain` after `FlushEnds`). A core made
by `With` has lost `nonDroppableLevel`, so every level blocks there.

### DouyinApi, DouyinEndpoints

All 27 typed calls and `MiniAppPostJSON` have the same control: check the arguments, get a token,
then up to `MaxAttempts` times send, and decide on the response (`Verdict`). It is written once;
`DouyinEndpoints` records what differs: the method, the state of the platform the
call works on, whether it writes, which checks come first, whether an undecodable 200
is an error (`strict`; not so for `MiniAppPostJSON` without a `respBody`), whether a
success may name failures (`partial`). The platform is external: it handles a request at any
time after it was sent, in any order, also after its attempt was given up, or never
(`Handle`, `Lose`). With a 5xx or an undecodable 200 it may or may not have applied the
write. The value of a resource is the number of the call that wrote it last.

### RingBuffer

The methods are functions on the record `[buf, size, r, w, isEmpty]`, with the
case splits of the code; an operation applies one of them. `ReadFrom` is a loop over
an `io.Reader` and has one action per call of the Reader, so that every partial
answer occurs. Bytes are numbered in the order in which they are written,
modulo `NumBytes`; with more byte values than the buffer has room for, a byte
out of place is always seen. `MinRead`, `DefaultBufferSize` and `bufferGrowThreshold` are
constants, scaled down. Overflow of `int` is not modelled.

## 3. Runs

| run | instance | shows |
|---|---|---|
| `ws_outbound` | 2 callers, or 1 caller and `recvLoop` with a frame, as senders, 2 Sends each, queue of 1 | a failed Send is never queued; per-goroutine order survives parking; nothing taken from the queue is lost silently; blocked senders never panic; `OnClosed` gets the true cause and is the end; the session implements `OutboundStream` |
| `ws_lifecycle` | 1 caller, 2 frames, queues of 1 | `OnMessage` sees every decodable frame once and in order, `Recv()` a subsequence of it; under a cancelled context at most one more frame reaches `OnMessage`; a close ends both loops and releases everybody; a cancelled context closes the session |
| `ws_panic` | 2 callers, 1 Send each, 1 frame | **violated**: a late `Send` can panic the process |
| `acceptor` | 2 connections, 1 user | a session that is not in the map is closed; after a graceful `Serve` only sessions past the hijack can be open; `Serve` and `Close` return; no deadlock |
| `registry` | 2 nodes, 2 addresses, 2 attempts | IDs are unique; a serving node of a non-exclusive service with a live lease is visible under it; a restart takes over; a node without lease ends; a gone node is forgotten |
| `registry_exclusive` | 3 nodes, 2 addresses, 2 attempts | **violated**: two exclusive processes with live leases |
| `discovery` | 2 nodes, channel of 1 event, 4 revisions, one compaction; a watcher of two serving nodes, or two standbys | with live leases at most one process is ACTIVE; a caught-up reader is connected to exactly the sessions of its revision, through rewatch too; a standby takes over a free key; `Stop` returns, except from a reader that leaves while the channel is full |
| `toolkit` | one part at a time: 2 goroutines with 2 calls of 2 attempts; 2 log writers with 3 entries and a queue of 1; 2 listeners and 3 versions; 4 indices in up to 3 batches; 2 frames, one operation, 2 handlers; 2 managers and 2 connections | what a Douyin call answers is true of the platform; what was queued before `Stop` is on disk; no notification is lost; `Decode` inverts `Encode` or refuses; parallel batches return with the right result; replaced managers and their connections end |
| `ring` | sizes up to 5, growth threshold 4 | the buffer is a FIFO, the queries agree |
| `ring_writebyte` | the same | **violated**: `WriteByte` on a full buffer at the threshold indexes beyond the slice |
| `ring_readfrom`, `ring_writeto` | the same, arbitrary Readers and Writers | **violated**: `(0, io.EOF)` on an empty buffer; a Write that accepts nothing |

Why the bounds are enough. *Sessions*: with a queue of one message, two senders
already fill it, park and are woken in either order; they are two user goroutines or, where
the peer sends a frame, `OnMessage` and one of them (`TwoSenders`; the other may still call
`Close`), as all three at once are too many states for a regular run. The second Send of a
goroutine is what per-sender order needs. With two
frames the second finds `recvChan` full. Each frame-kind and each way to close
occurs. *Acceptor*: one session is closed by `Close` while another is closed by itself and
registers late. *Registry*: with two nodes one can take the place of the other, with
three a predecessor, its successor and a rival meet; two attempts are needed as
`handleRestart` always fails its own attempt. (`RestartTakesOver` also holds
with three nodes: 11 million states, too many for a regular run.) *Discovery*: with two nodes one can leave while the other joins or takes over; with a
channel of one event a watcher blocks on the second and a snapshot meets a buffered
event; with four revisions there are three behind the first one, enough to register,
lose the lease, be compacted and watch again. *Toolkit*: two calls of two attempts have the
late request of the first overtake the second; a queue of one with two writers has
an entry in the channel and one waiting when `Stop` comes, and a third may come after it; three
versions let a listener miss one and wait for the next; four indices in up to three batches
give full, short and missing batches; two frames have a header reused under each
combination of settings; a second manager replaces the first, which has a connection and
dials another. The parts of `toolkit` share no state, so exploring them one at a time
loses nothing. *Ring*: the sizes go through
an empty slice, doubling, growth by a quarter (4 to 5) and wrapping at sizes that are and
are not powers of two. `MaxSends`, `MaxFrames`, `MaxChunk`, `MaxStream`,
`MaxSize`, `MaxRev`, `MaxCalls`, `MaxWrites`, `MaxVersion`, `MaxTotal`, `MaxPar`, `MaxManagers`,
`MaxConns` bound the models and name no limit of the code. Deadlock is checked in
`acceptor`; elsewhere the system may legitimately stop (a dead session, dead
processes, a bound reached).

Fairness. A goroutine that can take a step takes one (weak fairness per loop,
per caller inside `Send` and `close`), and event handlers return. Lock
acquisition is strongly fair, which `sync.Mutex` ensures by its starvation mode.
No fairness for users, peers, contexts, crashes, or a write to a peer that does
not read (`WriteOk`); `CancelCloses` therefore needs `WriteTimeout > 0`, and the run
says so. etcd expires leases that nobody refreshes, and the client closes the
keep-alive channel of an expired lease. In `discovery` etcd answers calls and
delivers the events it has, the watcher's and the reader's goroutines are scheduled, and the
lease of a dead process expires; errors, compaction and `Stop` may never come. In
`Parallel` every goroutine is scheduled and the user's function returns. In
`Connector` the manager and both loops are scheduled; the server need not answer a dial
(the cancelled context must end the wait) and no message need arrive.

## 4. Findings

1. `enqueueOutbound` (base_acceptor.go:238): after `close(sendChan)` both cases of
   the `select` are ready; half of the late Sends panic and end the process.
   (A Send that was already blocked is safe: `BlockedSendNeverPanics`, proved.)
2. `handleRestart` (session_util.go:490) deletes the key unconditionally, whatever it
   holds by then; two exclusive services can then run.
3. `ReadFrom` (ring_buffer.go:350) clears `isEmpty` before it knows whether anything
   was read.
4. `WriteTo` (ring_buffer.go:421) resets a full buffer when the Writer
   accepts nothing at `r = w = 0`.
5. `WriteByte` (ring_buffer.go:250) asks `grow` for a capacity of 1, not of one byte more: a full
   buffer of 4096 bytes or more keeps its size, and line 252 panics. (Below that size, or with
   room left, it never does: `PanicsAtThreshold`, proved.)

Seen while reading, without a run: the comment at ring_buffer.go:45 says that sizes
are powers of two, growth beyond the threshold makes others (the `ring` run
shows that nothing else relies on it). In the other parts:

- `codec.go:133`, `186`: `Encode` builds the AAD before it sets the encrypted flag, `Decode`
  after; with `AEADHMACCodec` no frame ever decodes, although `codec.go:38` calls
  `DecodeRaw` the inverse of `Encode`. `zstd.go:74`: a body below
  `SetMinCompressSize` is returned as it is and flagged as compressed, so `Decode`
  refuses it. `DecodeInvertsEncode` excludes both by `SettingsFit`.
- `session_util.go:855`, `862`: a `Rewatch` runs while old events are still in the
  channel; read afterwards, they bring back services that are gone (`overtaken`). The
  snapshot for it ignores the version range (line 844). `CaughtUpIsCurrent` excludes both.
- `base_acceptor.go:95`: a session that ends is not removed from `a.sessions` (only Close empties
  it), so `Sessions()` is not "the active sessions" of acceptor.go:89, and the map grows.
- `session_util.go:790`: after an error that is not `ErrCompacted` the process panics, where the
  comment at line 836 says "just close the channel".
- `session_util.go:817`: the previous record of a deleted key may have been compacted
  away; `ev.PrevKv` is then nil (`NoPrevKv`).
- `session_util.go:965`: a transaction that was applied but looked failed leaves the active key
  with a process that is not ACTIVE; a repeated call of its own then waits for the
  key to go (`troubled` in `StandbyTakesOver`).
- `session_util.go:718`, `828`: `Stop` leaves the event channel open, and a reader that calls
  it while the goroutine is blocked on the full channel waits for ever.
- `connector.go:107`: the connection of a cancelled `Dial` is never closed.
- `discovery/main.go:63`: the back-off overflows after about 35 failures in a row, and the
  manager then dials without a pause.
- `zap_async_buffered_write_core.go:89`: `With` drops `nonDroppableLevel`; line 126: after `Stop`
  a non-droppable entry waits for ever once the queue is full.
- `live_quiz.go:76`: the comment leaves `level <= 0` to the platform, the code refuses
  a negative one.

## 5. Proofs

`WsSessionProofs` proves for all sets of callers, queue sizes, timeouts and bounds
(under `SessionAssumption`: queues hold at least one message, and the loops are not
callers):

| theorem | invariant behind it |
|---|---|
| `TypeCorrect` | `TypeOK` is inductive; it contains `InFlightOK`, without which the type of `hand` cannot be kept |
| `WireOrder` | `QueueInv`: the accepted messages are those taken (`seq` of them) followed by the queue, and `hand` is number `seq`; so a written frame carries its position |
| `FailedIsNeverQueued`, `PerSenderOrder` | `CallInv`: the message of a goroutine inside `Send` is neither accepted nor failed, and all accepted messages of a goroutine are older than it |
| `BlockedSendIsSafe` | `OnceInv`: from the `OnceCancel` step on nobody is parked, as `ctxDone` keeps senders from parking |
| `ClosedIsFinal` | the same invariant: when `OnClosed` has run, both channels and the connection are closed |
| `SessionImplementsStream` | all of the above, each step mapped to a step or a stutter of `OutboundStream` |
| `NothingLostSilently` | `NoSilentLoss` is inductive over `TypeOK`: while nobody has called `close`, `sendLoop` takes the next message only when it has written or reported the last |
| `MessagesInOrder`, `RecvFollowsHandler` | `ReceiveInv`: a frame in `recvLoop`'s hands is number `readN` and newer than every handled one; every packet up to it was handled or is in hand; what went to `recvChan` was handled, except that frame |
| `CauseIsTold` | action property. `CauseInv`: while no one has closed, a goroutine on its way to `close` carries its true reason, and a receive error is only in `errs` when `recvLoop` is on that way |
| `CancelEndsMessages` | `Leaving`: an `OnMessage` running under a cancelled context can only lead back to the check of the context and out of the loop, also when it calls `Send` (and parks, or is released) or `Close`. The statement has the form `[](P => []Q)`, as "no more" is about all later states |

`AcceptorProofs` proves for all sets of connections and of callers of `Close`
(`AcceptorAssumption`: the names are distinct):

| theorem | invariant behind it |
|---|---|
| `TypeCorrect` | with `MapInv`: every session has an ID of its own, under which it is in the map |
| `RemovedAreClosed` | `LoopInv`: whoever is in the loop of `Close` holds `a.mu`, and what it has finished with is closed for good |
| `GracefulEnd` | `ServeInv`: after `Shutdown` no connection is left that was neither hijacked nor closed, and none is accepted |

`ServiceRegistryProofs` proves for all sets of processes and addresses and every number of
attempts (`RegistryAssumption`: at least one):

| theorem | invariant behind it |
|---|---|
| `TypeCorrect` | `TypeOK` is inductive |
| `UniqueIDs` | `IdInv`: the counter is beyond every ID it has given out, and a process past `Init` has an ID; a stale read is refused by the transaction |
| `ServingIsVisible` | `IdInv` and `TypeOK`: without `Exclusive` each process has its own key, so only etcd deletes it, together with the lease it is bound to. With `Exclusive` the statement is false (finding 2) |
| `RestartsTakeOver` | `TakeOverInv`. `RecordsInv`: a record lies under the key of its writer (`Owned`), a registering process without a failed call has none yet (`Unwritten`), it has a greater ID than any other process of its address (`Newest`), and no two of one address are alive (`OneAlive`). `Straight`: so with no failure and no rival of another address it deletes the record of its predecessor in the first attempt and finds the key absent in the second |

`ServiceDiscoveryProofs` proves for all sets of processes and all bounds (`DiscoveryAssumption`):

| theorem | invariant behind it |
|---|---|
| `TypeCorrect` | `TypeOK` is inductive |
| `AtMostOneActive` | only a winner is no standby, so a `GoingStop` of anybody else cannot put the active key; a winner's lease keeps the key until both go in one revision |
| `CaughtUp` | `LogInv`: the store is what the log of revisions makes of it, and its events say who came and went; `FollowInv`: the view, once the events of the channel and of the answer in hand are read, is what etcd held at the revision received; a rewatch starts over from a snapshot |

`FramePipelineProofs` proves `DecodingIsExact` for any operations, handlers and number of frames;
`ToolkitProofs` carries it over to `MCToolkit` (`DecodeIsExact`) and proves, each for all values
of the constants:

| theorem | invariant behind it |
|---|---|
| `DecodingIsExact` | `InOrder`: what was received and what is on the stream make up what was encoded; `OnStream`: every frame is the encoding of its message, which needs that flags of the last message are cleared |
| `NothingLost` | the channel a listener waits on is closed or the current one (`OneOpenChannel`), and whoever waits on the current one has seen the version |
| `AnswersTrue` | `OpenCalls`, `OwnRequests`, `FirstAttempt`: a request on the wire belongs to a call begun, and while the first attempt waits there is no older one of that call; `QuietAlone`: in a quiet time the only write under way is the quiet call's own; `AnsweredOk`: it answered after it was applied |
| `StopFlushesAll` | `EnteredInv`: disk, buffer and queue together hold what was accepted, each entry once; `FlushInv`: the flush begins after the cancellation and ends only with queue and buffer empty of what was queued before |
| `ToolkitSafe` | the four together under `MCSpec`: a step of the chosen unit leaves the variables of the others alone |

`RingBufferProofs` proves for all sizes, with `DefaultBufferSize`, `MinRead` and
`GrowThreshold` as in the code or as in the runs (`RingAssumption`; `BoundAssumption` says that
a new buffer lies within the bound `MaxSize`):

| theorem | invariant behind it |
|---|---|
| `PowerIsEnough`, `GrowsEnough` | the loops of `CeilToPowerOfTwo` and `grow` are recursive functions. `Induction` states induction over the numbers with a set in place of a predicate (and is proved by the pigeonhole principle); from it `LoopExists` and `LoopClimbs`: such a loop has a value, and it is beyond its bound |
| `TypeCorrect` | `RingInv`: the buffer is `WellFormed` (indices in the slice, an empty buffer starts at 0, a slice wherever there is content or `ReadFrom` is under way). It holds for `AwkwardIO` Readers and Writers, too |
| `QueriesRight` | `ContentsIs`, `BufferedIs`, `PeekIs`: byte `i` of the content is at `r + i - 1`, wrapped, in each of the three case splits |
| `PanicsAtThreshold` | `ByteRoom`: below the threshold `grow(1)` always makes room |
| `IsFifo` | `LoopInv`: the first `Read` of a round finds room, the second starts at 0 or has nothing left to read. `Appended` and `Dropped`: a store or a move of the read index that treats byte `i` right for every `i` appends or drops; each operation of the slice is one of the two. Stated for `~AwkwardIO`: without it the claim is false (findings 3 and 4) |

`SeqLemmas` holds facts on `Append`, `Head`, `Tail` and `Range` used throughout.

Only model-checked: liveness (`ServeReturns`, `CloseReturns`, `CloseEndsLoops`,
`CloseReleasesCallers`, `CancelCloses`, `ZombieExits`, `GoneIsForgotten`, `StandbyTakesOver`,
`StopReturns`, `ReturnsFaithfully`, `ReplacedDisconnects`), for which these provers have no rule
for fairness and `ENABLED`. Every invariant, every action property and `LastMessage`, the safety
property of the form `[](P => []Q)`, is a theorem, and so are both refinements. The library's induction theorems take an operator
as a parameter and cannot be used; where a recursive function matters, in `RingBuffer`, the lemma
`Induction` replaces them. No module with theorems uses a `RECURSIVE` operator.

## 6. Plan

Modelled in this order: the session and the acceptor, the registry, the ring buffer; then
discovery and active-standby over the etcd of the registry, the frame pipeline, the connector with
its manager, the notifier, the parallel helpers, the log and the SDK. Worth doing next: the
safety part of `Parallel` and `Connector` proved; a run of its own for
each disagreement of section 4 that is only described; an abstract watch (the history of the
store, once and in order) implemented by `ServiceDiscovery`; `WsSession` and `FramePipeline`
composed.

## 7. Not modelled

- The webhook handlers of the SDK (`callback.go`, the end of `live_match.go`): each checks one
  request and answers it, with no state in between. The coupon calls go through the vendor's
  client.
- `conc.Future`, `Pool`, `Singleflight`: the repository's only uses (`conc.Go` in the network
  loops) discard the result, and pool and singleflight are libraries.
- `retry.Handle`, the cooldown notifier, the closable lock, the hardware listener: no caller
  in the repository.
- `Application` waits for one signal at a time in one goroutine.
- The buffer pool's calibration only tunes capacities; the batch helpers for etcd are loops over
  slices.
- Encoders, formatting, configuration, error types and metrics have no state whose order
  matters; compression, encryption and worker pools are libraries, known here by
  what their callers rely on.
