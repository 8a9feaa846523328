# TLA+ models of Prismo DNS

Prismo DNS is an iOS and macOS app (`apple/`, Swift) around a Go tunnel (`masterdns/`): a client
carries TCP streams and DNS queries of local applications inside DNS queries, through ordinary
resolvers, to a server that connects to the targets. This directory holds TLA+ models of it, the
TLC configurations that check them on small instances, and proofs that hold for all instances.
Paths below are relative to the repository; `internal/` stands for `masterdns/internal/`.

- [1. The system](#1-the-system): parts, state, interactions, what is hard, what makes it correct
- [2. Modules](#2-modules): how they correspond to the code
- [3. Runs](#3-runs): what TLC checks, with which bounds and fairness
- [4. Where the code disagrees](#4-where-the-code-disagrees)
- [5. Proofs](#5-proofs)
- [6. Not modelled](#6-not-modelled)
- [7. Plan](#7-plan)

To repeat a run: `tlc -config ArqDataWrap.cfg MCArqData.tla`. To check a proof: `tlapm ArqData_proof.tla`.

## 1. The system

### How the parts interact

    local application                                               target
        |  TCP / SOCKS                                                |  TCP
    client stream (ioLoop, writeLoop)                       server stream (ioLoop, writeLoop)
        |  a.mu, channels                                             |
       ARQ  -- TX queue --> dispatcher --> resolvers --> ingress --> session store --> ARQ
        ^                                                             |
        +---- handlers <-- async runtime <-- resolvers <-- TX queue --+

The two ARQs of a stream exchange packets with each other and with nothing else. Each is driven by
five kinds of callers: two loops that block on the local connection, a loop that processes
received data, a timer loop that retransmits, and the handlers of incoming packets. They share one
mutex, `a.mu`, which they release around every read, write and hand-over to the TX queue. The
client polls (it is the only side that can send a DNS query) and the server answers a poll with
what it has queued. The resolvers in between lose, repeat, delay and reorder.

Around the streams stand the session (client init, server slots and cookies), the workers that dial
targets and answer tunnelled DNS queries outside the ingress path, the resolver balancer, and, on
the phone, the app that starts and stops the client in-process.

### Inventory

| Component | State | Operations | What is hard | What makes it correct |
|---|---|---|---|---|
| ARQ data plane, `internal/arq/arq.go` | `sndNxt`, `sndBuf`, `rcvNxt`, `rcvBuf`, flags `Dispatched`, TX queue | read, send, retransmit, ACK, NACK, reorder, write, watchdogs | 16-bit numbers that wrap; two windows on different quantities; pushes outside the lock | bytes arrive once and in order; nothing acknowledged is lost; gaps close |
| ARQ close, same file and the close handlers of client and server | 13 flags, deferred close, the awaited acknowledgement, control buffer | CLOSE_READ, CLOSE_WRITE, RST, drain, half-close, deadlines | two handshakes interleave with each other, with the drain, and with blocked reads and writes | a stream that ends without an abort is complete; both ends close |
| Deferred-session workers, `internal/udpserver/deferred_session.go` | lane mapping, channels, counters, cancel functions, cancelled marks | enqueue, receive, begin, return, finish; remove a lane or a session; finalize | channels are compacted under a lock that the receivers do not take | counters exact; a removal stops what it should and nothing else |
| Tunnel lifecycle, `ClientViewModel.swift`, `TunnelEngine.swift`, `mobile/mobile.go` | status, lifecycle token, keeper, `cancelFn`, `runningWG`, `os.Stdout` | start, stop, failures of each step | a start and a stop, or two starts, overlap in detached tasks | what the app shows is what runs; off is off; nothing stays stuck |
| Server session store, `internal/udpserver/session.go`, `server_session.go` | 255 slots, init signatures, cookies, reuse deadlines | find or create, validate and touch, close, cleanup | slots and ids are reused while old packets and tasks are about | a packet reaches the session it was sent to; a repeated init finds its session |
| Client session and runtime, `internal/client/session.go`, `async_runtime.go` | session id, cookie, ready flag, restart request | init with retries, restart, reset of streams | a restart races with its own cause | one restart per cause; no stream of the old session survives |
| Server streams, `stream_server.go`, `session.go` | stream map, active list, recently closed, orphan resets | create, remove, sweep, note closed | two critical sections; records that expire | a closed stream is not created again by late packets |
| Deferred connect, `server_deferred.go` | keys of tracked packets, stream target | dial, attach, answer, suppress duplicates | close during the dial; SYN sent again | at most one dial; no connection left open |
| Client streams and SOCKS, `socks_manager.go`, `stream_client.go` | status, reply-sent flag, TX queue | SOCKS handshake, late result, local close | result and local close race | one reply; no leaked connection |
| Dispatcher and TX queues, `dispatcher.go`, `mlq/mlq.go` | round-robin position, level bitmask, key index | push, pop by priority, pop if, remove by key, pack | size, mask and index must agree | every queued packet is served |
| Ping manager, `ping_manager.go` | last activity times, wake throttle | notify, choose interval | a throttled wake is a lost wake | a pending answer is polled for |
| Resolver balancer, `balancer.go` | samples in flight, windows, active set | send, answer, timeout, late answer, disable | timeout races late answer | a loss counts once; the last resolvers stay active |
| MTU discovery, `mtu.go` | probe results | binary search, recheck, confirm | floors and failures of a probe | the largest size that works is found |
| DNS cache and listener, `dnscache/store.go`, `dns_listener.go` | sharded LRU, its file, the relay's poller | get or create pending, set ready, evict, save, load | lost queries, late answers, a save that races with answers | who keeps asking is answered; what counts as saved is in the file |
| Server DNS: `fragmentstore`, `inflight`, `dns_tunnel.go` | collections with expiry; leaders and followers; hedged lookups | collect, purge; acquire, resolve, wait; ask the upstreams | expiry against a late duplicate; a lookup that fails or comes late | a query runs once; one lookup per question; all who wait are woken |

The parts left out altogether are in section 6. PROJECT.json lists, under "hazards", each place
where this code is hard to test, with its line, and the properties aimed at it.

## 2. Modules

### SeqArith, ReliableStream, ArqData: the data plane

`SeqArith` is the arithmetic of the wrapped sequence numbers: `Wrap` for `uint16`, `Ahead` for the
difference of two of them, `Half` for the 32768 that separates old from new in
`processReceivedData`. `SeqSpace` is a parameter.

`ReliableStream` is what a stream promises: what was written is a prefix of what was read.

`ArqData` is one direction of one stream. The code carries only the wrapped number; the model also
carries the position of the chunk in the stream, which stands for the payload. No guard of the
model looks at the position except in the path's (`Young`, below).

| Action | Code (`arq.go`) |
|---|---|
| `IoRead` | `ioLoop`: wait for the window, read, store in `sndBuf`, push to the TX queue |
| `TxDequeue` | the dispatcher takes the packet; `NoteTXPacketDequeued` starts its timer |
| `RtxCheck`, `RtxPush`, `RtxMark`, `GiveUp` | `checkRetransmits` collects jobs under the lock, pushes each without it, then marks each; or resets the stream |
| `ProcessReceivedData` | `ReceiveData`, `rxLoop`, `processReceivedData` with its NACKs |
| `GapWatchdog`, `FinalAck` | the two watchdogs |
| `ReceiveAck`, `HandleDataNack` | the sender's handlers |
| `WriteLoop` | `writeLoop`: the contiguous chunks, written and removed |
| `Lose` | the path loses a packet; a delivered packet may leave a copy behind |

Abstractions. Timers expire at any time, so every order of timeouts and arrivals is covered.
`IoRead` stores and pushes in one step: between the two the chunk is in `sndBuf` with `Dispatched`
false, which no other step can use. `rxLoop`'s channel is not a separate step here (it is in
`ArqClose`). The environment assumption is named: `Lifetime` says that the path delivers a packet
only if its chunk is among the last `Lifetime` read, with `Lifetime <= Half`. It is the maximum
segment lifetime every wrapped-number protocol needs; nothing in the code enforces it, and for a
chunk that stays unacknowledged over half of the number space it also says that its retransmissions
do not arrive. The chunk itself may stay in `sndBuf` as long as it likes, also until its number
comes round and `IoRead` overwrites its slot.
`WindowAssumption` otherwise follows from the configuration: `window` is clamped to 1..8000, the
limit is `max(0.8 window, 50)` and the receive window `2 window`, together at most 22401 < 32768.

### ArqClose, StreamEnds: how a stream ends

Both ARQs of a stream, each a record; every method that runs under `a.mu` is an operator from
record to record named after it (`Close`, `DeferTerminal`, `SettleTerminalDrain`, `EmitTerminal`,
`TryFinalizeRemoteEOF`, ...), and an action is the chain of methods that one goroutine runs without
releasing the lock. Where the code does release it the model splits the step: `ioLoop` between its
checks and the return of its read (`IoCheck`, then `IoData`, `IoTimeout`, `IoEOF` or `IoError`),
`writeLoop` between its two critical sections and around its write (`WriterScan`, `WriterIdle`,
`WriterWrite`, `WriterFail`), `ReceiveData` from `ProcessReceivedData` by the channel of `rxLoop`.
The two sides differ: `Refuses`, `TryFinalizeClientLocalDisconnect` and the terminal handlers follow
`client.go` and `server_postsession.go`. Data are numbers of chunks, since `ArqData` shows that
they arrive once and in order. A packet that is never received is a lost one.

`StreamEnds` is what this promises to the two applications, with one variable: how much was read and
written at each end, and whether that end is open, failed or complete. An end writes no more than was
read at the other; a complete one has written all that the other application sends; failed and complete
are final, and a complete end neither reads nor writes. `ArqClose` implements it (section 5).

### DeferredSession: the server's workers

One action per method, except where the workers interleave with them. The compaction of the
channels, which runs under `p.mu`, is split into `CompactTake` and `CompactRefill`, because a
worker receives (`Receive`) without that lock; `Unlocked` is the lock. A worker's life with a task
is `Receive`, `BeginTask`, `Return`, `FinishLane`; between `Receive` and `BeginTask` the task is in
no queue and no map. A task may call `FinalizeLane`, as `finalizeDeferredConnectStream` does.
`revoked` is a history variable: the tasks that a removal meant to stop.

### SessionStore: who has which session

The server's table and the client's main loop in one module, because what can go wrong lies between
them. A payload of SESSION_INIT stands for its four random bytes. Every packet to the server is in
`toServer` until it is handled; `toClient` holds the answers that still have a receiver, which is
where the verify code of an init and the closed sockets of a stopped runtime enter (`Awaited`).

| Action | Code |
|---|---|
| `HandleSessionInit` (`Reuse`, `Create`, `TableFull`) | `findOrCreate` under the store's lock, and the answer |
| `HandleData` (`Accepted`, `Ignored`, `Dropped`) | `validatePostSessionPacket`; a wrong cookie is answered only now and then |
| `LookupClose`, `Close` | the two critical sections of `handleSessionCloseNotice` |
| `Cleanup`, `ReuseEnds` | idle timeout; the end of the reuse window of an init |
| `SendInit`, `ReceiveAccept`, `SendData` | the session init with its retries; any traffic of the session, at least pings |
| `ReceiveDrop`, `Restart`, `Withdraw` | `requestSessionRestart`; `Run` stops the runtime, then withdraws the request in two steps |
| `HookCheck`, `HookRequest` | `handleNetbindChange` on the app's thread, interleaved with all of these |
| `Stop` | the context is cancelled; the close burst |

Time is abstracted: an idle timeout or the end of a window may come at any moment, but only
`Outages` times for a session that is in use. A cookie is eight random bits, drawn without a look at
those that somebody still holds, and `Create` draws any of them (`RandomCookies`; the unknown values are
alike, so one stands for all). The history field `again` of a session says that its cookie was known.

### TunnelLifecycle: the app and package mobile

Every start and stop takes a lifecycle token; the token names the task it spawns, and for a start
also the Go client and the stdout interceptor it creates. The variables are those of
`ClientViewModel` (`status`, `lifecycleToken`, the keeper) and the package variables of
`mobile.go`. A task moves at the points where the Swift code suspends (`await`) and where the Go
code takes or releases its mutex or waits. `EngineStart` to `StartGo` are `TunnelEngine.start` and
`mobile.Start`; `StopTake`, `StopWait` and `StopUnpump` are `mobile.Stop`, which three callers use
(`Stages`); `StartReturned` is `startCompletionAction`. The user starts again as soon as the button
allows, also while tasks of earlier taps go on, so that starts and stops overlap. Two history variables
remember what they then did to each other: `overwritten` the clients whose `cancelFn` another start
replaced, `crossed` which of three crossings occurred: a returning start was ignored, interceptors were
nested, a task of an earlier tap stopped something while a later start was shown.

`SetLogWriter(nil)` is merged with the step before it, and the part of a start that precedes its
detached task runs before the next tap, as the main actor does.

### ServerStreams: streams and connects of a session

One session on the server. A stream object is an instance (`inst`), since its id may be used again;
`streams`, `active` and `recentlyClosed` are the maps of `session.go`. Three kinds of goroutines and
their critical sections:

| Goroutine | Actions | Code |
|---|---|---|
| ingress | `Syn`, `CheckLimit`, `Immediate`, `Clear`, `Lane`, `Begin`, `Enqueue`, `Ack`; `Reset`, `ResetCloses`; `PeerCloses` | `handleStreamSynRequest` and `handleSOCKS5SynRequest` with the limit, the immediate acknowledgement, the recently-closed check, the deferred key and the queue; the RST and close handlers |
| connect worker | `Take`, `Start`, `Create`, `Found`, `Dial`, `Failed` or `Dialled`, `Attach`, `Attached`, `Finalize`, `Finish` | `processDeferredStreamSyn` and `processDeferredSOCKS5Syn`, the dial without any lock between two looks at the stream, `attachUpstreamConn` |
| whoever ends a stream or the session | `ArqCloses`, `Cleanup`, `RemoveStream`, `NoteClosed`, `CleanKeys`, `CleanLane`; `EndSession`, `EndKeys`, `EndMark`, `EndSnapshot`, `EndClose`, `EndMaps`, `EndLanes` | `finalizeAfterARQClose`, `removeStream` in its two sections, the cleanup of deferred state; `cleanupClosedSession` and `closeAllStreams` |

`DeferredSession` has the queues; here any idle worker takes any queued connect.

### ClientStreams: the streams of the proxy listener

The client's counterpart. A goroutine per accepted connection reads a SOCKS5, SOCKS4 or TCP-mode
request (`Socks5Request`, `Socks4Request`, `TcpRequest`, `RelayEnds`), takes an id (`NewId`,
`get_new_stream_id`) and creates the stream (`NewStream`, `Connecting`). Processors handle the
server's results under the stream's lock (`Lock`, `Write`, `SetResult`, `Ready`, `Late`, `ForceClose`,
`Unwritten`), in TCP mode without it (`StreamResult`, `StreamActive`, `StreamFail`), and resets (`Rst*`);
`Missing` is `handleMissingStreamPacket`, `CloseAck` the acknowledgement that ends a stream. Streams
end by their ARQ (`ArqEnds`, `Finalize`), the cleanup worker (`SweepStart`, `SweepLook`, `SweepJudge`,
`SweepRemove`) or the stop of the runtime (`CloseAll`, `CloseDoomed`, `AllClosed`), after which `Start`
begins again with connections that are still being accepted. `inst[n].replies` is what the
application has read.

### Resolvers and ResolverChoice: the balancer

`Resolvers` is the state of `balancer.go` under its goroutines. `Write`, `Register` and `Count` are
`asyncWriterWorker` and `TrackResolverSend`: the datagram leaves before its sample is registered.
`Answer`, `Retract`, `Report` and `Confirm` are `TrackResolverSuccess`, `TrackResolverFailure`,
`RetractTimeout` and `ReportTimeout`; between the last two runs the probe that confirms a loss. The
health loop is `Sweep` (`CollectExpiredResolverTimeouts`), `Select`, `Recheck` and `Rest`.
`EnsureStream`, `CleanupStream`, `NoteStreamProgress` and `SelectTargets` are the routes of streams.
A request stands for `Grain` requests, so that the thresholds on counts, which are the code's, are
within reach; windows, timeouts and intervals end when they like. `others` is a history variable: how many
resolvers have been disabled by other goroutines since a goroutine began to confirm its suspicion.

`ResolverChoice` is the pure part: the scores and partial selections of the nine strategies, as
operators on sequences; the filters of valid and of scored resolvers are the recursive function of
`Among`. A step asks the balancer once (`AskUnique`, `AskBest`, `AskTargets`). The counter `rrCounter`
goes up for ever and only its value modulo the number of active resolvers is used, so the model keeps it
modulo `Cycle`, a multiple of them all; the lemma `CycleHides` of `Parts_proof` says that this changes no rotation.

### MtuSearch: the scan

`ProbeHigh`, `EmptyRange`, `ProbeLow`, `ProbeMiddle`, `SearchEnds` and `Cancel` are one bisection of
`binarySearchMTU`, probe by probe; `UploadDone` and `DownloadDone` carry its result on;
`Optimize` is `optimizeMTUResolvers` and `applySyncedMTUState`, with the whole table of how many
resolvers each pool size may lose (`Limits`). Where the code sorts the sizes and takes a place of the
result, `Smallest` says which size stands there, by counting. A probe stands for all its retries. What a
direction carries is any set of sizes, also one that is no interval.

### DnsCache and DnsResolver: DNS over the tunnel

`DnsCache` is the client's side: `Ask` (`Hit`, `Miss` with `Dispatch`, `StillPending`) is
`ProcessDNSQuery` on `LookupOrCreatePending`; `Poll` the poller of the SOCKS5 UDP relay;
`ReceiveAnswer` collects fragments and sets the entry ready; `PendingTimeout` and `Expire` are the
clocks; `SaveBegin`, `CountShard`, `WriteHeader`, `SaveShard` and `SaveEnd` are `SaveToFile`, which goes
through the shards twice, locking one at a time: it counts, writes the count, and then writes the
entries; `Loaded` is `LoadFromFile`, which reads as many entries as the header says;
`Crash` and `Restart` begin again with the file, or with what `StopAsyncRuntime` leaves.

`DnsResolver` is the server's side: `ReceiveQuery` (`fragmentstore.Store.Collect`) makes a task,
`Purge` forgets it, `Start` asks cache and in-flight manager, `LookUp` is the lookup with its hedged
upstream servers, `Follow` and `Respond` what becomes of it; `Stop` is a client that stops
repeating a fragment, `EndSession` the end of the session under its tasks.

### Modules for TLC

`MC*` give constants their values. Two of them put parts that do not interact side by side, so that
one run checks several: a behaviour of `MCApp` is one of `TunnelLifecycle` or of `DnsCache`, and one of
`MCParts` one of `DeferredSession`, `DnsResolver`, `MtuSearch` or `ResolverChoice`; the part that was not
chosen rests in an initial state. Nothing is composed there: the state space is the sum of the
parts', not their product.

## 3. Runs

All passing runs explore their whole state space, and each action fires in at least one of them.
Deadlock is not checked: every one of these systems may stop (a stream ends, the user stops
tapping, no task is left, the client stops), and bounded inputs run out.

That a property says something about the code is checked too: for each there is a variant of one
definition with a plausible mistake (`ReceiveDrainedIgnoringWrite`, `DropUncounted`, ...), placed
before the definition it varies and used nowhere else, with which the property fails. PROJECT.json
lists them under "mutants". `TypeOK` of a module is a conjunct of one of its invariants (`IndexSound`,
`LimitKept`, `NoneLost`, `CompleteAtClose`, `ReadyIsServed`, `PendingExact` of `DeferredSession`,
`PreferredActive`), together with the agreement of its tables.

| Run | Shows | Bounds, and why they are enough |
|---|---|---|
| `data_wrap` | `TypeOK`, `InOrder`, `AckedIsHeld`, `LeadBounded`, `ReuseLosesNothing` | 9 chunks through numbers modulo 8, so that numbers are reused, also that of a chunk still in `sndBuf`; limit 2, receive window 1 and lifetime 4 fill half the space exactly, the tightest the assumptions allow; at most three copies wait in the sender at once (`FewCopies`) |
| `data_live` | `ImplementsStream`, `GapRepaired` | 2 chunks and a receive window of 1, so that the reorder buffer is full behind the gap; one retry, batches of 2; the path holds a packet for each chunk |
| `close_faults` | `CompleteAtClose`, `EOFAfterData` | the server's or the client's application sends a chunk (their close handshakes have different exits); failures, deadlines and late copies on |
| `close_both` | `CompleteAtClose` | both send, nothing fails: the two handshakes interleave; followed until both ends have closed (`SomeEndOpen`), after which nothing is written |
| `close_live` | `BothEndsClose` | the server sends, nothing fails, no deadline |
| `app` | `OffIsOff`, `ReadyIsServed`, `StoppingEnds`; `SavedUnlessRaced`, `Answered` | tunnel: 4 taps at any time, which is what two overlapping starts and the stops between and after them take; the three properties were also checked once with 5 taps (797446 states). Cache: two questions, an answer of one fragment and one of two, 4 queries, one fault (loss, late poll, expiry, crash, restart) at any point |
| `parts` | `PendingExact`, `QuietIsClean`, `CancelledInLane`; `PicksDistinct`, `BestTaken`; `SearchExact`, `DropsPay`; `WorkedOnce`, `SharedLookup`, `FailsAfterAll` | workers: two sessions with two streams each, 2 workers, channels of 2, a cap of 2, 4 tasks, one removal, any number of finalizations. Choice: 3 resolvers, each unknown, good, slow or lossy, the counter modulo 6. Scan: ranges of 0, 1 and 7 sizes; four resolvers, the fewest of which one may be dropped, and ten, of which two may. DNS: two queries, one of two fragments, two upstream servers, the same question or two |
| `sessions` | `IndexSound`, `OwnSession`, `DropIsTrue`, `Recovers` | two slots; two values of a cookie, so that one often comes again; a client, and another that has gone and whose last init may still take a slot; 2 packets to the server at a time, any number of answers; one session in use is timed out and the interface changes once, each of which causes a restart |
| `resolvers` | `PendingExact`, `PreferredActive`, `LastActive`, `Recovers` | 4 resolvers, the fewest of which losses disable any; 2 carry requests; 2 processors and the health loop, which confirm at once; 2 sends of 96 requests each, enough for a window to condemn; a cap of 2 samples; one resolver comes back |
| `server_streams` | `LimitKept`, `ConnOwned`, `EndedIsEmpty` | two ids and room for one stream; one ingress goroutine, two connect workers, two packets, instances and connections |
| `client_streams` | `OneReply`, `NoneLost`, `CancelledIsReset` | one id used twice, one connection being accepted across a restart, two processors with the same or contradictory results |

The remaining run, `close_truncates`, shows what section 4 describes.

One chunk in each direction is enough for the close handshakes because their conditions only ask
whether a buffer is empty; with several chunks the order is `ArqData`'s subject. In `data_live` the
path must have room for every chunk: a path that stays full of copies of one chunk would drop every
copy of the other, which is an artefact of the bound and no behaviour of a network. The counters of
`DeferredSession` go wrong, if at all, when one removal meets tasks in every place at once (queued,
taken out, received, running, returned), which four tasks and two workers allow. Sessions and
streams are interchangeable there, hence the symmetry; workers are not, because of `nextWorker`.
In `sessions` the client's own earlier payloads do what other clients would: a late init makes a
session that nobody uses, which holds a slot until it is idle, and meets the table full. In the two
stream runs an id is reused at once, where the code has 65535 others between; the model only
excludes that a goroutine still works on it (`ClientStreams`). Two instances of an id and two
goroutines are what it takes for one to act on the other's stream.

Properties worth a word:

- `AckedIsHeld`: the sender forgets a chunk only if the receiver has it, even though an
  acknowledgement names just a number.
- `LeadBounded`: nothing in the code bounds the span from the oldest unacknowledged chunk to the
  newest; the bound follows from both windows together.
- `EOFAfterData`: whoever has the peer's CLOSE_READ has all its data. With both applications
  sending *and* failing it breaks, but only through the read after CLOSE_READ that section 4 lists;
  so `close_faults` has one sender, and `close_both` does not check it.
- `PendingExact` of `DeferredSession` includes that a compaction never blocks with the lock held,
  because nobody can enqueue meanwhile.
- `CancelledInLane`: a task is cancelled only by a removal of its session or lane, or by the end of
  another task of its lane. The second half is a defect that section 4 describes.
- `DropIsTrue`: nothing in a drop says which session it is about; that the runtime which receives it
  is the one whose packet it answers follows from the sockets being closed with each runtime. It and
  `OwnSession` except a session whose cookie was known when it was drawn (`again`), and nothing else.
- `Recovers` of `SessionStore` has one exception, which section 4 lists: `missed`. That of `Resolvers` is
  about a resolver that answers and goes on answering.
- `LastActive`: who disables a resolver leaves the code's floor of three, but for those that others
  disabled since its own check. The floor itself does not hold (section 4).
- `ConnOwned`: the dial runs without any lock, and stream and session may be gone when it returns.
- `OneReply`: a success may be followed by a failure, and by nothing else (section 4).
- `OffIsOff`, `ReadyIsServed` and `StoppingEnds` hold with overlapping starts, up to what `overwritten` and
  `crossed` name; TLC finds each of them violated when any of these exceptions is dropped (section 4).
- `SavedUnlessRaced`: a clean cache may lack entries in its file, but no more than answers came during
  the save. Which ones it lacks is not said: they may be others, and older (section 4).
- `SharedLookup` includes that a lookup wakes all who follow it, however it ends.
- `BothEndsClose` holds with the server sending and fails with the client sending (section 4): the
  client's ARQ gives its writing side up after a grace, the server's has no such exit.

### Fairness

- `ArqData!Fairness`: the dispatcher serves every queued packet and `writeLoop` runs when it can
  (weak); a packet or NACK sent again and again arrives, and the gap watchdog repeats its NACK
  (strong). Retransmission timers are not assumed to run: NACKs alone close a gap.
- `ArqClose!Fairness`: the loops and the handlers run, a terminal packet is retransmitted until it is
  acknowledged, what is sent repeatedly arrives, and the client's grace, once it runs, elapses. The
  inactivity and drain deadlines, which would end every stream by force, are switched off.
- `SessionStore!Fairness`: the client's loop and its hook run, an answer that somebody waits for is
  received (weak); an init, or a packet with a wrong cookie, that is sent again and again is
  answered in the end (strong), the latter because pings alone reach the tracker's threshold;
  sessions nobody uses are timed out. Nothing makes the interface change or a session end.
- `TunnelLifecycle!Fairness`: tasks run, and a client whose context was cancelled ends. Nobody has
  to tap, and no client has to fail.
- `DnsCache!CacheFair`: an application asks until it has its answer, the timeout of a pending entry
  passes, and an answer that is not lost arrives. Nothing makes the file be saved or a crash happen.
- `Resolvers!Fairness`: the health loop goes round, as a goroutine that nothing blocks for ever, and
  the interval between two probes passes again and again (strong, for `Rest(TRUE)`). No request has
  to be sent or answered.

## 4. Where the code disagrees

`close_truncates` checks one statement of a comment, and TLC shows a behaviour of the code that
breaks it: the peer "should finish draining inbound" (`arq.go:2806`), but a late copy of data reaches
a closed stream, is answered with RST, and the RST cuts off a peer that is still writing. The
details, with lines, are in PROJECT.json.

The models show more of the kind; these have no run of their own. Each is given with the formula,
or the steps, with which a model shows it; the hazards of PROJECT.json that no property covers refer
to this list. The first four contradict something the repository says.

- `BothEndsClose` with the client sending (`ArqClose`): the last packet to be processed is a duplicate;
  `processReceivedData` takes it, returns at `arq.go:1584` without waking `writeLoop`, and nobody looks
  again. The server's stream stays open until the inactivity timeout, where `arq_test.go:1803` says
  "expected close-read handshake to complete after inbound write drain".
- `status = "stopping" ~> status # "stopping"` (`TunnelLifecycle`): two overlapping starts pass the test
  at `mobile.go:96`, the second overwrites `cancelFn`, and every later stop waits for a client that nothing
  can cancel, where `mobile.go:178` says that Stop "waits briefly for shutdown". By `StoppingEnds` this
  is the only way to stay in "Disconnecting".
- A task is cancelled only by a removal (`DeferredSession`): cancel functions are kept by lane
  (`deferred_session.go:310`), and the end of a lane's first task cancels another that runs.
  All DNS queries of a session share a lane. `stream_syn_test.go:593` says "expected finalized running
  task context to remain active".
- Keys of a closed session are cleared (`session_cleanup_test.go:140`): `cleanupClosedSession` clears
  them first and drops queued tasks last; a SYN taken in between leaves a key whose task is dropped
  (`server_postsession.go:350`), and the next SYN with that key is acknowledged and never dialled. In
  `ServerStreams`, `k \in inflight` without a job or a worker for it, also in the cleanup of one stream.

The data plane and the close:

- `\A n \in DOMAIN sndBuf : sndBuf[n].dispatched \/ Queued(n) \/ \E p \in rtxPushed : p.sn = n`
  (`ArqData`): `checkRetransmits` pushes without the lock and marks the chunk afterwards
  (`arq.go:2404`); a dispatch in between leaves it unqueued with its timer off, until the peer's NACK.
- `localWriteClosed /\ ~localWriterBroken => wrote = the peer's fed` (`ArqClose`): `writeLoop` looks
  for work and for the peer's close in two critical sections (`arq.go:1678`); a last chunk that
  arrives in between is not written.
- `[][closeReadSent => fed' = fed]` (`ArqClose`): a broken writer sends CLOSE_READ while `ioLoop` is
  inside a read (`arq.go:866`); what the read returns is sent after the close.

Workers, sessions, streams of the server:

- Tasks of a lane run one after another, in order (`DeferredSession`): the end of a lane's first
  task unmaps the lane (`deferred_session.go:307`); the next task goes to another worker and
  overtakes those still queued, which `README.MD:731` calls ordering-sensitive.
- A removed task that runs has a cancelled context (`DeferredSession`): the next enqueue of the lane
  deletes the cancelled mark (`deferred_session.go:131`) before the task in flight has seen it. The
  end of a cancelled task may delete the key of a newer one.
- A close notice closes the session it names (`SessionStore`): `handleSessionCloseNotice` looks the
  session up and closes its slot in two critical sections (`server_session.go:74`); in between
  another copy of the notice, or the cleanup, may free the slot and an init take it.
- `~missed` (`SessionStore`): the hook of the interface monitor may set the request's flag and signal
  it while `clearRuntimeResetRequest` has cleared the flag and still drains the signal
  (`async_runtime.go:274`). The flag then stays set with no signal, and every later request, a drop
  included, returns at once (`async_runtime.go:256`): the client no longer restarts.
- A session that may be reused is in the index (`SessionStore`): a session whose window has ended
  and that is closed later takes the entry of its successor with the same payload along
  (`session.go:453`), and the next copy of the init makes one session more.
- A stream that is noted as closed is not in the table (`ServerStreams`): `removeStream` deletes and
  notes in two critical sections (`session.go:969`). A SYN between the two creates the stream again;
  its worker dials, sees the note and closes the connection, but leaves it attached, and the next
  SYN is answered CONNECTED with a closed connection. A closed stream is also revived by an
  acknowledgement or a task that looked at the note before it was made, and a SYN refused for the
  limit may be answered with a failure and create the stream when a slot has become free.

The client:

- One reply (`ClientStreams`): `HandleSocksFailure` does not look for a stream that is active, so a
  failure after CONNECTED writes a second reply into the application's data. TCP mode checks the
  status and sets it without a lock.
- A cancelled stream that the sweep removes before its reset was sent leaves the server unaware.
  `get_new_stream_id` does not reserve its id until the stream is inserted, and a restart sets the
  counter back. A request without a free id, and a failed bind for UDP, leave the connection open.
- The balancer keeps three resolvers, or any (`active # {}`, `Resolvers`): `ReportTimeout`
  (`balancer.go:383-437`) counts the active ones before its probe and not after it, so goroutines that
  confirm at once take one each, down to none when there are as many of them as resolvers. By default six
  workers and the health loop may (`client_config.toml.simple:232`); TLC finds it with four of each. What
  does hold is `LastActive`. The retraction of a loss loads
  and decrements in two steps (`balancer.go:551`); an answer that overtakes its registration is ignored
  and counted as lost later; losses of an old window may make up those of the next.
- A clean cache is in its file (`DnsCache`): `SaveToFile` ends by clearing the dirty flag, and with it
  what changed while it wrote: `raced`. An answer between its two passes (`store.go:470`) is written but
  not counted, so the load stops short of another entry, which may be older than the save. A load that
  fails leaves shards partly filled.
- The TTL (`DnsCache`) runs from the last use, not from the answer (`client_config.toml.simple:81`), and
  a failure that the server reports is kept for it like an answer.
- Fragments (`DnsResolver`): only the one that completes a query is acknowledged; the others, and a
  query whose acknowledgement is lost, are sent again until the retry limit, as a completed query
  returns without one. The completed record lasts 300 s and the retries up to 1200 s, so a query may
  run again. A query whose task is dropped stays completed, and the client waits for its timeout.
  `Resolve` comes before the answer is cached; a query in between starts a second lookup.

The app, when a start overlaps tasks of earlier taps; the formulas are `OffIsOff` and `ReadyIsServed`
without their exceptions:

- `Idle => cancelFn = 0` while "off" ("ignored"): a start that returns after a stop and a second start leaves its client to the second
  (`ClientViewModel.swift:508`); when that one fails before `mobile.Start`, the app shows "failed" while the
  client of the first runs.
- `Idle => stdout = 0` while "off" ("nested"): of two interceptors installed one over the other, the one
  that is stopped last restores the other's closed pipe (`stdout_pump.go:66`).
- `status = "ready" => keeper` and `cancelFn = lifecycleToken` ("late"): a start whose token is stale stops
  the client of its successor (`ClientViewModel.swift:444`) and turns off its keeper (`:449`).
- A `Stop` that found a client returns only after that client is gone: `Start` publishes `cancelFn`
  before `runningWG.Add` (`mobile.go:144`), so `Wait` may find zero.
- `IsRunning` answers for a running client: one that failed by itself leaves `cancelFn` set
  (`mobile.go:153`), and the app goes on showing it as connected.

## 5. Proofs

Every theorem holds for all values of the constants that satisfy what the last column names. The
assumptions stated with the constants (`CloseAssumption`, `DeferredAssumption`,
`LifecycleAssumption`, `ScanAssumption`, `ChoiceAssumption`) hold everywhere and are named only where they say more than types.

| Module | Theorem | States | Assumes |
|---|---|---|---|
| `ArqData_proof` | `Order` | `Spec => []InOrder` | `SeqSpaceAssumption`, `WindowAssumption` |
| | `TypeCorrect`, `NoChunkForgotten`, `Lead` | `[]TypeOK`, `[]AckedIsHeld`, `[]LeadBounded` | the same |
| | `OverwrittenIsHeld` | `Spec => ReuseLosesNothing` (an action property) | the same |
| | `Implementation` | `Spec => ImplementsStream` (a refinement) | the same |
| `ArqClose_proof` | `EndsComplete` | `Spec => []CompleteAtClose` | `Unmixed` |
| | `EOFIsLast` | `Spec => []EOFAfterData` | `Unmixed` |
| | `EndsRefined` | `Spec => Ends!Spec` (a refinement of `StreamEnds`) | `Unmixed` |
| | `DownloadsEndComplete` | `Spec => []DownloadComplete`, both for the client's end | nothing |
| | `UploadsLoseOne` | `Spec => []UploadLosesOne`, both for the server's end but for one chunk | nothing |
| `SessionStore_proof` | `IndexLeadsHome`, `PacketsReachOwnSession`, `DropsAreTrue` | `[]IndexSound`, `[]OwnSession`, `[]DropIsTrue` | `SessionAssumption`: types, any set of cookies |
| `ServerStreams_proof` | `OwnedConnections`, `NothingOutlives` | `[]ConnOwned`, `[]EndedIsEmpty` | nothing |
| | `WithinLimit` | `Spec => []LimitKept` | `Limit \in Nat` |
| `ClientStreams_proof` | `AnsweredOnce`, `NoStreamLost`, `GivenUpIsReset` | `[]OneReply`, `[]NoneLost`, `[]CancelledIsReset` | `SidAssumption` |
| `Resolvers_proof` | `SizeExact` | `Spec => []PendingExact` | `Finite` |
| | `LeavesFloor` | `Spec => LastActive` (an action property) | `Assumed`: `Finite`, `Grain` positive, `MaxSends` a number |
| | `PrefersActive` | `Spec => []PreferredActive` | `Listed`: `Finite`, a positive threshold |
| `Parts_proof` | `CountersExact`, `NothingLeftMapped`, `CancelledForAReason` | `[]PendingExact`, `[]QuietIsClean`, `[]CancelledInLane` | `DeferredAssumption`: positive numbers of workers, slots and tasks |
| | `BisectionExact` | `ScanSpec => []SearchExact` | sizes are integers |
| | `OptimizerPays` | `ScanSpec => []DropsPay` | `ScanAssumption`: types |
| | `CopiesApart`, `BestAreTaken` | `ChooseSpec => []PicksDistinct`, `[]BestTaken` | `ChoiceAssumption`: types, and `Cycle` is a multiple of every number of active resolvers |
| | `QueriesWorkedOnce`, `LookupsShared`, `LookupsPersist` | `ResolverSpec => []WorkedOnce`, `[]SharedLookup`, `[]FailsAfterAll` | "none" is no query, one upstream server or more |
| `App_proof` | `NothingLeftOn`, `ConnectedIsServed` | `[]OffIsOff`, `[]ReadyIsServed` | `LifecycleAssumption`: a number of taps |
| | `CleanIsSaved` | `CacheSpec => []SavedUnlessRaced` | `ShardsAssumption`: each question has its shard |

### The data plane

`InOrder` is not inductive: it says nothing of the packets that are still to arrive.
`Inv` adds four parts. `SenderInv`: every slot of `sndBuf` and every queued copy carries the
wrapped position of its chunk. `PathInv`: so does every packet under way, its chunk is young, and an
acknowledgement is for a chunk the receiver has. `ReceiverInv`: the output is a
prefix and the reorder buffer holds chunks of its window. `AgreementInv`: every chunk read is with
the receiver or still in `sndBuf`. With `WindowInv` (the buffer is finite and within the limit)
the last two give `LeadFromBuffer`: chunks beyond the receive window cannot have been acknowledged,
so the sender's lead is at most the receive window, the next chunk and the limit. The lead and the
lifetime bound the distance between the position of any packet and `rcvNxt` by half of the number
space, and `DiffFact` turns that into what the code needs: the 16-bit difference is below `Half`
exactly for chunks not yet written, and equals their true distance. Everything else follows chunk
by chunk; there is one lemma per action. `OverwrittenIsHeld` needs that the chunk which reuses a
slot is at least a whole number space younger than the one in it (`LapBehind`), while the sender's
lead is at most half of the space: the receiver has written the older one. The same lemma covers an
acknowledgement that frees a slot with a chunk a lap older than its own.

The module begins with the facts about wrapping this rests on (`AheadOfWrapped`, `WrapInjective`).
`Implementation` maps `IoRead` to the abstract `Read`, `WriteLoop` to `Write` and the rest to
stutters.

### How a stream ends

`ArqClose` has two records, one per end, that a dozen methods change in many orders, and the
properties relate the two. `ArqClose_proof` keeps these apart. `Good` says of one record that its
fields agree: what was written and what is being written is what was taken from the receive window
(`Counted`), a terminal packet that is tracked or awaited left its mark (`Marked`), and whoever sent or
deferred CLOSE_READ has nothing more to send and starts no read (`Committed`). `Link` relates one end as the sender of a
direction to the other as its receiver and to the path: no acknowledgement is under way for a chunk that
is not stored, unless the receiver has ended or given up (`Acknowledged`); until then every chunk sent is
stored there or still in `sndBuf` (`Kept`); CLOSE_READ under way was sent (`Announced`); and when it was
sent, all that it covers is stored (`Delivered`). A method never needs the peer: `Leads` says what any chain
of methods may do to a record, each method is shown to lead from a good record to a good one, and `Link`
survives whatever leads. So an action is one change that needs the peer (a chunk stored, an acknowledgement
taken, a terminal packet received) followed by methods that do not. The drain is where it matters:
`deferTerminalPacket` lets CLOSE_READ go when `sndBuf` is empty, and by `Kept` that is when the peer has
everything.

`Unmixed` says: if local connections may fail, only one of the two applications sends. Without it
`Committed` is false, and TLC finds `CompleteAtClose` violated: a client whose writer broke sends
CLOSE_READ for the side it no longer writes, and goes on to read what its application sends. Only the
client does that (`maybeInitiateClientCloseRead`), so in the other direction no assumption is
needed: `DownloadsEndComplete`. And what the server then misses is one chunk: `ioLoop` looks at
`stopLocalRead` before each read, so only the read under way when CLOSE_READ was sent returns a chunk after
it. `Covered` says what CLOSE_READ covers, everything or all but that chunk, and `Link` is about what is
covered: `UploadsLoseOne`. The runs `close_faults` and `close_both` are the two sides of `Unmixed`.

`EndsRefined` needs two more facts of each step, and `Holds`, the predicate that every action is shown to
keep, carries both (`Moved`): an end that has closed neither reads nor writes, and one that closed in good
order is not reset any more. The first follows from the guards of the loops. The second does not: a late
`WriterFail` would break a complete end, and is excluded because the handshake ends with no write in hand,
which `Counted` remembers. `Ends!Spec` speaks of steps, and evaluating it on each of them takes TLC about five
minutes with the constants of `close_faults` or `close_both`, so it is in no run; both ended without error.

### The tunnel

The status is written by the task that holds the current token, the client and the output are changed by
any task, so `LifeInv` says for each step of a task what still has to be done. The task of the current
token is a start's as long as the app shows one (`StatusTells`, `TokenTells`), so that any other task that
stops something then does so late. A client whose context holds is the one that `Stop` would cancel, or
overwritten (`ClientHeld`); one that can be cancelled is that of the start that is shown, or its start has
yet to return, or a task on its way cancels it, unless its start was ignored (`CancelHeld`); an output that
is replaced has somebody who restores it, unless interceptors were nested (`StdoutHeld`); and what is shown
is what the start with the current token has published (`Served`).

### The server's workers

Counters are compared with cardinalities, so `CountInv` says where each task is: in one channel, in the
hands of one worker, or in the list of the compaction, and only once (`Placed`). Then a counter of a worker
is what it has (`Loads`), one of a session what is in the system (`SessionsCounted`), and the list of the
compaction and the channel together never exceed the channel (`Room`), which is why putting the kept tasks back
cannot block. `LaneInv` adds the maps: a lane is mapped to the worker that has its tasks (`Mapped`), a
cancel function in `running` is that of a task begun and not ended (`LaneRunning`), and a task not begun is
not cancelled (`NotYet`). `QuietIsClean` follows: with no task left both maps are empty.

### The streams of a session

`ServerStreams_proof` holds for any number of stream ids, ingress goroutines and workers. `ConnOwned`
alone is not inductive. A worker that has attached its connection looks at the session once more and
may then go on without it, so `ConnInv` says that the connection it leaves is owned by the stream, or
closed; and it attaches only to a stream whose ARQ has not closed, which by `InstInv` nobody has begun to
take apart, and which has no connection yet, so that none is forgotten. `EndedIsEmpty` needs that the
snapshot of `closeAllStreams` misses nothing: a stream is found under its id until it is removed
(`TableInv`), so one that is missing was closed before; and the mark is set before the snapshot is
taken (`EndInv`), so no stream is made after it. `LimitKept` (`LimitInv`) needs that a table entry leads
to a stream of its own id, so that whoever removes a stream frees the id it occupies. `Limit` is the
effective limit: the code takes 2000 for a configured value that is not positive.

`ClientStreams_proof` holds for any number of connections, ids and processors. A processor holds a stream by
its id, so `Inv` says that when it looks the id up again it finds the stream it holds, or none (`ProcInv`),
which needs that an id which was handed out is in no other hands until its stream is made (`AcceptInv`). An
open stream is in the table or about to be closed (`RunInv`), which is `NoneLost`. Whoever cancelled a stream
has still to reset it (`CancelInv`). For the replies, at most one processor is between the write and the status
that records it (`LockInv`), and outside of that the status tells what was written (`Tells`); so one that
is to write a success finds nothing written, and one that is to write a failure nothing or a success (`Fits`).

### Resolvers

`Resolvers_proof` is about the state, `Parts_proof` about the choice. The size of the table is a cardinality, so each step that takes samples out
(`RemovalExact`) must take out samples that are there: the answer takes its own, the sweep takes
expired ones and then, from what is left, the evicted (`SweepTable`), and a registration counts only
when its key was not in the table. `LastActive` looks back to the test that a goroutine has
passed when it disables a resolver. `ConfirmersSpared` carries the test along: for each goroutine that
confirms, the active resolvers and those that `others` have disabled since exceed `Floor`. Each disabling
moves one from the first number to the second for all but the goroutine itself. Whoever comes to that point
must have found four (`ReportActive`), or three and a window with the million requests that
`autoDisableMinObservationsForActiveCount` then asks for; by `WindowBounded` a window holds no more
requests than were sent, so `Floor` is three if fewer are sent and two otherwise. No number of requests,
resolvers or goroutines is excluded.

`PrefersActive` needs none of this. `ListsInv` says that the list of inactive resolvers has each resolver once
and is the complement of the active ones, through every move between the lists (one lemma each way), and
`RouteInv` that a stream prefers an active resolver or none, since disabling one clears the streams that
prefer it, and a stream chooses among the active ones.

The choice is an algorithm on lists that rotates, filters and selects by score. The filter and the selection sort are
recursive functions, which the provers know only one step of; that each is defined and correct up to any
length follows from its least counterexample (`LeastOf`), as in `AmongIs` and `LowestIs`. The rotation is a
permutation because a position plus the beginning, modulo the length, returns to no other position
(`TurnIs`, `RotatedIs`). So what every strategy chooses from is a list of active resolvers without
repetitions (`RotatedIs`, `PoolIs`), and `PicksDistinct` follows by counting: an injective list is as long
as its set (`ListCounts`), so a list of all active ones has as many as are asked for, and one without the
preferred resolver one less. `BestTaken` adds the order: the selection moves the lowest scores to the
front (`LowestIs`), and either pool holds a resolver within 25 parts in a thousand of the least loss
(`PoolNear`).

### The scan and DNS

The bisection keeps a bracket (`Bracketed`): the size left of the interval passed,
the size right of it failed. If the sizes that pass are those up to some size, that size lies in the
bracket, and when the bracket is empty it is the last one that passed. Probing both ends first is
what makes the bracket exist (`Untried`, `TopFailed`).

`OptimizerPays` is about the end of the scan. What stands at a place of the sorted sizes is the least size
that enough of the resolvers do not exceed (`SmallestIs`), so the target a direction is raised to leaves no more
resolvers below it than this direction may drop (`ChosenDropFew`). Those that are kept carry the target, so
the size that is synchronized, the least of them, is the target or more (`KeptPays`); and a pool of five or
more keeps somebody, as the table allows fewer drops than it has resolvers (`LimitsAre`). A resolver that was
scanned is not scanned again, hence the judgement is about the sizes that were found.

`WorkedOnce` needs that a query which ran is remembered as whole, or that its
fragments do not come again (`RunsKnown`). `SharedLookup` needs that the in-flight manager holds
exactly the running lookups (`FlightExact`), and that a follower's leader ends only by closing its
entry (`FollowersLead`), which is so because every way out of a lookup calls `Resolve`.

`CleanIsSaved` follows a save through its two passes. The entries that are written, or will be if nothing
changes (`Promised`), are those counted so far, but for answers that came since the save began, so the number
in the header covers them (`CountCovers`); and each shard behind the second pass is in the file but for
such answers (`FileCovers`). What a load then misses is counted: the raced answers that are not in the file,
and as many entries as the header's number falls short, which are no more than the raced ones that are.

### Sessions

`SessionStore_proof` holds for any finite set of clients and any number of slots, workers and packets
under way. A slot that is found free is free because the count is that of the table. The rest is about
packets: a data packet of a client's latest payload has the session the client is on (`DataInv`), an
answer under way is one its client waits for (`AnswerInv`), and an accept names the session of its
payload, or one that has gone (`AcceptInv`). Removing a session only makes packets invalid
(`ShrinkKeeps`), and making one validates none, unless its cookie is one that a client or an accept for
the slot still carries (`KnownAre`), which its `again` records: nothing is assumed of the eight random bits.

### Only model-checked

- Every liveness property (`GapRepaired`, `BothEndsClose`, `StoppingEnds`, `Answered` and the two
  `Recovers`): the prover does not reason about `ENABLED`, which fairness needs.

Each safety property that a passing run checks is stated by a theorem above. No module declares a recursive
operator. A few use recursive functions; what the proofs need of one they show by its least counterexample,
never by an induction theorem with an operator as parameter, which no backend instantiates.

## 6. Not modelled

PROJECT.json gives the reason for each component. In short: sockets and ingress (I/O; their
reordering is the path of the ARQ models), packet formats, codecs, compression and encryption
(byte-level conversions without state), configuration, the logger, the command-line programs, the
sing-box wrapper (one mutex around a vendored engine), the app's views, stores and HTTP services.
Three parts with state remain: the multi-level queue, the dispatcher that packs control blocks, and
the ping manager. In the models that use them they serve every queued packet, and pings flow.

Inside the modelled components:

- `ArqClose`: `tryFinalizePeerResetDrain`, which finds no work because both RST handlers force the
  close, and the virtual stream 0.
- `DeferredSession`: session 0, panics in tasks and the end of the server.
- `SessionStore`: the record of recently closed sessions, which only chooses the form of an answer.
- `TunnelLifecycle`: app termination, the keeper's watchdog and the SOCKS port on display.
- `ServerStreams`: which error code answers a failure, the dialogue with an upstream SOCKS5 proxy, and
  `cleanupTerminalStreams`, which finds nothing that `finalizeAfterARQClose` has not removed.
- `ClientStreams`: the UDP relay (its queries are in `DnsCache`) and the throttling of failed
  authentication.
- `Resolvers`: the running average of latencies, and a success seeding the statistics.
- `MtuSearch`: the order in which parallel workers take resolvers, and the bytes of probes.
- `DnsCache`, `DnsResolver`: the wrap of the 16-bit sequence number, which the probes of the MTU scan
  share (`dns_listener.go:339`); `pendingTotal`, which only tests read; and an in-flight entry that
  expires under its lookup.

## 7. Plan

1. `TxQueue`: size, mask and index of the multi-level queue agree; the dispatcher serves every queued
   packet and packs control blocks without loss; the ping manager's lost wakes.
2. `ServerStreams` over `DeferredSession`, with the stream's lane in place of any idle worker, and with
   the handlers of `ArqClose` where both touch a stream's status.
3. Proofs: the safety part of the liveness properties (that whatever has to be answered is still being sent).
