# arkhon-core in TLA+

A verification development kept beside `arkhon-core`, the proxy kernel of
Teyvat-Arkhon (a Mihomo/Clash kernel in Go). The modules model the parts of the
kernel whose correctness depends on interleavings, crashes and limits. TLC
checks them on small instances; TLAPS proves the main invariants for every
value of the constants. Paths below are relative to the repository.

## 1. Inventory

Listeners (`listener/`) accept connections and packets and hand them to the
tunnel (`tunnel/`). The tunnel restores host names from fake IPs, sniffs
domains, matches rules, picks an outbound (`adapter/outbound`, through the groups
of `adapter/outboundgroup`) and relays. DNS (`dns/`) answers clients, with fake
IPs if configured, and resolves for the tunnel. `hub/executor` applies
configurations that `config/` parsed, at start and at every reload, while
everything else keeps running; `hub/route` is the REST API.

| Component | State | Operations | What is hard | What makes it correct |
| --- | --- | --- | --- | --- |
| UDP tunnel, `tunnel/tunnel.go`, `tunnel/connection.go` | worker queues, NAT table, per session a sender (channel, context, destination mapping) and an outbound `PacketConn` | `HandleUDPPacket`, `processUDP`, `handleUDPConn` with `dial`, `Send`, `Process`, `Close`, `handleUDPToLocal` | two goroutines per session and a worker share the sender; cleanup deletes by key; channels are bounded | packets have one owner and are dropped once; sessions of a client do not overlap; order; replies show the address the client used; nothing stays behind |
| NAT table, `component/nat/table.go` | key to sender and local sockets | `GetOrCreate`, `Delete`, local sockets | shared by all workers, sessions and TPROXY | an entry belongs to the live session of its key |
| TPROXY write-back, `listener/tproxy/packet.go` | sockets per client and shown address | `createOrGetLocalConn`, `WriteBack`, `Drop` | sockets live in another component's table | sockets end with the session |
| Fake-IP pool, `component/fakeip` | offset and cycle flag; two LRU caches or a bucket of the cache file | `Lookup`, `LookBack`, `FlushFakeIP`, `StoreState`, `restoreState`, `CloneFrom` | flush and clone take no mutex; several transactions per `Lookup`; crash; a reload has two pools on one bucket | a fake IP leads back to its host; no address is shared; a host keeps its address; only usable addresses are assigned; records persist |
| LRU cache, `common/lru` | list and map | `Get`, `Set`, `Delete`, `Exist`, `Clear`, `CloneTo`, `Compute` | two caches are kept in step by their user | size, recency |
| TCP tunnel, `tunnel/tunnel.go` | peeked connection, dial with retry | `handleTCPConn` | the peek goroutine shares the connection with the dial | the first bytes are sent once, deadlines are reset |
| Rule matching, `match` | rules, proxies | `match`, `Pass`, `Rematch` | metadata changes during matching | it terminates; the first match wins |
| Statistics, `tunnel/statistic` | counters, trackers | `Join`, `Leave`, push, `handle`, `ResetStatistic` | reset while pushing | every tracker leaves |
| Sniffer, `component/sniffer` | skip list; per QUIC flow a buffer | `TCPSniff`, `UDPSniff`, `quicPacketSender` | sniffing races the timeout and `Close` | `DoSniff` returns; the buffer is recycled once |
| DNS resolver, `dns/resolver.go`, `common/singleflight` | cache, flights with their channels | `ExchangeContext`, `exchangeWithoutCache`, `ipExchange`, `DoChan`, `doCall` | callers leave flights; monitors and background fetches retry | every waiter gets its result; nobody shares a message; retries end |
| URLTest group, `adapter/outboundgroup`, `common/singledo`, `adapter/provider` | selection, fast node, cached list, call and result of `Single` | `fast`, `ForceSet`, `healthCheck`, `GetProxies`, `setProxies`, `Do`, `Reset` | resets, updates and tests run during a call | a result older than a reset is not served; the cached list fits its version |
| mKCP, `transport/mkcp` | per side: window, cache, acknowledgements, connection state; sessions of the listener | `Read`, `Write`, `Close`, `Input`, `flush`, `onReceive` | loss, repetition, reordering; six states with timers; condition channels | reliable delivery; no truncation by `Close`; no lost signal; `Close` ends |
| AnyTLS client, `transport/anytls/session` | session map, idle list, streams, hooks | `CreateStream`, `OpenStream`, ends of streams and sessions, sweep, `Client.Close` | hooks run in whichever goroutine wins; several locks, none held across | a session has one user or is in the pool; no open session is idle after `Close` |
| Other groups, fetcher, `picker`, `queue`, `observable` | selection; content and hash; first result; items | `findAliveProxy`, `Update`, `Go`/`Wait`, ... | unlocked reads and writes | the first living node; the newest content |
| Other outbounds and transports | per protocol | per protocol | I/O | not modelled |
| Executor, `hub/executor` | tunnel status, resolver globals | `ApplyConfig`, `Shutdown` | runs while traffic flows | suspend, load, run in order |
| Config, API, listeners, resources, geodata, tries, process lookup, NTP, log, `clashlib` | - | parsing, I/O | - | not modelled |

`PROJECT.json` lists all of them with their status, and every hazard at its line.

## 2. Modules

| Module | Contents |
| --- | --- |
| `PacketSender` | operators: destination mapping of a session, outcomes of `preHandleMetadata`, resolve and dial |
| `UDPTunnel` | state machine of the UDP path; extends `PacketSender` |
| `UDPTunnelProofs` | theorems about the sessions of `UDPTunnel` |
| `UDPOrderProofs` | theorems about its packets: owner, order, addresses; extends `UDPTunnelProofs` |
| `LRUCache` | operators: `common/lru` without expiry |
| `FakeIPMap` | abstract specification: what every fake-IP pool promises |
| `FakeIPPool` | fake-IP pool with the memory store, over two `LRUCache`s; implements `FakeIPMap` |
| `FakeIPPoolProofs` | lemmas about `LRUCache`, theorems about `FakeIPPool`, the refinement included |
| `FakeIPStore` | fake-IP pool with the persistent store, crashes and reloads; implements `FakeIPMap` |
| `FakeIPStoreProofs` | theorems about `FakeIPStore`, the refinement included |
| `URLTest` | state machine of the url-test group over `singledo` and a provider |
| `URLTestProofs` | theorems about `URLTest` |
| `Resolver` | state machine of the resolver over `singleflight` and its cache |
| `ResolverProofs` | theorems about `Resolver` |
| `MKCP` | state machine of an mKCP conversation over an unreliable network |
| `MKCPProofs` | theorems about `MKCP` |
| `AnyTLS` | state machine of the AnyTLS client: pool, sessions, streams |
| `AnyTLSProofs` | theorems about `AnyTLS` |
| `MC*` and `.cfg` | instances for TLC |

### UDPTunnel

Packets are numbered as they arrive; a session is named after the packet whose
`GetOrCreate` made it. A variable is a piece of the code's state: `queue` is
`udpQueues`, `natTable` the NAT table, `done`/`ch`/`o2t`/`t2o` the fields of a
`packetSender`, `conn` the outbound `PacketConn`, `local` the TPROXY sockets of an
entry, and `worker`, `dialer`, `reader` are program counters of the three kinds of
goroutines. `drops` and `sent` are history.

Every step is one channel operation, map operation or blocking call. `Send` has
two steps, one per `select`; in the second any ready case may be chosen.
`Close` is `cancel` and then one step per packet `dropAll` drops. The orders of the
two cleanups are the functions `AfterDial` and `AfterRead`. A destination is
what `Metadata.String()` tells apart: a name, a real or a fake IP. A name that
resolves, and a domain the sniffer found, lead to any real address; a dial may leave a
name to the remote server, so `DstIP` may be invalid. `FakeRecordEvicted`
stands for eviction and flush in the pool. The hosts table is empty, rule matching is
success or failure of `dial`, and addresses of replies are arbitrary.

### FakeIPMap, FakeIPPool, FakeIPStore

`FakeIPMap` says: a host gets an address nobody has, keeps it until it is
forgotten, and a reload continues with a copy.

`FakeIPPool`: `op` is the `Lookup` or `LookBack` that holds the pool's mutex; its
steps are single cache operations. `offset` is read again wherever the code reads
`p.offset` again. `FlushFakeIP` has three steps and a reload four (`New`, two of
`CloneTo`, the switch in `updateDNS`). A reload may change the range: `New(r)` prepares a
pool on any range of `Ranges`, and `CloneFrom` copies the old records into it all the
same, as the code does. Ranges are intervals of numbers that need not be aligned prefixes,
so the model overlaps them in more ways than the code can. The code takes no mutex in flush and clone;
`Overlap` says which of them may run during a `Lookup`. With `Overlap = {}` they wait, and the
run shows that everything else is right; section 4 says what each overlap does. `CloneTo` shares entry objects between the pools;
no entry of a cloned cache is written in place afterwards, so values are enough.

`FakeIPStore`: `fwd`, `rev`, `saved`, `savedCycle` are the bucket; a step is a
transaction. `Crash` keeps only the bucket. `Start` and `ReloadParse` run
`restoreState`, which may delete the bucket; between `ReloadParse` and `ReloadApply`
the old pool serves from the same bucket. `Events` selects crashes, reloads and
overlap of flush, shutdown and `New` with a `Lookup`. The runs leave overlap out,
because it breaks `Consistent` (section 4); the theorem `TypeCorrect` includes it. A `Lookup` that is still
running on the old pool when the new one is switched in is not modelled, nor are failing
transactions. `kept` is history: records neither reused, flushed nor out of a
changed range. `Durable(h)` says when a record of `h` is safe: a state was stored, and no
reverse record that a crash left behind names `h`.

### URLTest

`call`, `result` are `Single.call` (named by the goroutine that leads it) and
`Single.result`; `cache` is what `GroupBase` caches; `selected`, `fastNode` are the
group's fields, written without a lock, so every access in `fast` is a step of its own
(`PickSelected`, `Scan`, `Decide`, `ReadNode`). A proxy object is a name and a
generation: an update makes new objects. `DoWait` covers the moment between `wg.Done`
and the `Lock` after it. That a result has expired is a choice: `DoWait` and `DoCall`
are enabled with any result. `resets` and `started` are history, and a value
carries the selection it was computed from. One provider, no filters; a proxy named by
`ForceSet` need not be in the list, as when the selection is restored from the cache file.

### Resolver

One question; callers of other questions share nothing but the cache's capacity
(`Evict`). A call has two exchanges, its own and the one its deferred function may start.
`flight` is the entry of `Group.m`, `res` the channel each exchange got from `DoChan`,
with at most one result. `fn` has a step for the main servers, the fallback, the cache and
the delivery. All servers of a batch are one outcome, which may be "filtered": an
answer that calls for the fallback. A question with a policy, or one for the
fallback only, behaves as with `HasFallback = FALSE`. `runs` counts how often the
closure `fn` of an exchange ran; since only a failed run is followed by another, it is
`retryNum`, and `opcode` is what `fn` puts into `Opcode`.

### MKCP

`conn` holds both ends, `net` the segments on their way. `Flush` loses any segments it
sends and any that were on the way, and a delivery may leave its segment there. Timers
are choices of `Flush`: `idle` (30 s without input), `late` (the time of a state is over),
`ackAgain`, `ping`, and which segments of the window are due. Only the control of the
send loop is kept (`MaySend`): a fresh segment is sent unless the congestion window ended
the loop before it. The listener makes a new connection for a segment without a
session; `sessions` counts them. Numbers do not wrap (2^32 segments).

### AnyTLS

`stage` follows `Session.Close` through its once, the two removals of its hook and the
streams; `ender` follows the end of a stream through its FIN, its removal and its hook.
Whoever wins a `dieOnce` runs the hook; the model makes that an activity of its own, so
that it may be late. `Insert` is separate from `dieHook`, for the session can close in
between. `lost` is history: sessions whose stream ended before `CreateStream` assigned its
hook. `reuse` is either value, chosen at the start. `idleCleanup` takes any set of idle
sessions for expired; `Expired` states the outcome of its loop, which closes an old
session exactly when it has passed `MinIdle` newer ones, for below that count every
session raises it.

## 3. Runs

| Run | Checks | Bounds | Shows |
| --- | --- | --- | --- |
| `udp_sessions` | `SingleOwner LiveIsRegistered OneConnPerKey SentInOrder LocalConnsClosed` | 2 clients on one worker, 3 packets, queue 2, channel 1, clients symmetric | ownership, order and cleanup hold in all interleavings |
| `udp_live` | `RemovedAfterClose PacketSettled ClosedLeavesTable` | 1 client, 2 packets, both inbound types, invalid metadata | progress under fairness |
| `udp_mapping` | `ReplyShowsOrigin SessionAffinity` | 2 packets to a real IP, a fake IP or a name; sniffing on | the destination mapping is sound |
| `udp_stranded` | `NeverStranded`, violated | 2 packets | `Send` against `Close` |
| `fakeip_memory` | `TypeOK LookBackFinds SameOrder KeepsPromise AssignsUsable` | 3 hosts, 2 entries, two overlapping ranges with 3 and 2 usable addresses | caches in step, refinement of `FakeIPMap`, what a `Lookup` assigns after a change of range |
| `fakeip_store` | `Consistent KeepsPromise DurableKept AssignsInRange` | 3 hosts (symmetric), two overlapping ranges with 2 and 1 usable addresses, crashes, reloads | consistency on disk, refinement, which records survive, what a `Lookup` assigns |
| `fakeip_records` | `RecordsKept`, violated | 2 hosts, one range, crashes, reloads | a reload deletes the records |
| `urltest` | `FreshResult SingleFlight SelectionTakesEffect CacheCurrent WaitsForRunning` | 2 callers (symmetric), 2 lists, tests that fail or measure, 2 resets | `Do`, `Reset` and the group's use of them |
| `resolver` | `OwnMessage NobodyForgotten RetriedOnce Quiesces` | 2 callers, 2 calls, fallback | flights, retries and background work |
| `mkcp` | `TypeOK AckedIsReceived AckKept NoTruncation NoLostSignal` | 3 segments, send buffer 1 (window 2), receive window 2, one segment on the way, 2 sessions | reliable delivery and closing |
| `mkcp_close` | `Terminates` | one segment each way, 1 session | a closed connection ends |
| `anytls` | `ExclusiveUse ClosedIsForgotten NoneLost ClosedWithClient MinimumKept` | 2 users (symmetric), 2 sessions, 1 kept idle | the pool |

Why the bounds are enough: three packets of two clients give two sessions of one
client in a row next to a session of the other, a packet in every place (queue,
worker, channel, `Process`) and both bounded channels full. Two packets suffice
for the mapping because a conflict is between two destinations of one session. In the
pools, more hosts than addresses and than cache entries force reuse, wrap-around
and eviction; of the two ranges each reserves addresses that the other hands out, or
lies partly outside it, so that a stored offset may or may not fit the new range. All
graphs are finite without further bounds: flushes, crashes,
restarts and reloads are unlimited. The bounds by name are `MaxPackets`,
`QueueCapacity`, `SenderCapacity`, `Size` and the ranges.

In `urltest` two callers give a leader and a waiter or, with a `Reset` between, two
leaders; two resets are a whole `healthCheck`, or one around a `ForceSet`. In `resolver` a
call with its background exchange next to another call gives leader, waiter, monitor and
retry in every combination; a third call adds no new role. In `mkcp` three segments
exceed both windows; the network holds one segment, which is delivered at any time, any
number of times or never, so segments are lost, repeated and arrive out of sequence, but
none overtakes another. With `NetCapacity` 2, two writes and one session the five
invariants hold too (865,408 states, three minutes); overtaking in general is left to
the theorems, which hold for every capacity. In `anytls` two sessions suffice for one to be used while the other
is idle, swept or closed; the proofs cover any number. The bounds are `MaxResets`,
`MaxCalls`, `Writes`, `NetCapacity` and `MaxSessions`. These runs allow deadlock: calls,
writes and sessions are used up.

Fairness. `udp_live`: weak fairness of each worker, of each dial/Process
goroutine and of the reader's cleanup. The Go scheduler runs every runnable
goroutine; `dial` ends by `C.DefaultUDPTimeout` and the sniffer's wait, `ResolveUDP` by the
DNS timeout. The reader's loop is not assumed to end, for traffic can keep it alive.
`PacketSettled` admits stranded packets, which `udp_stranded` shows to exist.
`resolver`: weak fairness of `fn`, which ends by `DefaultDNSTimeout`, and of each
exchange that can go on; contexts need not end. `mkcp_close`: weak fairness of the flush
whose timer is over (`TimeoutStep`, and `FlushTerminating` with `late`): `flushLoop` has a
ticker, so it runs and the time of a state passes. Nothing is assumed of the network,
of readers, writers or of the peer.

Every module has its `TypeOK` as a theorem `TypeCorrect`; two runs check it as well.

The largest graphs are those of `fakeip_store` (2.4 million states), `anytls` (1.3
million) and `fakeip_memory` (339,294); every run ends within five minutes on two workers.

Every property of a passing run has a mutant in `PROJECT.json`: the definition of an
operation with a plausible mistake (`Name_Mistake`, next to it in the module) under
which TLC finds the property violated.

## 4. Findings

`udp_stranded`: a packet put after `dropAll` is never dropped (connection.go:138).

`fakeip_records`: "Persistence will save the data to disk. Size will not work and record
will be fully stored" (pool.go:153), but the offset is stored only at shutdown. A reload, or
a restart after a crash, before the first clean shutdown finds no offset and the first
address in use, takes that for a changed range and deletes every record (pool.go:140).
TLC's trace is one `Lookup` and a reload with the same range. `DurableKept` is what the
code keeps instead.

Known weaknesses that the models have and the runs leave out, with the setting that
shows each:

- `NoFakeIPSent` of `UDPTunnel` fails with a fake IP among `Inputs`: "error was
  pre-checked" does not hold when the record goes away in between, and the packet is
  sent to the fake IP (tunnel.go:458, connection.go:83).
- `LookBackFinds` of `FakeIPPool` fails with `"flush"` or `"reload"` in `Overlap`:
  `FlushFakeIP` (pool.go:110) and `CloneFrom` (pool.go:90) take no mutex. A host
  keeps an address without a reverse record, and the next host gets the same one.
- `Consistent` of `FakeIPStore` fails in the same way with `"overlap"` in `Events`.
- A reload of the memory pool to another range copies the records of the old one
  (config.go:1526, pool.go:90): until they are evicted or flushed, `Lookup` answers
  with addresses outside the new range, or its gateway, which `IsFakeIP`
  (dns/enhancer.go:51) does not accept: the host is found, but the fake IP stays in
  `DstIP` as if it were real (tunnel.go:296).
  `AssignsUsable` therefore speaks of new addresses and excepts the switch to the copy.
- The persistent pool notices a change of range only by a stored offset that lies outside
  the new prefix (pool.go:134). With overlapping ranges, or with no stored offset and a
  first address that is free, the records of the old range stay. A stored offset that lies
  among the reserved addresses of the new range is taken over, and the next `Lookup`
  hands out its gateway or another reserved address. `AssignsInRange` therefore says
  less than `AssignsUsable`.
- After a crash between `PutByIP` and `PutByHost` a reverse record names a host that has
  no such address (pool.go:53). If the host gets another one and the first is reused,
  `DelByIP` deletes the host's new record. `Durable` excludes these hosts.
- After a crash the offset is stale (pool.go:119), and the next `Lookup`s take addresses
  from the hosts that got them last. `FakeIPMap` lets a pool forget a host, so
  `KeepsPromise` admits it.
- The send window of mKCP grows one segment beyond the buffer size (`<=` in conn.go:182);
  `TypeOK` of `MKCP` has the bound that the code has.
- AnyTLS: a FIN between `OpenStream` and the assignment of the hook leaves the session
  open and unused (`lost`, which `NoneLost` excepts; client.go:90), and a session that closes between the hook's
  test and its insertion is put into the idle list closed (client.go:105).
- mKCP: `PeerClosed` has no timer (conn.go:379); a late segment makes a new session
  (listener.go:108).
- `fast` takes a fast node in first place as gone (urltest.go:122), and finds it by name,
  so that after an update it may go on with an object of the old list (urltest.go:123).

Hazards seen while reading, outside the models: `failedTimes` and `failedTesting` of
`GroupBase` are not guarded (groupbase.go:320); `findAliveProxy` passes over living
proxies before a dead selection (fallback.go:117); mKCP compares numbers without regard
to their wrap (conn.go:411), and its listener waits for `Accept` with its mutex held
(listener.go:119); `Picker.cancel` is used without a lock (picker.go:71); `LookupIP` drops
the error of the A query (resolver.go:99); a SYNACK stops the timer of the newest
AnyTLS stream (session.go:228); `Rematch` restarts rule matching (tunnel.go:658).

## 5. Proofs

Checked by TLAPS, for all values of the constants that satisfy the named assumptions
(`AddressAssumption`, `TunnelAssumption`, `PoolAssumption`, `StoreAssumption`,
`GroupAssumption`, `ResolverAssumption`, `MKCPAssumption`, `AnyTLSAssumption`: disjoint
kinds of addresses, positive capacities, ranges with a usable address, model values that
are none of the data). Every safety property that a run checks is a theorem. Where a
theorem has a hypothesis, the property is false without it (section 4) or the runs and
the theorem share it.

`UDPTunnelProofs`
- `TypeCorrect`: `Spec => []TypeOK`. One lemma per goroutine, one step per action.
- `SessionsCorrect`: `Spec => [](TypeOK /\ SessionsInv)`. `LiveIsRegistered` is not
  inductive: that a session's `Delete` hits its own entry depends on the other goroutine
  of the session having no cleanup ahead of it. `SessionInv` adds this (the dialer
  cleans up only if there is no reader) and the order in which things are closed:
  cancelled before drained, connection closed before sockets, sockets before the entry.
  A step of session `s` leaves every other session's part alone (`Frame`), and a
  `Delete` of `s` cannot remove the entry of another live session, for both would be
  registered under one key.
- `Registered`, `OneConn`, `LocalsClosed` follow from it, and `RemovedClosed`, an
  action property, from it and the steps.

`UDPOrderProofs`
- `RouteInv`: a client belongs to one worker, which has its packets in the order of their
  arrival; whoever looks up a session has its key, and a session is older than what its
  worker has still to look up, so that whoever creates one finds it untouched. The other
  invariants rest on it and on `SessionsInv`. Each
  action is first shown to be one of a few moves of one session (`SessionMove`: it
  rests, drains, receives or finishes a packet) or of one worker, so that the invariants
  are shown for moves and not for actions.
- `Owner` (`SingleOwner`): `OwnInv` names the one place a packet is in until `Drop`
  (`Fate`), which says more than the number of its owners does.
- `SentOrdered` (`SentInOrder`): `OrderInv` orders everything on its way: channels and
  queues increase, what a session holds is older than what its worker has ahead, and
  what was written is older than what the session that may still write holds. That no
  second session of the client writes at the same time is `SessionsInv`.
- `ReplyOrigin` and `Affinity` from `MappingInv`: the two directions of the mapping fit
  each other, and every packet written went where the mapping of its session says.

`FakeIPStoreProofs`
- `TypeCorrect`, strengthened by `OffsetInv`: the offset lies in its pool's prefix.
- `RecordsConsistent`: without overlap, `Consistent` always holds. It is made
  inductive by `LookupInv`, an auxiliary of the proof: before a `Lookup` writes an address,
  no host has it (because `DelByIP` removed its host in the same transaction, or there was
  none) and its own host has none. A crash forgets `op` and
  so only weakens what has to hold.
- `ImplementsPromise`: without overlap, `Spec => KeepsPromise`, the refinement of
  `FakeIPMap` with `rec <- fwd`. `DelByIP` is a `Forget`, `PutByHost` an `Assign`, deleting
  the bucket a `Forget` of all hosts, everything else a stutter.
- `DurableRecordsKept`: without overlap, `DurableKept`, with crashes and reloads, for any
  ranges. It needs `StoreInv` and `SavedInv`: a stored offset lies in the prefix of the pool that
  serves and of the one a reload has created, for `New` flushes the bucket otherwise, so
  that a restart or a reload with the same range never flushes.
- `AssignsInsideRange`: `AssignsInRange` with every event, overlap included, and any
  ranges. From any offset of the prefix `get` moves at least one above the network address and
  wraps before the broadcast address; `InsideInv` carries this through the `Lookup`.

`FakeIPPoolProofs`
- Lemmas on `LRUCache`: what `Touch`, `Set`, `Without` and eviction do to the records and
  to the order of a sequence with distinct keys (`Keyed`), and that an operation on one
  cache followed by its counterpart on the other keeps the two mirror images (`Mirror`).
- `TypeCorrect`, for every `Overlap`.
- `OrderKept`, `LookBackUndoes` and `ImplementsPromise` with `Overlap = {}`, for any ranges
  before and after a reload, from `QuietInv`. During a `Lookup` the caches are not mirror images:
  `OpOrder` says, for each of its steps, which operations are still missing on which
  cache for them to be, and `OpFresh` that the address in hand has no host;
  `FlushOrder` and `ReloadOrder` do so for `FlushFakeIP` and `CloneTo`. The two caches evict
  the same record because their fronts are the same record. In the refinement, an
  eviction is the `Forget` of a host within the `Assign` of another.
- `AssignsUsableAddresses`: `AssignsUsable` unless a flush overlaps a `Lookup`; a reload
  may. `UsableInv` says that between `Advance` and `PutByHost` the offset, and then the
  address in hand, is usable in the range of the serving pool.

`URLTestProofs`
- `TypeCorrect`, strengthened by what is needed for the types of `fast`: the list of a
  running function is not empty (`proxies[0]`), and a value exists once it is decided.
- `Fresh`, `OneFlight`, `NoLostWakeup`, `SelectionHolds` from `SingleInv`. The heart is
  `CallInv`: a call that began after the last `Reset` and has not reached `wg.Done` is
  the current one, so whatever `Store` writes is as young as the last `Reset`. `AgeInv`
  orders the beginnings of `Do`, of calls and of values; `SelectionInv` says that what
  is that young has read the present selection, provided that no `ForceSet` is half done.
  Steps inside the function change none of this (`FnStep`).
- `CacheIsCurrent` from `VersionInv`: versions only grow, so a list read later than its
  version cannot be cached under the present version and be an old one.

`ResolverProofs`
- `NoLostWaiter` is inductive with the types. `AtMostOneRetry` needs `RunsInv`: whoever
  still waits has run at most once, and nobody waits for a retry. `SoleOwner` needs
  `MessageInv`: a message is known to its flight, then to its channels, then to callers,
  and a flight without `dups` has one channel. `ResolverInv` is their conjunction.

`AnyTLSProofs`
- `PoolInv`, the conjunction of the types with `Made` (what is referred to has been
  dialled), `Refs` (a stream in a session's map, or in the hands of `recvLoop`, belongs to
  a caller that has it), `UseInv` (`ExclusiveUse` and `NoneLost`, which need each other: a
  session that is put back had one holder), `Reachable` (a session whose streams are being closed
  is out of the map, and an open stream is in its session's map or in the hands of
  `recvLoop`) and `LateSessions` (until `Client.Close` takes the map every open session is
  in it; one that it did not take was dialled after `die`, and no hook puts it into the
  idle list). The five theorems follow.
- `MinimumIsKept`, an action property: whatever is newer than the newest session that the
  sweep takes stays, and that is `MinIdle` sessions.

`MKCPProofs`
- `TypeInv`: each connection is well formed (`WindowInv`, `RecvInv`: the windows lie in
  their limits and hold only numbers that were used), and `SignalInv`, which is
  `NoLostSignal`; `TypeCorrect` and `SignalsKept` follow.
- `TalkInv`, for as long as there was no second session, relates the two ends and the
  network. `LinkInv` of a sender and a receiver: what was sent is in the window or was
  received, what the receiver has and the window holds is in its `ackList`, and the
  receiver is never ahead of the sender. `EndInv` of the same two: who has been told of
  the end has all that was written, unless it left or the other gave up. They are inductive only with `SegInv` of every
  segment on its way: its acknowledgements are true, its `sendingNext` is no more than the
  `firstUnacked` and its `receivingNext` no more than the `recvNext` of its sender, and it
  says that its sender closed or ended only if that is so. All of these are claims that a later
  state of the sender never takes back, so that repetition, reordering and delay do no
  harm. `AckedReceived`, `AcksKept` and `NothingTruncated` follow.
- A step changes one end. `SideStep` says what it may change there, and one lemma shows
  that every such change keeps `TalkInv`; `Input` and `flush` are shown to be such changes.
  A server that does not exist yet counts as a fresh connection (`View`).

Only model-checked: liveness (`PacketSettled`, `ClosedLeavesTable`, `Quiesces`,
`Terminates`), which is out of the prover's reach. `NeverStranded` is refuted by its run.
The theorems say nothing of a `Lookup` with an overlapping flush, reload or shutdown
beyond its types, and nothing of data in mKCP after a late segment made a second session:
there the properties fail, or have no meaning.

## 6. Plan

Done: the UDP tunnel with the NAT table and TPROXY sockets; the fake-IP pool
with both stores; the url-test group with `singledo`; the resolver with
`singleflight`; mKCP; the AnyTLS client; every safety property of their runs as a
theorem. Next, in this order:

1. `QUICSender`: the sniffing sender in front of `packetSender`; `DoSniff` returns,
   the buffer is recycled once. Composition with `UDPTunnel`.
2. `TCPTunnel`: handshake, peek goroutine, retry. `RuleMatch`: `Pass`, `Rematch`.
3. `Fetcher` and the health check of providers, in front of `URLTest`.
4. Composition of `UDPTunnel` with `FakeIPPool`: reassigned addresses in a session.

## 7. Not modelled

Protocol codecs, the other transports, sockets, TLS, YAML parsing, the REST handlers,
geodata, tries, process lookup, logging and vendored code: I/O, pure data or
third-party. In the modelled parts: the lock of TPROXY sockets (one reader per
client, so nobody waits), the sniffer's parsing, LRU expiry, failing bucket
transactions, a cache file that cannot be opened; filters and several providers of a
group, the failure counter of dials; the individual servers of a DNS batch; RTT and
congestion control of mKCP and the listener's accept channel; payload, padding and
the server side of AnyTLS.
