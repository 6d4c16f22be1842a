# ObsidianVPN in TLA+

Specifications of the concurrent core of ObsidianVPN, the TLC models that check
them on small instances, and TLAPS proofs of the results that hold for every
size. `PROJECT.json` is the machine-readable index: components, runs, the map
from definitions to source lines, hazards, findings and theorems.

    tlc -workers 2 -config MCTunRouter.cfg MCTunRouter     # one run
    tlapm TunRouterProofs.tla                              # one proof module

## 1. The system

A client reads IP packets from a TUN device and carries them to a server over
two paths at once: a TCP (TLS-wrapped) *tunnel*, which also carries the
handshake, and a UDP *data channel* derived from the same handshake. The server
writes the packets to its own TUN device and routes what comes back to the
client that owns the destination address.

| Part | Code | State | Operations |
|---|---|---|---|
| Anti-replay window | `obsidian/udp.go` `replayWindow` | highest counter, ring of bits | `Check` |
| Server UDP mux | `obsidian/udp.go` `UDPMux`, `UDPServerSession` | table of tags, MRU pointer, client address and socket, counters, `dataIn`, `closed` | `RegisterSession`, `runOnConn`, `Send`, `RecvDataInto`, `Close`, `UnregisterSession` |
| Rekeying | `RatchetEpoch` of both channel types | tag, previous tag, header keys, AEADs, epoch | ratchet against send and receive |
| Server router | `cmd/server/tun_router.go` `tunRouter` | `byIP`, `sessions`, each session's `ips` | register, `learnFromClientPacket`, `sessionForPacket`, `enqueue`, `Close` |
| Downlink queue | same file, `routedSession` | two lanes, pooled buffers, `done` | `enqueue`, `writeLoop`, `drain` |
| Admission | `cmd/server/main.go` `handleClient`, `revocation.go`, `obsidian/ip_rate_limiter.go` | limiter slots, buckets, replay cache, revoked keys and their file | from `Accept` to a session or a close, many at once |
| TCP tunnel | `obsidian/obfuscation.go` `Tunnel`, `protocol.go` `StreamFramer` | frame counters, queue, packet and byte counts, context | `SendData`, noise and keepalive loops, `recvLoop`, `Close` |
| Client session | `obsidian/client/engine.go` `Session` | connection, `netChangeCh`, `netChanged`, context | `Start`, `runConnection`, `Stop`, `NetworkChanged` |
| Client UDP monitor | same file, the monitor goroutine of `runConnection`, `DecideUDPHealth`, `copyTunToData` | `udpActive`, pending mark, last receipt, failure count | tick, probe, failover, hop |
| REALITY, handshake, transports | `obsidian/reality.go`, `handshake.go`, `transport.go` | the connection under inspection, bytes read ahead, session-id cache | `Accept`, inspection, answer or relay to the masking site, hello scan and verdict |
| Packet surgery | `cmd/server/mss.go`, `obsidian/ipv6_reject.go`, `v6_sink.go` | client MTU, reject tokens | MSS rewriting, splitting, fragmenting, IPv6 rejects |
| Client command | `cmd/client/main.go`, `obsidian/tun/tun_linux.go` | device, sessions' goroutines and `errCh`, signals | open, session loop, shutdown |
| Routes and DNS | `obsidian/tun/routemgr.go`, `plan.go`, `dns_linux.go` | routing table, resolved hosts, `resolv.conf` and its backup | plan, refresh, apply, restore, close |
| Bindings | `pkg/mobile/mobile.go`, `bindings/c` | session registry, file descriptor | start, stop, network change |

What makes it hard: several UDP listeners and a writer share a session with
atomics and two locks; the router's reader uses a session after the lock is
released; the tunnel's frames carry *implicit* counters, so any disagreement on
order is fatal; the client's TUN reader cannot be interrupted and outlives its
connection; two paths carry data while a monitor moves traffic between them on
the strength of timers; replay caches forget while hellos are still fresh; and
the client changes a machine's routes and DNS one command at a time, and may die
between any two. `PROJECT.json` lists each hazard at its line.

## 2. Modules

| Module | Models | Proofs |
|---|---|---|
| `AntiReplay` | what an anti-replay check promises: accept a counter iff it is new and in the window | |
| `ReplayWindow` | `replayWindow.Check`, bit ring and all; implements `AntiReplay` | `UdpChannelProofs` |
| `UdpMux` | the server's listeners, sessions, relay and writer | `UdpMuxProofs` |
| `UdpRekey` | `RatchetEpoch` on both sides against traffic and `Close` | `UdpChannelProofs` |
| `TunRouter` | the routing table, the TUN reader and the sessions' writers | `TunRouterProofs` |
| `RoutedSession` | the two lanes of one session in detail | `TunRouterProofs` |
| `Tunnel` | both ends of a TCP tunnel with the byte stream between them | `TunnelProofs` |
| `ClientSession` | `Start`'s reconnect loop, watchers, stale readers | `ClientSessionProofs` |
| `UdpHealth` | the client's monitor and the network it judges | |
| `TokenBucket` | what a rate limiter promises: a bucket per address | |
| `IPRateLimiter` | `Allow` with its table, lazy refill and sweep; implements `TokenBucket` | `AdmissionProofs` |
| `Revocation` | `revocationStore`, the file it reads and the key server that writes it | |
| `Admission` | composes the two with the REALITY demuxer and `handleClient` | `AdmissionProofs`, `HelloProofs` |
| `RouteManager` | `planRoutes`, `routeManager` and the kernel's table | |
| `ResolvConf` | `applyDNSLinux` and its restore function, file operation by file operation | |
| `ClientHost` | composes the two with the client's `main`, its sessions and its death | `ClientHostProofs` |
| `Packets` | what the server computes on packets, and the scan for a hello | |

Each `MC` module fixes the constants that a `.cfg` cannot express, the
symmetry sets and state constraints. Operators whose comment begins with
"Mutant:", or says what a different code would do, are deliberately wrong forms
of the definition that follows them. Replacing the definition by
its mutant makes TLC report the property that `PROJECT.json` pairs with it,
which shows that the property depends on that line of the code.

How steps correspond to code. A critical section under one mutex, or one atomic
load or store, is one action; everything a handler does in between is kept in
its order through a program counter. Time in `UdpHealth` is an age per
timestamp, saturating above the largest threshold. Cryptography is ideal: a
datagram opens under exactly the key it was sealed with, a header unmasks under
exactly its header key, and tags are distinct.

- `ReplayWindow`: `maxSeq` and `bitmap` are the struct; `Seqs` the counters that
  can arrive. `handed` and `verdict` are history variables.
- `TunRouter`: `byIP`, `sessions` and `ips` are the router's maps; `reader` is the
  TUN loop between its lookups and its enqueue. The writer of a session is
  reduced to taking packets until `done`.
- `RoutedSession`: the lanes hold named buffers, so that each can be followed
  from the pool to the writer and back. Being sent or dropped for age is the
  same to a lane.
- `UdpMux`: each listener has a program counter through `runOnConn`: MRU or table
  lookup, decrypt, replay check, address and socket stores, `closed` check, queue
  or echo. Datagrams stay in the network, so they can be reordered and
  duplicated; never delivering one is losing it.
- `UdpRekey`: one client, one server session. `RatchetEpoch` is split
  where it changes locks, `Close` with `UnregisterSession` also at each use of the MRU
  pointer. In this repository only tests call it
  (`obsidian/crypto_test.go:239`), so what is said of it is about a mechanism
  that is ready for use and not yet used.
- `UdpHealth`: the path is up, down or without a route; `LossRun` bounds
  consecutive lost probes on a path that is up. Whether the host sends all the
  time, and whether there is a port pool, is chosen at the start.
- `ClientSession`: dialling and the handshake succeed or fail; a TLS handshake (option
  `tls`) is a step of its own, which need not happen. The TUN device yields packets
  at any time. The configuration is chosen at the start; its
  field `prompt` states whether a goroutine reaches its `select` before the
  session dials again.
- `Tunnel`: a stream of whole and cut frames in each direction, the framers'
  counters, a data and a noise writer per end. `Close` drains the queue packet by
  packet while the consumer may still take some.
- `IPRateLimiter`: tokens are counted in ticks' worth, so refilling needs no
  fractions. The clock is read just before the lock; both are one step.
- `Revocation`: times are half seconds, so that `Truncate(time.Second)` loses
  something. The file is missing, does not parse, or lists keys.
- `Admission`: each connection has a program counter through `processIncoming` or
  `handleClient`, and its bytes are two or three items. Peers are our client (whose
  clock may be ahead), somebody who sends a client's bytes again, a browser, or
  neither. `Acquire` is a load and a compare-and-swap. `mode` chooses the listener.
- `RouteManager`, `ResolvConf`, `ClientHost`: one action per command or file
  operation; writing a file empties it first, and the write may then fail. `table`,
  `conf` and `backup` survive the process. `lost` records that a backup was cut short
  or could not be read. `opt` holds the configuration and the machine. `job` is a refresh
  under way, `once` the one `Close` that two goroutines may call.
- `Packets`: a byte is a digit of base 4, headers are one or two units long, and
  sequence numbers wrap at 32. One operation happens at a time, and `last` keeps
  its input and result for the properties; the state that lasts is the client's
  MTU, the limiter's tokens and whether the server rewrites packets at all.

## 3. Runs and bounds

| Run | Question | Bounds, and why they are enough |
|---|---|---|
| `replay_window` | is the ring exact, does it implement the abstract check | window 4, counters 0..11: three turns of the ring, so each slot is reused and every jump (inside, exactly, beyond the window) occurs |
| `tun_router` | takeovers correct, packets not misrouted, a closed session ends | 2 sessions (owner and challenger), 2 addresses, queue 1; the safety properties are proved for any number |
| `routed_session` | buffers accounted, bulk not passed over, the loop ends | 4 buffers and 2 producers that never stop; lanes of 1 and 2, batch 2, burst 2, so that each lane is full while the other is served |
| `udp_mux` | delivered once, address authenticated, nonce unique | 1 session (sessions share only the table and the MRU pointer), 2 listeners, 2 addresses, 2 counters each way, queue 1 |
| `udp_rekey` | nonces, single delivery, previous epoch opens | 2 ratchets (a third repeats the second), 2 datagrams in one of the directions, which share no key or counter |
| `udp_health` | no failover on a working path, a dead path is noticed, UDP returns | the code's thresholds in seconds (2.5 rounded up to 3); echoes within a second; every other probe may be lost; the keepalive comes every 10 s instead of 16, still later than the dead time of 8; 2 errors instead of 15 |
| `client_session` | clean end, stale reader, Stop, network change | 2 connections, so that every pair of old and new meets; reconnecting over UDP, reconnecting over TCP with TLS, and a single TCP connection with TLS |
| `tunnel` | payloads in order, counters, expiry, both ends close | 3 frames of either kind from one end against a queue of 2, so that a drain and a consumer can share a full queue; limit 3, looked at on every 2nd packet. The proofs cover traffic both ways |
| `admission` | slots exact, a hello opens one session, revoked keys refused, no byte lost, every connection decided, the limiter implements a token bucket | 2 connections for 1 slot; the hello's window is 1 tick either way, the caches keep it 2 and 4 ticks as in the code's proportion (30 s, 60 s, 120 s), purging at every entry. Either 2 ticks of time (3 at a preface listener, where the sweep then drops an idle entry of the limiter), or one rewrite of the revocation file: the file matters only to the check of one key |
| `client_host` | the server stays reachable, routes and DNS are put back, shutdown ends, no goroutine stays behind | 2 processes after one another, each killed or closed at any step; 1 refresh after the first; a host that is unknown, has an address or moves to the server's; 14 configurations (`MCOptions`), each with what its subject needs |
| `packets` | checksums, pieces, rejects, the scan | exhaustive over the scaled inputs: odd and even MSS offsets, payloads to more than twice the MTU, wrap of sequence number and id, fragments of fragments, every flag set, every kind of address at either end; a scan limit that the shortest train of two junk packets meets exactly, and a payload limit that is met and passed |

Runs that allow an end of the system (a closed session, a finished tunnel, a
process that is not started again) turn deadlock checking off; `replay_window`
and `packets` leave it on.

One run is expected to find a violation: `udp_health_hop`. Hopping sets a
destination on a connected socket, so every later UDP write fails, while
`udp.go:327` says that "SetRemotePort updates the active destination port".

Five more sentences of the repository are stated in the modules and refuted by
them; no run of the project lists them, but adding one as an `INVARIANT` to
its module's `.cfg` makes TLC print the behaviour.

- `SeamlessRatchet` (`UdpRekey`): a ratchet changes keys in two critical sections,
  and a receiver between them drops a good datagram ("seamlessly", `udp.go:343`,
  and `crypto.go:377`).
- `OnlyTransitionTag` (`UdpRekey`): tags older than the transition window are never
  removed ("preserving old tag for transition window", `udp.go:707`).
- `CallsApply` (`ClientSession`): a `NetworkChanged` call made before a connection
  exists is discarded ("calls made before a connection exists apply to it",
  `engine.go:290`).
- `StaticDenyApplies` (`Admission`, with `StaticKeys = {k1}`): a revocation file that
  does not parse when the server starts makes `newRevocationStore` return an error
  that `main.go:165` drops, and a nil store revokes nothing, the static list
  included ("applies a static deny list", `revocation.go:14`). `RevokedRefused` is
  therefore about servers that have a store.
- `OnlyAnswerable` (`Packets`): a packet to the unspecified address is answered, since
  `ipv6_reject.go:47` refuses multicast destinations only ("multicast or unspecified
  destinations/sources", `ipv6_reject.go:18`). `RejectsEnd` is about the rest of that
  list.

What reading and modelling showed besides, without a property of its own:

- The handshake limiter's slot is held for the whole session, while
  `obfuscation.go:210` speaks of concurrent handshakes.
- The default junk train can be longer than the 4096 bytes the server scans
  (`handshake.go:179`); that handshake fails and the client dials again.
- The route of an address that could not be added through the gateway is only
  logged, and the default routes into the TUN are added all the same
  (`routemgr.go:224`); `ServerBypassed` excepts routes the system refused.
- An excluded prefix equal to the DNS server's address is planned through the
  gateway and through the TUN (`plan.go:110`); the kernel refuses the second.
- A signal that arrives while the device is being opened kills the client without
  clean-up, since `signal.Notify` comes later (`main.go:145`); gateway routes left
  by a killed process are never removed; a symlinked `resolv.conf` becomes a file
  after a crash. `RoutesRemoved` and `DnsRestored` say what is promised in spite of
  these.
- A first backup that a death or a full disk cuts short is kept by the next run, which
  takes it for the original; one that cannot be read is replaced by what is in
  resolv.conf. "The backup holds the real original" (`dns_linux.go:55`) does not hold
  then. A restore that fails leaves the backup, and a later run uses it.
- The TLS handshake of a dial has no deadline (`transport.go:370`), and `Stop` closes
  nothing that it reads; `StopEnds` assumes that such handshakes end.
- The demuxer sets its deadline of 5 s again before each read, so a peer that sends
  little by little holds up those behind it for longer; `EveryConnectionDecided` says
  only that each is decided in the end.
- The hello cache is keyed by all bytes of a hello, padding included, which nothing
  authenticates; `OneSessionPerHello` is about copies that are the same byte for byte.

## 4. Fairness

Go's scheduler runs every runnable goroutine, so steps of started goroutines get
weak fairness. One `select` case gets strong fairness, because Go chooses among
ready cases at random and so does not pass over one for ever: `done` in
`writeLoop`. Calls by the user, arriving packets and network
failures are never fair.

- `TunRouter`, `RoutedSession`: `writeLoop` runs, and a started `Close` finishes (it
  waits only for the router's mutex, which nobody holds across a blocking call).
  A send by `writeLoop` returns, because `handleClient`'s deferred calls close the
  route, the UDP session and the tunnel, and with it the connection that a
  blocked send waits on.
- `UdpHealth`: time passes, the monitor and `copyTunToData` run, and an echo that
  the network has not lost arrives.
- `ClientSession`: `Start` and the watchers run; dialling and our handshake end
  by their timeouts. A TLS handshake has none and is not forced: `StopEnds` has its
  end as a premise. A tunnel notices that its connection is closed. The TUN
  readers need no fairness. `ChangeDropsConnection` is about prompt goroutines.
  The processes take finitely many steps each (connections are bounded), so one
  weak fairness condition on all of them is enough.
- `Tunnel`: a write ends (by its timeout at the latest), the loops run, the consumer
  takes packets until the context is done, the owner reacts to `Done`; again one
  condition for all of them.
- `Admission`: whoever holds a connection runs, and read deadlines fire, so a
  reader may always fail. Peers and the masking site owe nothing; the site's dial
  ends by its timeout. A session's end and the preface, which has no deadline, are
  not forced: hence `EveryConnectionDecided` is about REALITY listeners.
- `ClientHost`: goroutines run, and lookups and commands return. Packets, signals,
  kills and new dials are not forced, nor is the end of a `Read` on the device, whose
  descriptor blocks: closing it does not wake the reader. As the process takes finitely many of the
  fair steps, one condition for all of them is enough.

## 5. Proofs

Proved by TLAPS for every value of the constants that satisfies the `ASSUME`s
in the component modules: sizes are positive naturals, bounds are naturals, the
special values are not members of the sets they mark, the pool of buffers and the
set of connections are finite. The few assumptions that say more are named below.
The bounds of the models (`MaxEpoch`, `MaxSent`, `MaxConn`, the starts of a client)
are constants too, so a theorem holds for each of them.

- **Replay window** (`UdpChannelProofs`). `WindowExact` with the types and
  `AtMostOnce` is inductive. It says three things that need each other: the bits
  of the window are exact, no accepted counter exceeds `maxSeq`, and `maxSeq` is
  accepted unless it is 0. The argument is the lemma that two counters less than a
  window apart have different slots: clearing the slots of the counters jumped
  over then disturbs no bit that still matters. The refinement of `AntiReplay`
  follows step by step.
- **Rekeying** (`UdpChannelProofs`). `NonceOncePerKey` rests on the counter alone:
  what a side has sent bears distinct counters, in whichever epoch, and a pending
  `Send` owns its own (`CountersInv`). `DeliveredOnceAcrossEpochs`: a counter opened
  is in the one window that both epochs' keys share (`WindowInv`).
  `PreviousEpochStillOpens` needs the shape of the keys (`KeysInv`) at each step of `RatchetEpoch`: which of `hp`, tag, receive
  and send keys are already those of the next epoch, the previous ones exactly one
  behind, and the server's table holding both tags.
- **Router** (`TunRouterProofs`). The invariant joins `RoutesExact` and
  `LatestTalkerOwns` with what they rest on: a session never registered has left no
  trace and a removed one is not in the table (`Lifecycle`), what the reader may
  hold (`ReaderHolds`, `Leftover`), and that a packet looked up before a removal is
  the only late one (`LateReads`). `NeverMisrouted` is an action property proved
  from it.
- **Downlink queue** (`TunRouterProofs`). `BulkNotStarved` and `PrioNotHeldUp`
  bound how often a waiting lane is passed over. They become inductive once tied to
  the counter the code keeps: latency sends ahead of waiting bulk packets are at most
  `prioRun` (`PrioCounted`), and a bulk packet that went ahead left `prioRun` at 0, so
  the latency lane is served next (`BulkCounted`). `BuffersAccounted` needs more than
  a count: every buffer is at one place only (`OnePlace`), in the pool, in one
  producer's hand, once in one lane or once in the batch; the cardinalities follow.
- **Tunnel** (`TunnelProofs`). `InOrder` follows the packets of one direction:
  `sendMu` has one holder and the framer's counter counts the packets begun
  (`SenderInv`), the frames on the wire bear the counters that the receiver expects
  next (`WireInv`), and what has left the queue, what is queued and what is in hand
  follow one another (`QueueInv`). What has left it is shared between the consumer
  and the drain of `Close` without overlap, each in order (`Shared`). A failed write breaks the stream for good, and
  only then may a frame be refused (`CountersInStep`). `ExpiryNotMissed` holds because
  whoever increments `packetCount` to a look past the limit sees that value.
- **Client session** (`ClientSessionProofs`). `OverIsOver` needs to know, for each
  place of `Start`'s loop, which connection may be open and which watcher is still
  armed (`LoopInv`, `EndInv`); `StaleReaderBounded` counts a reader's losses against
  its `fails` (`ReaderInv`).
- **UDP path** (`ClientSessionProofs`). `NoFalseAlarm` is a theorem under the
  inequality between the timers that it needs, `ProbeAfter + (LossRun + 1) *
  TickPeriod <= DeadAfter`: 2.5 s + 2 * 2 s against 8 s in the code, which so
  tolerates one lost probe and not two. The invariant follows the age of an
  unanswered mark: at the tick after n lost probes it is below `Due(n)`, and an echo
  is on its way only between two ticks (`SteadyPath`). `DeadPathNoticed` needs no
  such inequality. Its invariant bounds the age of unanswered data in each situation
  of the mark (`BlindBound`): unanswered, answered but not yet cleared by the monitor,
  or missing until the next datagram sets it. Both use that the monitor's loads may
  be out of date in one direction only (`HealthShapes`).
- **Rate limiter** (`AdmissionProofs`). `LimiterIsTokenBucket` is a refinement:
  the bucket of an address is what its entry would hold if it were looked up now,
  and a full one if there is no entry. A tick then fills every bucket although
  nothing is written, and a request changes only the bucket asked. The sweep is
  invisible because an entry it drops has earned a full bucket (`IdleIsFull`),
  which needs the assumption that `EntryTTL` at the configured rate is worth a burst.
  The defaults satisfy it (10 s at 50/s against 30); a configured rate below a
  tenth of the burst does not, and then the sweep gives requests away.
  `AdmissionRateLimited` is the same refinement for the limiter inside the server:
  every step of `Admission` is a step of the limiter or leaves it alone
  (`LimiterInside`).
- **Admission** (`AdmissionProofs`, `HelloProofs`). The actions are first summed up
  in a few kinds of step (lemma `StepKinds`). `SlotsExact` then
  needs the shape of the listener's queue (`Basic`) and says that the counter equals
  the holders at every step of `Acquire`'s load and swap. `RevokedRefused` rests on
  `AlwaysDue`: the file's time is always later than the one remembered, because the
  store remembers whole seconds, so every lookup reads the file again. A file time
  has a fraction in the model; one that is a whole second is the case left out.
  `OneSessionPerHello` rests on what a connection can bear, its own hello or a copy
  of a client's that is not stamped too far ahead (`Bears`), and on `Once`: a hello
  past the cache is remembered there until it is too old to be accepted, and of two
  connections past the cache with one hello at most one passed the checks. The assumption needed is that
  the clock skew plus the time window stays below the cache's lifetime; in the code
  30 s plus the client's skew against 120 s. `StreamIntact` splits what was taken from
  the socket into what was consumed and what the demuxer still holds, at every place
  a connection can be (`StreamAt`), with the bytes of each part in order (`InOrder`).
- **UDP mux** (`UdpMuxProofs`), for any sessions, listeners, addresses and
  datagrams, where the run has one session. `DeliveredOnce`: an accepted counter is with one
  listener between the replay window and the queue, or was queued once
  (`OneCarrier`). `AddressAuthentic`: what a listener is about to store is already
  recorded as adopted, and a counter adopted is one the window has seen
  (`Adopting`). `NonceUnique`: a counter below `sendCtr` is with one `Send` that has
  not written it, or was written once (`OneNonce`). The order of table, MRU and
  `Close` plays no part, so stale lookups cannot break any of the three.

- **Client host** (`ClientHostProofs`), for any number of processes, each of which
  may be killed at any step and may fail in any write. `RoutesRemoved`: the table holds what the process found
  and what `applied` lists (`Routes`), and once the refresher is gone nothing is added
  behind the closer's back; which states of `main`, the closer, the refresher and DNS
  go together is `Phases`. `DnsRestored` rests on `Backups`: a backup, if there is
  one, is the original text, without one resolv.conf still has it, and from the
  backup on the restore function holds it, so the text is always in one of the two
  files. The exception is `lost`: a death or an error inside the backup's first
  write, or an error in reading a kept one. `Found` covers the runs that could not set
  DNS, `FirstLink` the symlink, which a restore that gives up may lose. Assumed of the options: a server's name that resolves has
  an address, and resolv.conf is a file, the symlink or missing.

`AtMostOnce`, `RoutesExact`, `StaleReadBound`, `PrioNotHeldUp` and the type
invariants of these modules are proved and left out of the runs.

Only model-checked: every liveness property, which is beyond the prover;
`ServerBypassed`, which rests on what the folds in `planRoutes` compute for every
list; and everything about `Packets`, whose `foldSum`, option scan and hello scan are
recursive.

## 6. Not modelled

- Cryptography: key agreement and derivation, AEADs, TLS. A hello or token of ours
  is valid, nothing else is.
- Padding, jitter, header type ranges and shaping: random data that no state
  depends on.
- The server's DNS proxy, egress setup and TUN device: sockets and commands without
  state of their own.
- Client devices, routes and DNS on macOS and Windows, the Windows split tunnel and
  the command client's port-hop goroutine. `del` commands are taken to succeed, and
  so are the removal of a symlinked resolv.conf before it is written, `Readlink`, and
  `Stat` of a backup that exists.
- The local proxy, the bindings, parsing of keys and URIs, the probe and the traffic
  test bed.
- Single cases inside modelled parts: a session tag collision (four random bytes), a
  UDP listener ending on a read error, the listener's close, two revocation writes
  within the granularity of the file's time, a restart of the server, which empties
  the replay caches.

## 7. What could follow

1. `Downlink`: `preferTCP`'s choice between the paths, composed with
   `RoutedSession`, `UdpMux` and `Tunnel`.
2. The mobile binding's registry and file descriptor.
3. Proofs for `Packets`: that rejects end and that pieces fit the MTU and follow each
   other, for every size, once its recursive operators are functions.
