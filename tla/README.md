# A TLA+ model of vpn-bridge

vpn-bridge forwards chosen networks of a Linux host to places only another
machine can reach. It has two products that share a wire protocol:

- **vpnbridge-host / vpnbridge-vm**: the host captures flows with a TUN device
  and opens one TCP connection per flow to the agent in a VM, which dials the
  destination;
- **proxy-client / proxy-server**: the same idea over one pooled QUIC
  connection, with gRPC over TCP as a fallback.

This directory holds TLA+ modules translated from the Rust sources under
`crates/`, TLC configurations that check them on small instances, and TLAPS
proofs of the main safety properties for every value of the constants.
`PROJECT.json` maps each definition to the lines it models.

## 1. Inventory

| Component | Source | State it keeps | Operations | What makes it hard |
|---|---|---|---|---|
| wire protocol | `proto/src/lib.rs` | none | encode and decode `Request`, `Response`, `Address`; datagram framing | boundaries of lengths |
| host: flow dispatch, tunnel client | `host/src/main.rs`, `tunnel.rs` | one task per flow | `dispatch`, `Client::open` (retry for ever, handshake under a timeout), `relay_tcp`, `relay_udp` | the timeout races the answer; the agent dies at any time |
| host: routing and life cycle | `host/src/main.rs`, `route.rs`, `config.rs` | the kernel's routing table, `RouteManager.added`, signal handlers | lookups, pins, installs, `select!` loop, cleanup | the kernel's table outlives the process; each `ip` call can fail; signals arrive at any time |
| host: DNS forwarder | `host/src/dns.rs` | one task per query | `serve`, `resolve`, `query_one` | each attempt is a flow of its own; the deadline does not cover its opening |
| vm: session | `vm/src/server.rs`, `config.rs` | one task per connection | `handle`, `resolve`, `permits`, `serve_tcp`, `serve_udp` | several candidate addresses, dial timeouts, the client may be gone |
| vm: UDP relay | `vm/src/server.rs` | activity counter, timer | `udp_uplink`, `udp_downlink` | one timer for two loops |
| proxy-client: transports | `proxy-client/src/transport.rs`, `quic.rs`, `grpc.rs`, `relay.rs` | pooled connection behind an async mutex, `fallback_until` | `open`, `connection`, `invalidate` | flows share the pool and the window across awaits |
| gRPC tunnel | `proxy-client/src/grpc.rs`, `proxy-server/src/grpc.rs` | duplex pipes, bounded channels | two pumps at each end | back pressure, ends of stream, errors |
| proxy-server: session | `proxy-server/src/server.rs`, `config.rs` | one task per stream | `handle_stream`, `handle_request`, `serve_tcp`, `serve_udp` and their deadlines | four deadlines in a row; what the server learns of a client that left depends on the transport |
| proxy-server: TCP relay | `proxy-server/src/server.rs` | `Notify`, timer, two copies | `relay_tcp`, `copy_with_activity`, `wait_for_idle` | a permit races the timer |
| proxy-server: certificate, main | `proxy-server/src/certificate.rs`, `main.rs` | two files, the addresses it listens on | make, load and present the identity; `--check` | crash between the files, concurrent starts |
| proxy-client: device, routes, config, main | `proxy-client/src/*.rs` | the kernel's table, `RouteManager.added` | choose and validate the configuration, add and delete routes, `select!` loop | nothing pins the servers; the operator changes the same table |
| command lines, configs, service unit, scripts, CI | `*/main.rs`, `dist/`, `scripts/`, `.github/` | none | | no run-time logic of their own |

How they interact: `main` hands every captured flow to `dispatch`, which spawns
a task; the task calls `open` and then a relay. Host and agent meet only
through one TCP connection per flow and the request and response on it. All
flows of a proxy-client share `TransportClient`. The routing table is shared
with the operator and with earlier runs of the same program.

What must hold of each component:

- *tunnel client and session*: only permitted addresses are dialled; both ends
  agree on the outcome; every flow is decided; no connection is left over;
- *routing*: the operator's routes survive; the tunnel never captures its own
  connection; exit restores the table; a signal ends the process;
- *UDP relay and TCP relay*: no close while data moves, no session that stays
  for ever;
- *DNS forwarder*: a query ends once the agent stays up, whatever its resolvers do;
- *proxy session*: its setup is bounded by its deadlines, and it ends when the
  client left;
- *server identity*: clients never see two of them;
- *wire protocol*: what is accepted is what was encoded, and the stream behind it
  starts at the right byte;
- *client's routes*: the operator's stay his, the servers stay outside the
  tunnel, and a client that serves has all of its own;
- *transports*: an open fails only if nothing works; the pool is not
  overwritten; every open returns; the client goes back to QUIC.

## 2. Modules

| Module | Models | Checked by | Proofs |
|---|---|---|---|
| `FlowService` | what any bridge promises about a flow (abstract) | as `IsFlowService` of the next modules | |
| `Bridge` | host dispatch and `Client::open`, agent `handle`/`serve_*`, ends of relays, crashes of the agent | `MC_DnsForwarder`, `MC_Bridge` | `BridgeProofs` |
| `DnsForwarder` | `dns.rs` of the host over `Bridge` | `MC_DnsForwarder` | `BridgeProofs` |
| `HostRoutes` | `main` of the host, `RouteManager`, signals, kills, restarts | `MC_HostRoutes` | `HostRoutesProofs` |
| `Transport`, `TransportHistory` | `TransportClient::open`, `QuicClient`, `GrpcClient::open` as one step; the second adds history variables | itself (`TransportHistory`) | `TransportProofs` |
| `GrpcTunnel` | the pumps, pipes and channels of both `grpc.rs`; `TunnelLink` is what they promise | itself | `GrpcTunnelProofs` |
| `UdpIdle` | `relay_udp` of the agent | itself | `BridgeProofs` |
| `TcpRelay` | `relay_tcp` of the proxy server | as a part of `ProxySession` | `ProxySessionProofs` |
| `ProxySession` | a session of the proxy server, from the open stream to its end, over either transport | `MC_ProxySession` | `ProxySessionProofs` |
| `ServerStart` | `certificate.rs` and `main` of the proxy server, several processes at once | `MC_ServerStart` | `ServerStartProofs` |
| `ClientRoutes` | `main`, `config.rs` and `route.rs` of the proxy client | `MC_ClientRoutes` | `ClientRoutesProofs` |
| `Wire` | `proto/src/lib.rs` and `token_matches` | `MC_Wire` | `WireProofs` |

Operators whose comment begins with "Fault:" are plausible bugs of the
definition that follows them; no specification uses them. They show that the
properties notice such a bug.

### Bridge

Each flow has a host side (`host`: new, dial, sleep, handshake, relay, ended)
and an agent side (`session`: request, resolve, dial, relay, ended). `Connect`
is the successful connect of `open`'s retry loop; `Granted`, `Refused`,
`HandshakeTimeout` and `HandshakeBroken` are the outcomes of the handshake; the
timeout may strike while an answer is under way. `SetupFailed` is what
`dispatch` does with any of the failures. On the agent side `ResolveTarget`
filters the candidates by policy, `DialOk`/`DialError` walk through them in any
order, `Reject` writes the refusal and drops the connection. Of a relay only
the ends matter: `app`, `toApp`, `hostEnd`, `vmEnd`, `server`, `upEnd` say how
each direction of each of the three connections was left; the application may
finish sending or abort (`AppEnd`). `AgentCrash` ends every session; the host sees a
FIN, a reset, or nothing at all.

A name stands for the set of addresses it resolves to; the token comparison is
one Boolean for the deployment; UDP relays end as a whole (module `UdpIdle`
looks inside).

`FlowService` is the abstract view: a flow asks for a target once, the far side
reaches at most one address, one that the target and the policy allow, and the
near side relays only what was reached. `Bridge` implements it under the mapping
that reads the outcome off the host's task, the permitted addresses off the
target asked for with the right token, and the reached address off the agent's
upstream connection. Not telling the near side's end from a refusal is what lets
a slow agent reach an address after the host gave up.

### DnsForwarder

It extends `Bridge`: a query is a series of UDP flows, one per configured
resolver, which `AskUpstream` captures and the actions of `Client::open` carry
on. `Answered` and `NoAnswer` are the two ends of `query_one` once the tunnel is
open, and only there a deadline runs. One query is followed, which an application
may or may not send; the forwarder keeps nothing between queries (`serve` spawns a
task for each), so queries meet only in the agent, as flows do.

### HostRoutes

A network is the set of its addresses, a routing table a function from networks
to next hops, `Lookup` is longest-prefix match, and routes through the TUN
vanish when the process ends. `main`'s steps are actions (`LookupHops`,
`CreateTun`, one `PinDirect`/`AddToDev` per route, the `select!` loop, one
`CleanupLast` per route) and each `ip` call has a failing twin. The loop
distinguishes "before `shutdown_signal()` was polled", "listening" and
"dispatching" because the signal is treated differently in each. `faults`
records what happened to the process so that properties can say what they
excuse, `signals` counts those sent to the process that runs now. `SetupError` may
come after the last route, too: the stack can refuse its MTU.

### Transport

`pc` follows each flow's task from await to await: the window check, gRPC
before or after QUIC, the pool mutex, connecting under it, `open_bi`, the
response, `invalidate`, and the mutex of `fallback_until` (`OpenWindow`,
`CloseWindow`). A verdict stands for what the server would answer about
the flow's target; a "slow" one races the client's timeout or never comes. QUIC and gRPC go
down and come back at any time and connections close by themselves.
`TransportHistory` records per flow which transports were impaired during its
open.

### GrpcTunnel and TunnelLink

A direction of a flow is a chain: writer, near pipe, sending pump, channel and
HTTP/2, receiving pump, far pipe, reader. `wrote`, `taken`, `sent`, `got`,
`stored` and `read` count the frames past each point, so that what sits between
two points is a difference. `outs` and `ins` are the pumps that run. The two
ends of `tokio::io::duplex` behave as the library says: a pipe hands out what it
holds before it reports an end, writing to a dropped peer fails, and the split
halves of an end keep it alive until both are gone (`BridgeDropped`). The call
may fail at any moment (`RpcFails`), which the client's receiving pump turns into
an end of stream and the server's does not (`RecvError`).

`TunnelLink` is the abstract view from the two relays: pieces arrive in order, an
end of stream comes after all of them, unless the call was broken off.
`GrpcTunnel` implements it under the mapping that keeps the outer counters and
calls the link broken when the call has failed.

### ProxySession

`stage` follows `handle_stream` and `handle_request`; each of the three waits of
the setup (request, name, candidate) arms a timer, whose age is `age`, and
`spent` adds them up. `TcpRelay` runs as the last stage; its actions are wrapped
one by one because what a relay still sees of a client that left depends on the
transport: over QUIC the upload ends and writes fail, over gRPC the upload just
falls silent (the server's pump ends without a shutdown, `grpc.rs:107`) and only
`InFlight` more chunks pass. The session with its client implements
`FlowService`, too. `relay_udp` is one step: its loops are those of the VM agent.

### ServerStart

Every `fs` call of `ensure_exists` and `load` is a step of its own, a file may be
missing, torn or hold a certificate or key of a pair, and any number of processes
(servers and `--check` runs) take these steps at once and may die between any
two. `disturbed` records what may have spoilt the files, so that properties can
say what they excuse. The certificate is written with `fs::write`, which
truncates, the key with `create_new`, which does not: the one call that decides
which of two starts wins.

### ClientRoutes

The table holds, per network, the operator's route, ours, or none. `ip route add`
fails where there is a route, `ip route del ... dev` deletes only one of ours.
The operator adds, replaces and deletes routes at any time, also of the same
prefixes. `ConfigPath` and `Validate` are there because the servers stay outside
the tunnel only through `validate`; the route of the TUN's own network, which comes
with the device, `validate` does not look at, and one configuration has a server
in it. `SetupError` is whatever ends the setup once the device is there: a route that
cannot be added, or an MTU the stack refuses. Ctrl-C is treated as in `HostRoutes`; SIGTERM
has no handler and is a kill.

### Wire

A reader that takes one field per step. A request or response arrives as it was
written, cut off anywhere, or with one byte changed. Datagrams are written while
the reader reads (`WriteDatagram`) until `EndStream`, which may cut off what the
reader has not yet taken. The number of values of a byte is a constant, so that
every boundary (empty, full, one too many, a character cut in two) is small when
TLC runs; the reader's errors (`invalid`, `eof`) are those of the code.
`TokenMatches` compares the lengths as the code does, by the last byte of their
XOR, which is zero when they agree modulo the base.

### UdpIdle and TcpRelay

Both measure time in ticks and let a timer fire up to `Lag` ticks late. In
`UdpIdle` the downlink owns the timer and learns of the uplink through
`activity`; in `TcpRelay` a copy that wrote a whole chunk leaves a permit that
re-arms the timer. The history variables measure what the properties speak about,
since the code has no such clock: `silence` the time without a datagram, `lull` the
time since a chunk was completed, `quiet` the time since any byte was received or
passed on, which is what an idle timeout is about.

## 3. Runs

| Run | Checks | Shows |
|---|---|---|
| `bridge` | `DialPermitted`, `AgreeOnOutcome`, `IsFlowService`, `FlowDecided`, `UpstreamReleased`, `QueryEnds` | policy and agreement hold through every interleaving of host, forwarder, agent, timeouts and two crashes; no flow and no query is stuck, no upstream connection outlives the host's interest |
| `host_routes` | `ForeignRoutesIntact`, `ServerNotCaptured`, `OrderlyExitRestores`, `LeftoversHarmless`, `SignalStopsQuietHost` | the table is safe through failures, signals, kills and restarts, and what a killed host leaves behind harms no later start; a noticed signal ends a quiet host |
| `transport` | `AvailableIfEither`, `PoolNotClobbered`, `OpenTerminates`, `QuicRecovers` | sharing the pool and the window costs no flow its connectivity; every open returns unless other flows hold every stream; the client goes back to QUIC |
| `grpc_tunnel` | `IsLink`, `PiecesArrive`, `EndArrives`, `PumpsEnd` | the tunnel loses nothing, reports no early end, delivers data and ends, and leaves no task behind |
| `udp_idle` | `NoEarlyClose`, `BoundedLinger`, `QuietSessionCloses` | the UDP timer is neither early nor lost |
| `proxy_session` | `NoEarlyClose`, `StuckFlowReclaimed`, `SetupBounded`, `IsFlowService`, `SessionReleased`, `QuietSessionEnds` | the deadlines bound the setup, the TCP timer is neither early nor lost, and a session lets go of its upstream when the client left |
| `wire` | `ReadBack`, `OnlyOneReading`, `DatagramsWhole`, `OnlyTheToken` | nothing is misread at any boundary, whole, cut or altered; only the agent's token matches |
| `client_routes` | `TypeOK`, `OperatorRoutesIntact`, `ServersNotCaptured`, `ServingIsRouted`, `SignalStopsQuietClient` | the operator's routes survive his own changes under ours; the servers are never captured; no client serves with a route missing |
| `server_start` | `OneIdentity`, `KeyNeverReplaced`, `StartsUndisturbed` | no race, crash or disk error makes the server present two identities |

All type invariants are theorems (section 4). The run of `ClientRoutes` checks its
own as well, because it says where a Ctrl-C can still be pending; the other runs do
not repeat theirs.

Runs that find the code at odds with what the repository says of it:

| Run | Property | The code |
|---|---|---|
| `bridge_hang` | `AppNeverLeftHanging` | a relay that fails drops the application's stream without the FIN the comment in `dispatch` calls for |
| `host_lost_signal` | `SignalStopsHost` | a signal that falls between two polls of `shutdown_signal()`, or wakes it while `select!` prefers an accepted flow, is lost |
| `tcp_activity` | `ActivityKeepsFlow` | a flow is closed as idle although a byte moved within the timeout: only a completely written chunk re-arms the timer |

`StuckFlowReclaimed` and `ActivityKeepsFlow` are the two sides of the idle timer. The
first holds: a relay in which no byte moves for longer than one late timeout is
gone. The second, that one in which bytes move stays, is what
`docs/quic-proxy.md:74,82` says, and does not hold for a chunk that is passed on in
parts.

Five more places where a document promises more than the code does, or a lost
signal is possible, which no run is spent on:

- `host/src/config.rs:17` says that excluded networks "must never be captured".
  `add_to_dev` (`route.rs:113`) replaces whatever route the prefix has, nothing
  checks `routes` against `exclude`, and a failed pin is only a warning
  (`main.rs:102`): overlapping entries and failed pins capture them (`AddToDev`,
  `PinExcludeError` of `HostRoutes`).
- `docs/quic-proxy.md:8-9` says that the client falls back to gRPC when QUIC
  cannot connect or open a stream. `quic.rs:87` also takes a slow target's timeout
  for one (`QuicTimeout` of `Transport`).
- `vm/src/config.rs:28` says that a UDP session goes "after this long without
  traffic". The downlink starts a whole new period after uplink traffic, so it takes
  up to twice as long; `BoundedLinger` states the bound of the code.
- `vm/src/config.rs:13` says that an empty token disables authentication.
  `token_matches` accepts only the empty token then, as its own test says
  (`config.rs:105`).
- A Ctrl-C can be lost in `proxy-client/src/main.rs:98-109` as in the host, whose
  loop has the same form (`CtrlC` of `ClientRoutes`).

### Bounds

- `Bridge` with `DnsForwarder`: one application's flow, or one query over two
  resolvers (granted, denied, unreachable or silent), since flows meet only in the
  agent's life (`AgentCrash` treats each by itself) and the theorems cover any
  number of both; two crashes, so that one can follow a restart or strike each
  attempt of a query. Three addresses, one denied, give a name with a mixed
  resolution, a wholly denied one and an empty one.
- `HostRoutes`: four addresses and five nested networks (everything, the VM's
  network and the agent's `/32`, a corporate network and one host in it) are
  enough for every overlap between a route, an exclusion, the agent and an
  existing route. Two signals for each process, so that one may be lost and the
  other not; two restarts, so that a start can follow one that inherited pins.
  `host_lost_signal` follows a single process and a single signal: nothing but that
  signal's own loss can refute its property.
- `Transport`: two flows, so that one can hold the mutex while the other waits or
  fails on an old connection; a connection identity for each (a dead one that no
  flow holds is as good as a new one); one stream per connection, so that a flow
  also waits for a stream, which `OpenTerminates` excuses; a window of one tick,
  since a flow only asks whether it is open.
- `GrpcTunnel`: pipes and channels for one frame each, so that every wait for
  room happens; three frames up, which leave one in the pump when the channel is
  full and the receiver gone, and one down. Nothing but the end that an error
  reports (`RecvError`) tells the directions apart, and the theorems cover every
  capacity and bound.
- `ProxySession`: deadlines of two ticks, three candidates of which two are
  permitted, so that a deadline passes twice in the dial loop; two chunks in flight
  when the client leaves, so that the timer is re-armed by what comes late.
- `Wire`: base 8, where every length prefix meets its limit (a length byte counts
  to 7, two to 63); texts of 0, 2, 7 and 8 bytes and one cut within a character;
  datagrams of 0, 1, 8 and 63 bytes and one of 64 that is refused, two in one
  stream, so that a boundary lies between them; every single position of a message
  cut or altered, a stream of datagrams cut anywhere behind the reader.
- `ClientRoutes`: five addresses and four nested networks (everything, the remote
  site and a host in it, the TUN's own); three changes by the operator, so that he
  can replace one route of ours, delete another and put one back; two signals, one
  restart. Of the eight configurations one has a server inside the TUN's own network.
- `ServerStart`: two processes, which is what a race on two files takes; four
  starts, so that a start follows both of a race; one removal. The theorems cover
  any number of all three.
- `UdpIdle`, `TcpRelay`: an idle period of three ticks and a lag of one separate
  "early", "in time", "late" and "twice"; three datagrams, chunks of up to three
  writes.

Deadlock is not checked where a flow that ended, a host that exited or a relay
that closed really stops; it is in the runs of `Transport`, whose flows open
again, and of `ServerStart`.

### Fairness

Fairness is assumed of the program and never of its peers: a runnable tokio
task runs, an elapsed timer is polled, the clock advances, a timeout around an
await fires, a pump of the gRPC tunnel runs. Since a flow stands at one await at a
time, fairness to the whole of its task (`TaskStep` of `Transport`) is fairness to
each step. Strong fairness stands for tokio's
mutex, which is first come first served, while the flows in front of a waiter
keep taking it. The forwarder's task and its deadline, and the client's and the
host's loops, are tokio tasks like the others. Assumptions that reach further, and
are part of what the runs say, are these: `UpstreamReleased` assumes that a server whose client has finished sending finishes too (the
agent's TCP relay has no idle timeout) and that host and agent hear of each other's
end, `QuicRecovers` that QUIC is well from
some point on, `FlowDecided` and `QueryEnds` that the agent stays up from some point
on, `SessionReleased` that a UDP relay ends without its client (`UdpIdle` has its
timer), and `PiecesArrive` and `EndArrives` that a relay goes on reading
the tunnel, which it does as long as what it writes to takes the data.
Applications never have to close, relays never have to end, operators never have to signal or send a query.

## 4. Proofs

All proofs are for unbounded constants: any number of flows, processes, signals,
crashes, restarts and changes, any networks, addresses and configurations, any
lengths and capacities. Every safety invariant, action property and refinement
that a passing run checks is stated by a theorem. `tlapm` has no liveness
reasoning here, so the liveness properties are not.

What is assumed, always as a named assumption of the module that declares the
constant:

- markers such as `NoRoute`, `Torn` or `Absent` are not members of what they mark;
- the prefixes that contain an address nest (`NetsAssumption` of `HostRoutes` and
  `ClientRoutes`), as prefixes of bits do;
- what the validation of a configuration accepts (`ConfigsAssumption`: at least one
  route; `ExpectedAssumption`: a token that fits its length byte);
- the types of the arguments: a token is a `String`, hence valid text; an address
  has the length of its type (`RequestsAssumption`);
- `Base` is at least 8, so that the constants of the protocol are bytes (256 in the
  code).

In each case the argument is an inductive invariant; those of `HostRoutes`,
`ClientRoutes`, `ServerStart` and `Wire` were checked by TLC on the run's instance before they
were proved.

- `BridgeProofs`, on `Bridge`: what the session knows before it dials (token
  checked, candidates resolved and permitted), what an answer says about
  `upstream`, and what the host's task knows; preserved by every step of both
  sides and by a crash. `AgreeOnOutcome` and `DialPermitted` follow, and so does
  the step simulation of `FlowService` (`BridgeImplementsService`).
- `BridgeProofs`, on `DnsForwarder`: every step of the forwarder is a step of
  `Bridge` or leaves it alone (`ForwarderIsBridge`), so everything proved of `Bridge`
  holds of it.
- `BridgeProofs`, on `UdpIdle`: `NoEarlyClose` and `BoundedLinger` speak about the
  silence, which no step of the code looks at. The invariant ties it to the timer:
  while `activity` is ahead of `seen` the silence is at most the timer; once
  they agree it is at least the timer, and at most one late timeout more.
- `HostRoutesProofs`: four invariants on top of each other. `RouteInv` says who put
  what into the table: outside setup, the loop and cleanup there is no tunnel route
  and nothing left to remove; everything in `added` was either listed in `routes` or
  absent from the original table (`ForeignRoutesIntact`). `PinInv` is about order: the
  agent's pin is planned before the first tunnel route, and while a tunnel route
  covers the agent, the agent's address has a route of its own that cleanup, which
  goes backwards, reaches only after that tunnel route; longest-prefix match does the
  rest (`ServerNotCaptured`). `ChangesRemembered` says that every difference from the
  original table is owed to cleanup as long as no step has failed and no signal or
  kill has cut the process short, which at exit leaves none (`OrderlyExitRestores`).
  `WayBack` looks at any moment at which the process may die: what differs from the
  original table is a tunnel route, which dies with it, or a pin where there was no
  route, and the agent's pin, planned or made, goes where the agent was reached
  before the first start, because the lookup it comes from found the same way
  (`LookupSame`). Hence `LeftoversHarmless`: no chain of kills, failed deletions and
  starts, each of which takes the pins it finds for the operator's, changes the way
  to the agent.
- `ClientRoutesProofs`: only networks of a validated configuration and the TUN's own
  lead into the tunnel, and none does without a device, so a server that
  `validate` keeps out of every route is never captured, unless it lies in the TUN's
  own network, which `validate` does not look at (`ServersReachable`); what
  setup has added so far is still there except where the operator put his hand
  (`RoutesSoFar`), which is `ServingIsRouted` once all routes are added.
- `ServerStartProofs`: everything follows from who may have put what in the key
  file. Once it holds an identity no step but the operator's changes it
  (`KeyWrittenOnce`), since only the one process that created it is at `writeKey`;
  and as long as the operator leaves it alone, what was presented is what it holds
  (`SingleIdentity`). `FilesInOrder` adds how the certificate and the key agree while
  nothing has disturbed their making, at every step of `ensure_exists` and `load`;
  with it no undisturbed start fails (`UndisturbedStartsSucceed`).
- `WireProofs`: the reader is followed from both sides. `SoFar` says what the bytes
  taken encode, whatever arrives: at each field they are exactly the beginning of the
  encoding of what was read, so what is accepted is its own encoding
  (`AcceptedIsEncoded`). `Coming` says what the bytes not yet taken are when nothing was
  cut or altered: the fields still to come and one byte behind them, so that the
  reader returns what was written and stops in front of that byte
  (`WrittenIsReadBack`). `Arriving` does the same for datagrams while more are being
  written: there is a function that gives the place where each datagram starts, and
  the reader stands at one of these places or behind a length. The places are an
  existential because a sum of lengths is a recursion over data; `WriteDatagram`
  extends the function by one. Concatenation is given a name of its own (`Cat`) that
  is opened only in the lemmas on sequences, since the provers otherwise expand every
  encoding into its positions. `TokenDecides` is the one place where a byte's width
  matters: lengths that agree modulo the base are equal because both tokens fit.
- `TransportProofs`: a flow is connecting exactly when it owns the mutex, and
  while somebody owns it the slot is not usable; hence `PoolNotClobbered`. For
  `AvailableIfEither` the invariant adds, for each step of an open, which transport
  must already have been impaired for the flow to be there.
- `GrpcTunnelProofs`: the invariant says what a stopped pump means: a sending
  pump that ended normally left nothing behind, a receiving pump that ended while
  its reader is there has stored everything. With it every step of `GrpcTunnel`
  is a step of `TunnelLink` or a stutter (`TunnelImplementsLink`).
- `ProxySessionProofs`: five parts. Of the relay, the timer *is* the lull, except
  between `notify_one` and the re-arming it causes, when the permit says the lull
  is 0; a completed chunk is a byte that moved, so `quiet` never exceeds the lull; no
  step of the session outside the relay touches any of them (`NeverEarly`,
  `StuckReclaimed`). Of the setup, what was spent is at most the budget less what
  the candidates still to try may take (`SetupWithinBudget`, by induction over the
  steps with the cardinality of `todo`; stated for a finite set of addresses). And
  what the session knows when it dials and answers makes each of its steps one of
  `FlowService` or a stutter (`SessionImplementsService`).

Only model-checked: the liveness properties, which need fairness and `ENABLED` and
are out of TLAPS's reach here (`FlowDecided`, `UpstreamReleased`, `QueryEnds`,
`SignalStopsQuietHost`, `OpenTerminates`, `QuicRecovers`, `PiecesArrive`, `EndArrives`,
`PumpsEnd`, `QuietSessionCloses`, `SessionReleased`, `QuietSessionEnds`,
`SignalStopsQuietClient`), and the three runs that find a violation.

## 5. Not modelled, and why

- The content of streams and datagrams beyond their framing, TOML, the command
  lines, checks of single configuration values, TUN and TLS plumbing, log messages
  and error texts: I/O and formatting without control flow the properties depend
  on.
- `relay_udp` of the proxy server in its own right: its loops and its timer are
  those of the VM agent's (`UdpIdle`), and `ProxySession` ends it in one step.
- The UDP framing of proxy-client's `relay.rs`, and the empty datagram that ends a
  UDP flow at `host/src/tunnel.rs:122`: `Wire` has the frames, not the two loops.
- How long a flow waits in `open_bi` while relays hold every stream of its
  connection (`quic.rs:53`): nothing bounds that wait, and `OpenTerminates` leaves it
  out.
- A link that goes down while both its ends live. The agent would learn nothing of
  it, and its `copy_bidirectional` (`vm/src/server.rs:130`) has neither a keepalive nor
  an idle limit: such a session stays. `AgentCrash` is the end of the agent's process
  or machine. In the same way a pooled QUIC connection that is dead without quinn
  having noticed, while others would work, is not told apart from an outage of QUIC.
- How long writing the server's answer or refusal takes: it has no deadline
  (`server.rs:362`), and `SetupBounded` speaks of the waits that have one.
- Route commands of macOS and Windows; the service unit, scripts and CI.

The kernel, tokio, quinn, tonic and ipstack appear only as the code uses them.

## 6. Plan

Done: the modules above, and a theorem for each of their safety properties. Next,
in this order:

1. `Transport` with `ProxySession` at the other end as a `FlowService`: what a
   client reports when it gives up while the server still dials.
2. `UdpFlow`: order and boundaries of datagrams end to end, with the empty one.
3. Questions `HostRoutes` and `Transport` can already answer and no run asks yet:
   addresses outside `routes` that an exclusion reroutes, the agent's pin when an
   exclusion covers it, and a refusal over gRPC that ends the fallback window.
