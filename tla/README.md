# OmniMesh in TLA+

TLA+ specifications of the OmniMesh node (the Rust workspace under `src/`),
TLC models that check them on small instances, and TLAPS proofs for the parts
where the argument does not depend on the instance.

    tlc -workers 2 -config MCSession.cfg MCSession      # check a model
    tlapm SessionProofs.tla                             # check the proofs

## The system

A node is one tokio process. Its parts, the state they keep, what changes that
state, and what makes them hard to test:

| part | source | state | operations | what is hard |
|---|---|---|---|---|
| Secure channel | `omnimesh-crypto` `channel.rs`, `kdf.rs`, `aead.rs` | send and receive key, two counters | `new`, `encrypt`, `decrypt`, drop | ratchets of two ends must stay in step over any network; the limit |
| Noise handshake and transport | `omnimesh-crypto/src/noise.rs`, `perform_handshake` | handshake state, two nonces | handshake messages, `into_transport`, `encrypt`, `decrypt` | strict nonces; the ends leave the handshake at different times; versions that differ |
| Session | `omnimesh-sdk/src/lib.rs` | Noise state behind a mutex, bounded write queue, connection | `send_to_peer`, `broadcast_to_peers`, probing and gossip loops, `run_session_loop`, `handle_wire_packet` | several senders between encrypt and enqueue, pongs, full queues, shutdown |
| Orchestrator | `omnimesh-sdk/src/lib.rs` | sessions map, transport mutex, shutdown channel | `connect_addr`, `connect_peer`, `run_accept_loop`, `shutdown` | simultaneous connects, a lock held across an await, a signal missed by a late subscriber |
| Transports | `omnimesh-transport` `quic.rs`, `mock.rs` | endpoint, streams | `listen`, `connect`, `accept`, `send`, `recv`, `close`, `shutdown` | they differ in when `connect` returns and in what `shutdown` closes; a `recv` that is dropped half way |
| Connection pool | `omnimesh-transport/src/connection.rs` | map of connection infos | `insert`, `remove`, `update_state`, `record_bytes_*` | check-then-insert |
| Router | `omnimesh-routing/src/router.rs`, `metrics.rs` | trackers, graph, sequence numbers, each with its own lock | `record_*`, `get_link_state_update`, `process_link_state_update` | lock sections of several calls interleave |
| Route graph | `omnimesh-routing/src/graph.rs` | adjacency map | `find_shortest_path` | overtaken heap entries, ties, cycles of cost 0 |
| Gossip | `omnimesh-sdk/src/lib.rs` with the router | routers of several nodes, updates on the way | probing, gossip, receipt, restart | replaced sessions reorder, restarted nodes number from 1 |
| RPC | `omnimesh-service/src/lib.rs` | `pending_requests`, `next_request_id` | `call`, `handle_message` | losses, abandoned calls, restarts |
| Chat, PubSub | `omnimesh-service/src/lib.rs` | broadcast channel, subscriptions | `send_chat`, `publish`, `subscribe`, `handle_message` | slow and closed subscribers |
| Key store | `omnimesh-identity/src/keystore.rs`, `omnimesh-node/src/main.rs` | key file, temporary file | `store`, `load`, `delete`, `init`, `identity generate` | killed between two file system calls, two processes |
| Discovery | `omnimesh-discovery` | address cache with expiry, command queue | `insert_with_ttl`, `lookup`, `prune`, commands, swarm events | expiry against refresh, stale addresses |
| Retry | `omnimesh-core/src/retry.rs` | attempt counter, interval | `retry_async` | the last attempt, the capped interval |
| Node commands, configuration | `omnimesh-node/src/main.rs`, `omnimesh-core/src/config.rs` | `config.toml`, key files, environment | `init`, `identity generate`, `run`, `Config::load` | a file cut short, commands with different `--config`, kills between two files |
| Identity, telemetry | `omnimesh-identity`, `omnimesh-core` | none that changes | pure functions, logging | |

They interact like this: `Orchestrator` opens connections and runs one session
loop per connection; each session carries application data, gossip and pings;
what arrives goes to the services (RPC, chat, PubSub) or to the router; the router's graph is
what routes are searched in; a send to a peer without a session asks the
discovery service for addresses and connects. The commands of the node read its
configuration and its identity before any of this starts. The secure channel is
the ratcheting alternative to the Noise transport; the connection pool and
`retry_async` are library parts that the SDK does not use yet.

## Modules

Each specification has its properties at the end, and beside some definitions a
variant named after it (`opensAny` beside `opens`), which is what a plausible slip
in that place would make of it. The variants are used by no specification; each
property has one that violates it.

**`FifoChannel`** is the abstract promise of a channel: what one end accepts,
the other end gets, in order, once, or not at all from some point on. Three
specifications implement it: `SecureChannel`, `Session` and `NoiseConnection`.

**`SecureChannel`** models two `SecureChannel` objects and a set of ciphertexts
that may be delivered in any order, many times, to either end, or never. Keys are
symbolic: half (`key_a` or `key_b`) and number of ratchet steps. A ciphertext
opens only under the key that made it. `encrypt`, `decrypt` and `drop` are
actions with their limit checks. It implements `FifoChannel`.

**`Session`** models one established session: sender tasks that encrypt under the
Noise lock and enqueue after it (two steps), the write queue with its capacity,
the arms of `select!` in `run_session_loop`, the pong that the loop encrypts and
sends itself, a connection with a capacity per direction, and `shutdown()` up to
`sessions.clear()`, which waits for senders that hold a reference into the map.
The probing and gossip loops subscribe to the shutdown channel when their task
first runs; one that does so after the signal is in `deaf`. A frame is its packet
type and nonce.

**`NoiseConnection`** models one connection below the session, from its first byte:
the three messages of the Noise_XX handshake with the versions and PeerIds they
carry (both ends are honest: a PeerId is the one the payload names, which the code
does not compare with the static key, while `docs/security-review.md:23` speaks of
credentials signed by the identity key), then numbered frames, over either
transport. On QUIC a frame is a length prefix and a body of two pieces each;
`write_arm` drops the `recv` that `select!` was awaiting, with the pieces it had
taken, and the next `recv` takes the rest for a length. What such a misread length
is, is left open (`MisreadLens`). `dropped` and `failed` are histories. `Session`
has what this module leaves out, the tasks that write at the same time, and treats a
frame as one unit.

**`Orchestrator`** models who is connected to whom: the transport mutex as a FIFO
queue, the accept loop, both halves of a QUIC connect (MockTransport has one),
the three messages of the Noise_XX handshake, the insert into the map that
replaces an older entry, the subscription to the shutdown channel, the reasons
for a session loop to end, and `shutdown()`. `transport` is chosen initially, and
`lost` is a history: connections that the network has broken.
`connect_peer` is modelled with one address; all nodes have the same version
(`NoiseConnection` has different ones).

**`Router`** models one router at the granularity of its lock sections; a task
between two sections is a program counter with what it has copied. Metrics are
version numbers. DashMap guards that are held across sections (`TrackerReaders`,
`SequenceHolders`) block the calls that need the same shard.

**`RouteGraph`** models `find_shortest_path` iteration by iteration, the order of
ties and of neighbours left open; the walk back along the predecessors is a step
per node. The reference is the set of simple paths.

**`GossipMesh`** models several nodes with atomic routers, sessions that may be
replaced while updates are on them, and restarts that lose everything but what
the peers had already received. A connection that breaks, or that the loop of a
replaced session closes, loses what the peer has not read (`lose`), and a frame
with an unexpected nonce is dropped (`reject`); `MayLose` says between whom.

**`Rpc`** models the services of several nodes. What a call gets back is named by
the call it answers, so a wrong match is visible. `lost` is a history of calls
whose request or response is gone.

**`Chat`** models the chat service of one node with the broadcast channel, and the
task of `cmd_run` that prints what it receives and ends when it has lagged.
tokio keeps the last messages up to the capacity rounded up to a power of two;
`Capacity` is that number.

**`PubSub`** models the subscriptions of one node. A session loop walks the
senders of a topic one at a time under a read guard; `subscribe` needs the write
guard (`entry`). `published`, `given` and `since` are histories.

**`Retry`** models `retry_async` with the four named policies and policies of an
application. Times are in 1/1024 ms, so that all waits are whole numbers.

**`NodeCommands`** models the commands as processes over the configuration files
and key files, on top of what `KeyStore` shows: a key file is replaced in one
step. `config.toml` is not, so it can be found cut short. Two settings stand for
all: `key_path`, which only a file changes, and `name`, which the environment
changes too. `node` is a history: what the last `init` to return has set up.

**`KeyStore`** models the key file and its temporary file as directory entries
of inodes, and each command as its file system calls. `stored` and `overlapped`
are histories: the last identity whose store returned, and whether two commands
that change files ever ran at the same time.

**`ConnectionPool`** models every operation of the pool, `insert` as its check and
its insert, with other tasks in between. `removed` is a history: peers removed and
not inserted since.

**`Discovery`** models one node's address cache with a clock, the background task
(commands, prune timer, reported addresses) and `send_to_peer` with
`connect_peer`'s loop over the looked-up addresses, each attempt a step. libp2p
and the other nodes are environment: reports may be wrong or out of date, and an
address changes its owner at any time; an attempt to connect may fail whoever is
there. `seen`, `due`, `refused` and `met` are histories: when an address was last
reported, which addresses of the peer were known and fresh when a call looked them
up, where its attempts have failed, and whom it has connected to. `retain` is the
list of the kept positions in increasing order, written as a choice and not with
`SelectSeq`, of which the provers know nothing.

Left out everywhere: serialisation errors (all nodes run the same code), log
lines, and the contents of payloads.

Five modules put specifications that share no state side by side, so that one
module of proofs can speak of all of them; the first is extended, the others
instantiated, and their properties have aliases under their own names:

| module | extends | instantiates |
|---|---|---|
| `Connections` | `Orchestrator` | `SecureChannel` as `Channel` |
| `Routing` | `GossipMesh` | `Router` |
| `Services` | `Rpc` | `Chat`, `PubSub` |
| `Node` | `KeyStore` | `NodeCommands` as `Commands`, `ConnectionPool` as `Pool` |
| `Transport` | `NoiseConnection` | `Retry` |

`MCConnections`, `MCRouting`, `MCApplications`, `MCNode` and `MCTransport` check such
parts together: the variable `part`, chosen in the initial state, says which of them
moves, and the others rest. `MCRouting` adds `RouteGraph` to the two parts of
`Routing`, and `MCApplications` adds `Discovery` to the three of `Services`; both are
extended, with names of their own for the initial states, the steps and the
specification (`SearchSpec`, `DiscoverySpec`).

## Runs

Times are for two workers. Deadlock is checked in `routing` (where the mesh may rest
once its bounds are reached), `node` and `pool_limit`; the other systems may come to
rest (all sends made, all nodes shut down).

| run | states | instance | shows |
|---|---|---|---|
| `session` | 105 k, 1 min | a gossip and a probing loop at one node, an application task at the other, queues and connection of one frame, one shutdown at any time | `FramesConserved`, `ImplementsFifo`, `EverythingDelivered`, `SendsReturn`, `ShutdownCompletes` |
| `connections` | 83 k, 1 min | 2 nodes that connect to each other, both transports, one loss, one shutdown; channels with 2 messages and limit 2 | `MapIsSound`, `DeadEntriesHaveCause`, `ReplacedLoopsEnd`, `EndsTogether`, `ShutdownCompletes`; `KeyUsedOnce`, `ForwardSecrecy`, `LimitsAgree`, `LossIsFinal`, `ChannelIsFifo` |
| `routing` | 476 k, 2.5 min | a router with 2 tasks, 2 neighbours, 1 remote link, 2 measurements, sequences to 3; 3 nodes in a line, a link of the first and one of the second, 2 measurements and updates, losses along the line, a restart of the second; all 16384 graphs over 7 links between 4 nodes, costs 0, 1, 3 | `GraphMatchesTrackers`, `GraphMatchesGossip`, `UpdatesAreOrdered`, `GraphNeverGoesBack`; `PictureNeverGoesBack`, `UpdatesTakeEffect`; `ShortestPath`, `SearchReturns` |
| `applications` | 252 k, 2.5 min | 3 calls in both directions with losses and a restart of each node; 2 peers with 4 chat messages each and a channel of 2; 2 publishing peers, 2 topics, 3 subscribers; 2 peers with 2 addresses, one call, TTL of 2 ticks, clock to 2, command queue of 1 | `AnswerIsOwn`, `PendingAccounted`, `CallsReturn`; `PrintoutIsGapless`; `SubscribersMissNothing`; `LookupIsExact`, `FailureHasCause`, `ExpiredAreRemoved`, `LocalAddressAdvertised` |
| `node` | 420 k, 2 min | 2 processes and 2 identities; 4 inodes for the key store; 2 configuration files and 2 key paths for the commands; a pool with room for 1, 3 peers and 2 tasks; with symmetry | `KeyFileIsLastStored`, `InitKeepsIdentity`, `RunsAsInitialized`, `RemovedStaysRemoved` |
| `transport` | 159 k, 30 s | 3 frames one way and 2 the other, both transports, 2 major versions; 5 retry policies | `HandshakeAgrees`, `ConnectionIsFifo`, `FramesArrive`, `RetriesFollowPolicy` |

What else holds is only proved: `TypeOK` of the modules with proofs,
`InOrderExactlyOnce` of `SecureChannel`, `SettledIsFinal` of `RouteGraph` and
`OverrunBounded` of `ConnectionPool`.

Six runs end in a counterexample, because the code does not do what a document or
a comment says of it:

* `session_order`: `WritesAreSerialized` (`docs/security-review.md:68`). A sender
  encrypts under the transport lock and enqueues when it has released it
  (`lib.rs:239-252`), so two senders can enqueue in the other order, and a pong does
  not go through the write queue at all (`lib.rs:392`). Frames enter the connection
  behind frames with later nonces, and the peer rejects those and all that follow.
* `session_deadlock`: `LoopsReturn` (`docs/security-review.md:67`, "deadlock-free").
  A session loop awaits `conn.send` inside the arm of `select!` that it has taken
  (`lib.rs:376`, `392`) and does not read meanwhile. When the buffers of both
  directions are full, both loops wait for each other, and with them every sender
  and `shutdown()`. The passing run allows for that state (`Jammed`) and for no other.
* `connections_lock`: `ConnectsProceed` (`docs/security-review.md:69`). The
  accept loop waits in `accept()` with the transport mutex held (`lib.rs:315`);
  `connect_addr` gets it only after somebody has connected to this node.
* `gossip_spread`: `UpdatesSpread` (`router.rs:118-119`, `docs/routing.md:58`).
  `handle_wire_packet` discards what `process_link_state_update` returns, so nobody
  gossips an update further: in the line A - B - C, where nothing is lost and nobody
  restarts, C never learns of A's link.
* `pool_limit`: `WithinLimit` (`connection.rs:3`, `37` and `52`). Two tasks pass the
  check of `insert` together and both insert. `OverrunIsBounded` is the proof of how
  far this can go.
* `retry_limit`: `WaitsWithinLimit` (`retry.rs:21`). The first wait is
  `initial_interval` as it is; a policy that begins above its `max_interval`, which
  nothing rules out, waits longer than it says. The named policies do not.

Several passing properties have an exception in them, and the exception is what
the code really does: a session stops delivering after a rejection, when a loop has
ended (`docs/error-handling.md:45` plans to buffer messages and retry after the loss
of a connection; nothing of that is in the code) and in the deadlock above; a QUIC
connection can fall silent for good once `select!` has dropped a `recv` with bytes in
it (`FramesArrive` excepts it), though it delivers nothing wrong (`ConnectionIsFifo`);
a probing or gossip loop, or a session, whose task subscribes after the shutdown
signal goes on (`ShutdownCompletes` of `Session`); a session entry whose loop has ended
stays in the map, and `connect_peer` trusts it (`DeadEntriesHaveCause` says how it can
get there, two nodes that connect to each other at once being one way); an update
sent before its source restarted can replace a newer one sent after; a restarted node
numbers its updates from 1, and its neighbours drop them as old until it has caught
up; `connect_peer` does not look at who answered (`lib.rs:213`), so an address that has
become another peer's ends the search, and the send fails without a session
(`FailureHasCause`); the address reported longest ago is tried first; a call whose
message is lost never returns, and its entry in `pending_requests` is not removed when
the send fails or the caller gives up; request ids are reused after a restart; two
processes that store at the same time share one temporary file; a node that prints
chat messages stops for good when it has once lagged; a `config.toml` that was cut
short gives the defaults, with another name and key path, and if it does not parse
without the environment's overrides, which `config.rs:3-6` says have the highest
priority. The waits of the named retry policies end before they reach `max_interval`.
`omnimesh init` on a node with an identity prints the PeerId of the key pair it has
just generated (`main.rs:104`); the model leaves printing out.

### Bounds

Every bound is a constant: `REKEY_THRESHOLD` (2 instead of 10^6: sending up to, at
and past the limit all happen), `MaxMeasurements`, `MaxSequence`, `MaxUpdates`,
`MaxSends`, `MaxRestarts`, `MaxBytes`, `MaxTime`, `DEFAULT_TTL`, `CmdCapacity`,
`WriteCapacity`, `ConnCapacity`, `MaxFrames`, `MisreadLens`, `MaxMessages`,
`Capacity`, `max_connections`, and the sets of tasks, nodes, calls, processes,
inodes and pairs that may lose. They are chosen so that the interesting case is
reached: two tasks are one that holds a copy and one that overtakes it, and what
holds of the router is proved for any number; queues of one frame are full after one
send, and two sends from each end let the loops block each other; two updates of one
link on an old and a new session arrive out of order; two calls of one node overlap
while the peer calls back; a clock that runs for one TTL lets an address expire and
be reported again, and two addresses are one to fail at and one to succeed at; three
frames are one whose reading is dropped, one that is read in its place and one
behind it; misread lengths 0, 1 and 9 end inside the next frame, at its end and
never; more chat messages than the channel holds can wait; a pool with room for one
and two inserting tasks is overrun by one. Three hops of a path and a cycle of cost
0 off the target fit into four nodes. `Infinity` in `RouteGraph` is larger than any
path.

### Fairness

Safety runs of `SecureChannel`, `Router` and the node's files assume none, nor do
the pool, retries, chat and PubSub. Elsewhere: tokio polls a woken task again, so
steps of running tasks are weakly fair; `select!` picks among its ready branches at
random, so the accept loop's `accept_shutdown` and the `recv` of `NoiseConnection`
are strongly fair. `Session` assumes less: as long as any task can take a step, some
task does. The runtime has more than one worker thread, as `#[tokio::main]` gives:
`sessions.clear()` blocks the thread it runs on while a sender holds an entry, and
the session loop that lets the sender go on needs another. The sends of `Session`
are bounded and every step of a task moves a frame or ends something, so this is
enough for all of them. Timers drive the probing, gossip and prune steps, which are
weakly fair, as is the receipt of a discovery command: it stays in the queue until
its branch is picked. Nothing is assumed of the application, the network or the
operating system: connects, sends, losses, restarts and shutdowns may happen or not.

## Proofs

`tlapm` checks them for all values of the constants that meet the modules'
assumptions. Each module of proofs makes Zenon its default prover; a leaf that
needs arithmetic, sequences or records names SMT. A theorem about an
instantiated part is stated of that part's specification (`Channel!Spec`,
`Router!Spec`, ...).

* `SessionProofs` (`Session`). Pongs overtake queued frames, so nothing can be said
  of the order of frames on the connection. `IInv` says that the nonce of a frame
  is its place in the history (`Numbered`), and that what a sender, a queue, a loop
  or the connection holds was encrypted at the end it comes from (`Genuine`);
  `Invariance` is the proof that it always holds. A
  frame that opens is then the one whose turn it is: `ImplementsFifoHolds`. For
  `FramesConservedHolds` the way of a frame is cut into six stages. `FramesIInv` adds
  that the stages of a direction share no frame and, while both loops run, hold all
  that were made (`PlacedAt`), and that none holds a frame twice (`OnceEach`). Every
  step leaves the frames of a direction alone, moves one to another stage, adds one
  with a fresh nonce, or loses one when a loop has ended (`Flow`).
* `ConnectionProofs` (`Orchestrator`, `SecureChannel`). That the sessions map is sound
  needs to know of connections not yet in it: one that waits in a listener waits
  there once and has no responder (`Queued`), and an end is established only after
  the third handshake message (`Shaken`). With why an established connection can be
  broken (`BrokenHasCause`) this gives `MapIsSoundHolds` and
  `DeadEntriesHaveCauseHolds`. For the channel, that decrypt accepts only the next
  message depends on which keys exist: `ChannelIInv` says that a live key is as many
  ratchet steps old as its counter says, that the i-th ciphertext of a sender
  carries the i-th key of its half, and that the network holds only ciphertexts
  that were made. `ReceivedInOrder`, `KeysAreFresh`, `ForwardSecrecyHolds`,
  `LimitsAgreeHolds`, `LossIsFinalHolds` and the refinement `ChannelIsFifoHolds`.
* `NoiseConnectionProofs` (`NoiseConnection`). The handshake takes turns on one stream
  (`Turns`, `OneStream`), every piece on the way comes from a frame its sender made
  (`Genuine`), what an end has learnt is what the peer said (`Learnt`), and an end in
  the handshake has nothing unread or the message that is due (`Handshaking`).
  `HandshakeAgreesHolds` and the refinement `ConnectionIsFifoHolds`, whatever reads are
  dropped half way.
* `RoutingProofs` (`GossipMesh`, `Router`). In the mesh, as long as the source of a link
  has not restarted, its updates on all connections together are ordered by number as by
  measurement (`UpdatesInOrder`), and what a receiver will take for new is not older
  than what it has (`NewIsNotBehind`), nor what it will drop newer (`OldIsNotAhead`).
  Losing updates keeps all of this (`FewerIInv`). The assumption that no node has a
  session with itself is needed: a node's own picture changes without a number.
  `PictureNeverGoesBackHolds`, `UpdatesTakeEffectHolds`. In the router, `RouterIInv`
  adds what the guards achieve: a copy made under a tracker's guard is still current
  (`CopiesAreFresh`), the task that applies an update is the only one for its link and
  holds the latest sequence (`AppliersAreCurrent`), and nothing is ahead of its tracker
  (`NothingAhead`). `TrackersInGraph`, `GossipInGraph`, `UpdatesOrdered`,
  `NoEdgeGoesBack`.
* `RouteGraphProofs` (`RouteGraph`). Dijkstra's argument for all finite graphs with
  natural costs, 0 included. No heap entry is cheaper than the one popped last
  (`HeapIsDearer`), a node that was reached waits in the heap or its links have been
  looked at (`Explored`), predecessors account for distances (`PredecessorsAreTight`)
  and have no cycle (`Acyclic`: with links of cost 0 the distances do not show it).
  `SettledIsFinalHolds`; and `ShortestPathHolds`, against the set of all simple paths.
  Where the argument goes along a path, it takes the least position at which the
  claim would fail, since induction over data is out of reach.
* `ServicesProofs` (`Rpc`, `Chat`, `PubSub`). That a response finds its own call rests on
  ids: those of a node that has not restarted are distinct and below its counter
  (`IdsAreDistinct`), and a packet carries the id of its call (`PacketsMatch`).
  `AnswersAreOwn`, `PendingIsAccounted`. The place of the chat's reader in the log says
  exactly what it has printed (`ReaderIsAt`): `PrintoutIsGaplessHolds`. A walk over the
  senders of a topic keeps new subscribers out (`WalksAreGuarded`), so whoever it has
  not come to lacks its message and no other (`AllServed`):
  `SubscribersMissNothingHolds`.
* `NodeProofs` (`KeyStore`, `NodeCommands`, `ConnectionPool`). The key file and the
  temporary file are different inodes, and unless commands have overlapped only one
  process is inside a command and the temporary file is its own: `KeyFileIsSafe`,
  `InitKeepsIdentityHolds`. Of the commands, `init` has stored its key before the
  configuration that names it (`StoredFirst`), and what a command has read is still so
  (`ReadsAreFresh`): `RunsAsInitializedHolds`. Of the pool, entries plus inserts under
  way stay below the limit plus the number of tasks: `OverrunIsBounded`,
  `RemovedStaysOut`.
* `DiscoveryProofs` (`Discovery`). First that `retain` is well defined: the positions
  kept from a list can be listed in increasing order (a least number of positions
  for which they could not leads to a smaller one), by a function as long as they are
  many. Then the cache: a peer's list is ordered by last report, an entry expires one
  TTL after its address was last reported, and a reported address that is missing
  has expired (`Current`, an invariant as `CacheInv`). Insertion, pruning and the clock
  keep this, so a lookup gives the addresses reported within the TTL, oldest first:
  `LookupIsExactHolds`. For the calls, `CallInv` says of each what its place
  in the loop allows (`Sound`): the addresses that were due when it looked are still to
  be tried or have refused it, whom it has connected to has a session, and it leaves
  the loop connected only after it has connected to somebody. That it looked up exactly
  what was due is `LookupIsExact`: `FailureHasCauseHolds`.

Only model-checked:

* all liveness properties (`EverythingDelivered`, `SendsReturn`, both
  `ShutdownCompletes`, `ReplacedLoopsEnd`, `EndsTogether`, `SearchReturns`,
  `ExpiredAreRemoved`, `LocalAddressAdvertised`, `CallsReturn`,
  `FramesArrive`): the prover handles neither fairness nor ENABLED;
* `RetriesFollowPolicy` of `Retry`: that the k-th wait has the closed form is an
  induction over k, and holds only of policies whose waits are whole numbers.

## Not modelled

* Of discovery: libp2p itself, `PeerAddressCache::remove`, which nothing calls, and
  the branch for `GetClosestPeers` results (`service.rs:202-215`): only `bootstrap`
  queries are started, whose results that branch ignores. An mDNS `Expired` event
  changes nothing.
* Of the transports: `listen`, certificates and the TLS set-up, which happen once
  before anything else.
* Of the orchestrator: `register_service`, since services are registered before
  messages arrive, and the accessors, which change nothing.
* The averages and costs of `metrics.rs` (floating point: `Router` counts
  measurements instead, `RouteGraph` takes costs as natural numbers), key
  derivation and ciphers (symbolic), key pairs, peer ids and virtual IPs (pure
  functions), telemetry (logging), examples, benchmarks and fuzz targets.

## Plan

1. Sessions and start-up together: `build` spawns the loops of `Session` and
   the accept loop of `Orchestrator`; one model of both is too large for TLC as they
   stand.
