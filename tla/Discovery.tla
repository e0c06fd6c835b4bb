----------------------------- MODULE Discovery -----------------------------
(***************************************************************************)
(* Peer discovery of one node: the address cache (crates/                  *)
(* omnimesh-discovery/src/cache.rs), the background task that fills and    *)
(* prunes it and takes commands (service.rs), and the calls of             *)
(* send_to_peer and connect_peer (crates/omnimesh-sdk/src/lib.rs) that     *)
(* look addresses up and try them one by one.                              *)
(*                                                                         *)
(* The other nodes are environment: they come to, leave and take over      *)
(* addresses, and what libp2p reports about them may be out of date.       *)
(* connect_addr is one step here; module Orchestrator looks inside it and  *)
(* has shutdown, after which nobody calls.                                 *)
(***************************************************************************)
EXTENDS Naturals, Sequences, Functions, FiniteSets

CONSTANTS Peers,
          Discovered,    \* the peers that libp2p reports
          Addrs,         \* socket addresses
          Nobody,        \* owner of an address where nothing listens
          Unusable,      \* a report that has no socket address or no PeerId
          Callers,       \* calls of send_to_peer
          To,            \* To[c]: the peer that c sends to
          DEFAULT_TTL,
          CmdCapacity,   \* of the command queue
          MaxTime        \* bound on the clock

ASSUME DiscoveryAssumption ==
    /\ Nobody \notin Peers
    /\ Discovered \subseteq Peers
    /\ To \in [Callers -> Peers]
    /\ {DEFAULT_TTL, CmdCapacity, MaxTime} \subseteq Nat \ {0}

VARIABLES now,
          inner,       \* inner[p]: cached addresses; the empty list is no entry
          cmds,        \* the command queue
          build,       \* next step of the node's start-up
          external,    \* the local address is advertised
          owner,       \* who listens at an address
          sessions,    \* keys of the sessions map
          sending,     \* sending[c]: where c is, with the addresses left to try
          seen,        \* history: time of the last report of an address, plus 1
          met,         \* history: the peers that c has connected to
          due,         \* history: the addresses c had to find when it looked
          refused      \* history: the addresses where c got an error

taskVars == <<inner, cmds, external, seen>>
callVars == <<sessions, sending, met, due, refused>>
discoveryVars == <<now, taskVars, build, owner, callVars>>

Commands == {"Bootstrap", "RegisterLocalAddr"}

Reports == (Discovered \X Addrs) \cup {Unusable}

DiscoveryInit ==
    /\ now = 0
    /\ inner = [p \in Peers |-> <<>>]
    /\ cmds = <<>>
    /\ build = "Bootstrap"
    /\ external = FALSE
    /\ owner \in [Addrs -> Peers \cup {Nobody}]
    /\ sessions = {}
    /\ sending = [c \in Callers |-> [at |-> "idle", rest |-> <<>>]]
    /\ seen = [p \in Peers |-> [a \in Addrs |-> 0]]
    /\ met = [c \in Callers |-> {}]
    /\ due = [c \in Callers |-> {}]
    /\ refused = [c \in Callers |-> {}]

-----------------------------------------------------------------------------
(* The cache *)

active(x) == x.expires_at > now

\* f lists the positions in kept in increasing order.
lists(f, kept) ==
    /\ \A i, j \in DOMAIN f : i < j => f[i] < f[j]
    /\ \A k \in kept : \E i \in DOMAIN f : f[i] = k

\* What retain leaves of a list: the entries at the positions in kept.
retain(list, kept) ==
    LET at == CHOOSE f \in [1..Cardinality(kept) -> kept] : lists(f, kept)
    IN  [i \in DOMAIN at |-> list[at[i]]]

\* Plausible bug: the old entry of a refreshed address is kept.
insert_with_ttlTwice(p, a, ttl) ==
    [inner EXCEPT ![p] = Append(@, [addr |-> a, expires_at |-> now + ttl])]

insert_with_ttl(p, a, ttl) ==
    LET others == retain(inner[p], {i \in DOMAIN inner[p] : inner[p][i].addr # a})
    IN  [inner EXCEPT ![p] = Append(others, [addr |-> a, expires_at |-> now + ttl])]

unexpired(p) == retain(inner[p], {i \in DOMAIN inner[p] : active(inner[p][i])})

lookup(p) == LET list == unexpired(p)
             IN  [i \in DOMAIN list |-> list[i].addr]

\* Plausible bug: only peers without any active address are pruned.
prunePeers ==
    [p \in Peers |-> IF lookup(p) = <<>> THEN <<>> ELSE inner[p]]

prune == [p \in Peers |-> unexpired(p)]

-----------------------------------------------------------------------------
(* The background task *)

tick_prune ==
    /\ inner' = prune
    /\ UNCHANGED <<now, cmds, build, external, owner, callVars, seen>>

\* Plausible bug: every command is taken for Bootstrap.
cmd_recvBootstrap ==
    /\ cmds # <<>>
    /\ cmds' = Tail(cmds)
    /\ UNCHANGED <<now, inner, build, external, owner, callVars, seen>>

\* Bootstrap starts a Kademlia query inside libp2p, whose results do not reach
\* the cache.
cmd_recv ==
    /\ cmds # <<>>
    /\ cmds' = Tail(cmds)
    /\ external' = (external \/ Head(cmds) = "RegisterLocalAddr")
    /\ UNCHANGED <<now, inner, build, owner, callVars, seen>>

\* The next address of an mDNS Discovered or Identify Received event.  Other
\* tasks may run between two addresses of an event.
discovered(r) ==
    /\ IF r = Unusable
       THEN UNCHANGED <<inner, seen>>
       ELSE /\ inner' = insert_with_ttl(r[1], r[2], DEFAULT_TTL)
            /\ seen' = [seen EXCEPT ![r[1]][r[2]] = now + 1]
    /\ UNCHANGED <<now, cmds, build, external, owner, callVars>>

cmd_send(cmd) ==
    /\ Len(cmds) < CmdCapacity
    /\ cmds' = Append(cmds, cmd)

\* DiscoveryService::new sends Bootstrap, then build registers the address.
build_step ==
    /\ build \in Commands
    /\ cmd_send(build)
    /\ build' = IF build = "Bootstrap" THEN "RegisterLocalAddr" ELSE "built"
    /\ UNCHANGED <<now, inner, external, owner, callVars, seen>>

\* The application forces a bootstrap.
bootstrap ==
    /\ build = "built"
    /\ cmd_send("Bootstrap")
    /\ UNCHANGED <<now, inner, build, external, owner, callVars, seen>>

-----------------------------------------------------------------------------
(* send_to_peer *)

Return(c, result) == sending' = [sending EXCEPT ![c] = [at |-> result, rest |-> <<>>]]

\* The addresses of p that were reported less than DEFAULT_TTL ago.
fresh(p) == {a \in Addrs : seen[p][a] > 0 /\ now < seen[p][a] - 1 + DEFAULT_TTL}

\* send_to_peer and the first part of connect_peer.
connect_peer(c) ==
    LET addrs == lookup(To[c])
    IN  /\ build = "built"
        /\ sending[c].at = "idle"
        /\ IF To[c] \in sessions THEN Return(c, "connected")
           ELSE IF addrs = <<>> THEN Return(c, "no_addresses")
           ELSE sending' = [sending EXCEPT ![c] = [at |-> "trying", rest |-> addrs]]
        /\ due' = [due EXCEPT ![c] = fresh(To[c])]
        /\ UNCHANGED <<now, taskVars, build, owner, sessions, met, refused>>

\* Plausible bug: the first error is returned at once.
next_addressNone(c) == Return(c, "failed")

\* The next round of the loop over the addresses, after an error.
next_address(c) ==
    IF Len(sending[c].rest) = 1 THEN Return(c, "failed")
    ELSE sending' = [sending EXCEPT ![c].rest = Tail(@)]

\* connect_addr, which opens a session with whoever listens at the address;
\* connect_peer does not look at who that is.  It fails when nobody listens, and
\* may fail although somebody does: the connection is refused or times out, the
\* handshake breaks off or the versions differ.
connect_addr(c) ==
    LET a == Head(sending[c].rest)
        q == owner[a]
    IN  /\ sending[c].at = "trying"
        /\ \/ /\ next_address(c)
              /\ refused' = [refused EXCEPT ![c] = @ \cup {a}]
              /\ UNCHANGED <<sessions, met>>
           \/ /\ q # Nobody
              /\ sessions' = sessions \cup {q}
              /\ met' = [met EXCEPT ![c] = @ \cup {q}]
              /\ Return(c, "connected")
              /\ UNCHANGED refused
        /\ UNCHANGED <<now, taskVars, build, owner, due>>

\* The rest of send_to_peer: the session, or an error without one.
send(c) ==
    /\ sending[c].at = "connected"
    /\ Return(c, IF To[c] \in sessions THEN "sent" ELSE "no_session")
    /\ UNCHANGED <<now, taskVars, build, owner, sessions, met, due, refused>>

-----------------------------------------------------------------------------
(* The environment *)

\* q comes to address a, where it replaces whoever was there, or nobody does.
move(a, q) ==
    /\ owner[a] # q
    /\ owner' = [owner EXCEPT ![a] = q]
    /\ UNCHANGED <<now, taskVars, build, callVars>>

\* The accept loop inserts the session of a peer that has connected to us.
accept(q) ==
    /\ sessions' = sessions \cup {q}
    /\ UNCHANGED <<now, taskVars, build, owner, sending, met, due, refused>>

pass_time ==
    /\ now < MaxTime
    /\ now' = now + 1
    /\ UNCHANGED <<taskVars, build, owner, callVars>>

DiscoveryNext ==
    \/ tick_prune \/ cmd_recv \/ \E r \in Reports : discovered(r)
    \/ build_step \/ bootstrap
    \/ \E c \in Callers : connect_peer(c) \/ connect_addr(c) \/ send(c)
    \/ \E a \in Addrs, q \in Peers \cup {Nobody} : move(a, q)
    \/ \E q \in Peers : accept(q)
    \/ pass_time

DiscoverySpec == DiscoveryInit /\ [][DiscoveryNext]_discoveryVars

\* select! picks at random among its ready arms, so a timer that goes off again
\* and again and a queued command are served however many events there are.
\* Nothing makes events arrive, nodes move or the application call.
DiscoveryFairness ==
    /\ WF_discoveryVars(tick_prune)
    /\ WF_discoveryVars(cmd_recv)
    /\ WF_discoveryVars(build_step)

FairDiscovery == DiscoverySpec /\ DiscoveryFairness

-----------------------------------------------------------------------------
\* Whatever was refreshed or pruned and when, lookup (cache.rs:61-73) returns
\* exactly the addresses reported for the peer less than DEFAULT_TTL ago, each
\* once, the one that was reported longest ago first.
LookupIsExact ==
    \A p \in Peers :
        LET addrs == lookup(p)
        IN  /\ Range(addrs) = fresh(p)
            /\ IsInjective(addrs)
            /\ \A i, j \in DOMAIN addrs : i < j => seen[p][addrs[i]] <= seen[p][addrs[j]]

\* send_to_peer (lib.rs:224-232) gives up only for a reason, however addresses
\* are reported, expire and change hands meanwhile: no address of the peer was
\* known and fresh when it looked; or every one that was has been tried and has
\* failed (lib.rs:211-216); or an address was another peer's by then, with which
\* connect_peer (lib.rs:213) is content.
FailureHasCause ==
    \A c \in Callers :
        /\ sending[c].at = "no_addresses" => due[c] = {}
        /\ sending[c].at = "failed" => due[c] # {} /\ due[c] \subseteq refused[c]
        /\ sending[c].at = "no_session" => met[c] # {} /\ To[c] \notin met[c]
        /\ sending[c].at = "trying" => due[c] \subseteq refused[c] \cup Range(sending[c].rest)

\* Again and again the cache has nothing expired in it: an address that is not
\* reported any more goes, also while its peer's other addresses are refreshed
\* (cache.rs:81-87, service.rs:155-157).
ExpiredAreRemoved ==
    []<>(\A p \in Peers : \A i \in DOMAIN inner[p] : active(inner[p][i]))

\* A node that has been built has its address advertised sooner or later, and
\* then for good, however busy the task is with events and forced bootstraps
\* (lib.rs:747-749, service.rs:167-171).
LocalAddressAdvertised == []<>(build = "built" => external)
=============================================================================
