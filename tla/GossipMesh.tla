----------------------------- MODULE GossipMesh -----------------------------
(***************************************************************************)
(* Link-state gossip among several nodes: run_probing_loop, run_gossip_loop*)
(* and handle_wire_packet (crates/omnimesh-sdk/src/lib.rs) around one      *)
(* Router per node (crates/omnimesh-routing/src/router.rs), taken as       *)
(* atomic here; module Router looks inside it.  Nodes may restart, which   *)
(* loses everything: nothing of the router is stored.  Connections break,  *)
(* and are closed by the loop that drained a replaced one, which loses     *)
(* what the peer has not read; nothing is sent again.                      *)
(*                                                                         *)
(* The metrics of a link are abstracted to the number of the measurement   *)
(* they come from, counted over all restarts of its source; 0 is no link.  *)
(***************************************************************************)
EXTENDS Naturals, Sequences

CONSTANTS Nodes,
          Adjacent,         \* pairs of nodes with a session, in both orders
          Measured,         \* the links (source, destination) that get measured
          MaxMeasurements,  \* bound on the measurements of a link
          MaxUpdates,       \* bound on the updates a node numbers
          MayLose,          \* the pairs whose connections may lose updates
          MayRestart,       \* the nodes that may restart
          MaxRestarts       \* bound on the restarts of each of them

ASSUME MeshAssumption ==
    /\ Adjacent \subseteq Nodes \X Nodes
    /\ \A a \in Adjacent : <<a[2], a[1]>> \in Adjacent /\ a[1] # a[2]
    /\ Measured \subseteq Adjacent
    /\ MayLose \subseteq Adjacent
    /\ MayRestart \subseteq Nodes
    /\ MaxMeasurements \in Nat /\ MaxUpdates \in Nat /\ MaxRestarts \in Nat

VARIABLES clock,               \* history: measurements made of each link
          local_trackers,      \* what the source of a link has of it
          sequence_generator,
          gossip_sequences,    \* highest sequence n applied for a link
          graph,               \* graph[n][l]: what n's route graph has of l
          wire,                \* wire[<<a, k>>]: updates from a[1] on the way to a[2]
          restarts

vars == <<clock, local_trackers, sequence_generator, gossip_sequences, graph,
          wire, restarts>>

\* The connections between adjacent nodes: the one in use, and the one that
\* it replaced, whose queue is still being drained.
Conns == Adjacent \X {"old", "new"}

Updates == [link : Measured, metrics : Nat, sequence : Nat]

first_sequence == 1

Init ==
    /\ clock = [l \in Measured |-> 0]
    /\ local_trackers = [l \in Measured |-> 0]
    /\ sequence_generator = [n \in Nodes |-> first_sequence]
    /\ gossip_sequences = [n \in Nodes |-> [l \in Measured |-> 0]]
    /\ graph = [n \in Nodes |-> [l \in Measured |-> 0]]
    /\ wire = [c \in Conns |-> <<>>]
    /\ restarts = [n \in Nodes |-> 0]

-----------------------------------------------------------------------------
\* A ping is answered by the pong that the source of l turns into a
\* measurement: record_latency, with its update of the source's own graph.
record_latency(l) ==
    LET n == l[1]
    IN  /\ clock[l] < MaxMeasurements
        /\ clock' = [clock EXCEPT ![l] = @ + 1]
        /\ local_trackers' = [local_trackers EXCEPT ![l] = clock[l] + 1]
        /\ graph' = [graph EXCEPT ![n][l] = clock[l] + 1]
        /\ UNCHANGED <<sequence_generator, gossip_sequences, wire, restarts>>

\* The connections that an update about l goes to.
Recipients(l) == {c \in Conns : c[1][1] = l[1] /\ c[2] = "new"}

\* One round of run_gossip_loop's outer loop: get_link_state_update for the
\* session's peer, None without a tracker, then the update to every session.
gossip(l) ==
    LET n == l[1]
        u == [link |-> l, metrics |-> local_trackers[l], sequence |-> sequence_generator[n]]
    IN  /\ local_trackers[l] > 0
        /\ sequence_generator[n] <= MaxUpdates
        /\ sequence_generator' = [sequence_generator EXCEPT ![n] = @ + 1]
        /\ wire' = [c \in Conns |-> IF c \in Recipients(l) THEN Append(wire[c], u)
                                                           ELSE wire[c]]
        /\ UNCHANGED <<clock, local_trackers, gossip_sequences, graph, restarts>>

\* Plausible bug: the comparison is the wrong way round.
isNewReversed(n, u) == u.sequence <= gossip_sequences[n][u.link]

\* Plausible bug: the sequence is not compared.
isNewAlways(n, u) == TRUE

\* process_link_state_update applies the update.
isNew(n, u) == u.sequence > gossip_sequences[n][u.link]

add_link(n, u) == [graph EXCEPT ![n][u.link] = u.metrics]

\* handle_wire_packet for a control packet that arrives on c.  Nothing is sent
\* on: the result of process_link_state_update is discarded.
process_link_state_update(c) ==
    LET n == c[1][2]
        u == Head(wire[c])
    IN  /\ wire[c] # <<>>
        /\ wire' = [wire EXCEPT ![c] = Tail(@)]
        /\ IF isNew(n, u)
           THEN /\ gossip_sequences' = [gossip_sequences EXCEPT ![n][u.link] = u.sequence]
                /\ graph' = add_link(n, u)
           ELSE UNCHANGED <<gossip_sequences, graph>>
        /\ UNCHANGED <<clock, local_trackers, sequence_generator, restarts>>

\* A second connection between the same nodes replaces the session.  The loop
\* of the first one sends what was queued, at its own pace, and then closes the
\* connection, so that any part of it may still be lost (lose).
replace_session(a) ==
    /\ wire[<<a, "old">>] = <<>>
    /\ wire[<<a, "new">>] # <<>>
    /\ wire' = [wire EXCEPT ![<<a, "old">>] = wire[<<a, "new">>], ![<<a, "new">>] = <<>>]
    /\ UNCHANGED <<clock, local_trackers, sequence_generator, gossip_sequences,
                   graph, restarts>>

\* A connection breaks or is closed: of what is on the way, all from some
\* update on is lost.  The updates of a broken session, which stays in the
\* map, are lost one by one as they are sent.
lose(c) ==
    /\ c[1] \in MayLose
    /\ \E i \in DOMAIN wire[c] : wire' = [wire EXCEPT ![c] = SubSeq(@, 1, i - 1)]
    /\ UNCHANGED <<clock, local_trackers, sequence_generator, gossip_sequences,
                   graph, restarts>>

\* The frame of an update does not have the number that the receiver's
\* transport expects: decrypt fails, and the loop logs the error and goes on.
reject(c) ==
    /\ c[1] \in MayLose
    /\ wire[c] # <<>>
    /\ wire' = [wire EXCEPT ![c] = Tail(@)]
    /\ UNCHANGED <<clock, local_trackers, sequence_generator, gossip_sequences,
                   graph, restarts>>

\* The node stops and starts again: a new Router, whose sequence numbers start
\* at 1, with new sessions.  What was on its way to it is lost; what it sent may
\* be lost, or have reached the peer, whose old session loop still reads it.
restart(n) ==
    /\ n \in MayRestart
    /\ restarts[n] < MaxRestarts
    /\ restarts' = [restarts EXCEPT ![n] = @ + 1]
    /\ local_trackers' = [l \in Measured |-> IF l[1] = n THEN 0 ELSE local_trackers[l]]
    /\ sequence_generator' = [sequence_generator EXCEPT ![n] = first_sequence]
    /\ gossip_sequences' = [gossip_sequences EXCEPT ![n] = [l \in Measured |-> 0]]
    /\ graph' = [graph EXCEPT ![n] = [l \in Measured |-> 0]]
    /\ \E arrived \in BOOLEAN :
           wire' = [c \in Conns |->
                      IF n \notin {c[1][1], c[1][2]} THEN wire[c]
                      ELSE IF arrived /\ c[1][1] = n /\ c[2] = "old"
                      THEN wire[c] \o wire[<<c[1], "new">>] ELSE <<>>]
    /\ UNCHANGED clock

Next ==
    \/ \E l \in Measured : record_latency(l) \/ gossip(l)
    \/ \E c \in Conns : process_link_state_update(c) \/ lose(c) \/ reject(c)
    \/ \E a \in Adjacent : replace_session(a)
    \/ \E n \in Nodes : restart(n)

Spec == Init /\ [][Next]_vars

\* The probing and gossip loops are driven by timers and the session loops by
\* what arrives, so each of their steps goes on happening.  Nothing makes a
\* node restart, a session be replaced or an update be lost.
Fairness ==
    /\ \A l \in Measured : WF_vars(record_latency(l)) /\ WF_vars(gossip(l))
    /\ \A c \in Conns : WF_vars(process_link_state_update(c))

FairSpec == Spec /\ Fairness

-----------------------------------------------------------------------------
\* Types of the routers, the wires and the histories.
TypeOK ==
    /\ clock \in [Measured -> 0..MaxMeasurements]
    /\ local_trackers \in [Measured -> 0..MaxMeasurements]
    /\ sequence_generator \in [Nodes -> 1..(MaxUpdates + 1)]
    /\ gossip_sequences \in [Nodes -> [Measured -> 0..MaxUpdates]]
    /\ graph \in [Nodes -> [Measured -> 0..MaxMeasurements]]
    /\ wire \in [Conns -> Seq(Updates)]
    /\ restarts \in [Nodes -> 0..MaxRestarts]

\* As long as a node and the source of a link run, the node's edge for the link
\* is not replaced by an older measurement, although a replaced session delivers
\* late and other nodes restart (router.rs:124-135).  After a restart of the
\* source, an update of its earlier life can replace a newer one.
PictureNeverGoesBack ==
    [][\A n \in Nodes, l \in Measured :
           graph'[n][l] < graph[n][l] =>
               restarts'[n] # restarts[n] \/ restarts[l[1]] > 0]_vars

\* An update that a node reads leaves the node with that measurement of the link
\* or a later one, unless the source of the link has restarted: no update is
\* dropped as old that was not overtaken, whichever updates before it were lost and
\* in whatever order the connections of a pair deliver (router.rs:124-127).
UpdatesTakeEffect ==
    [][\A c \in Conns :
           process_link_state_update(c) =>
               LET u == Head(wire[c])
               IN  graph'[c[1][2]][u.link] >= u.metrics \/ restarts[u.link[1]] > 0]_vars

\* What a node has learnt of a link, its neighbours learn too: "the caller should
\* gossip it further" (router.rs:118-119), "Link-state updates propagated via
\* gossip" (routing.md:58).  handle_wire_packet discards the result
\* (lib.rs:460-462), so nothing is known more than one hop from its source.
UpdatesSpread ==
    \A a \in Adjacent, l \in Measured : graph[a[1]][l] > 0 ~> graph[a[2]][l] > 0
=============================================================================
