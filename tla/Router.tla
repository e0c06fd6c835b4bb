------------------------------- MODULE Router -------------------------------
(***************************************************************************)
(* One node's routing coordinator, crates/omnimesh-routing/src/router.rs,  *)
(* called by several tasks at once: session loops record latencies and     *)
(* apply gossip, the gossip loop builds updates.  A step is what a task    *)
(* does between two points where another task can run; the DashMap guards  *)
(* it keeps across such a point are part of its program counter.  The      *)
(* graph's RwLock is only ever taken for one add_link, so that write is a  *)
(* step.                                                                   *)
(*                                                                         *)
(* Metrics are abstracted to a version.  For a local link it counts the    *)
(* measurements folded into the moving averages, for a remote link it is   *)
(* the sequence number its source gave the snapshot; 0 means that there is *)
(* no tracker or no link.  A sequence number identifies its snapshot       *)
(* because a source numbers its updates from one counter.                  *)
(***************************************************************************)
EXTENDS Naturals

CONSTANTS Tasks,            \* tasks that call into the router
          Peers,            \* direct neighbours
          RemoteLinks,      \* (source, destination) pairs heard of by gossip
          MaxMeasurements,  \* bound on measurements per neighbour
          MaxSequence       \* bound on gossip sequence numbers

VARIABLES local_trackers,      \* version of the tracker of each neighbour
          graph_local,         \* graph edges from the local peer
          graph_remote,        \* graph edges learnt by gossip
          gossip_sequences,    \* highest sequence applied per remote link
          sequence_generator,
          pc,                  \* what each task is in the middle of
          out                  \* history: updates handed to the gossip loop

vars == <<local_trackers, graph_local, graph_remote, gossip_sequences,
          sequence_generator, pc, out>>

Idle == [at |-> "idle"]

TypeOfPc ==
    {Idle}
    \cup [at : {"recorded"}, peer : Peers]
    \cup [at : {"linking", "stamping"}, peer : Peers, metrics : Nat]
    \cup [at : {"applying"}, link : RemoteLinks, metrics : Nat]

\* Tasks that hold a read guard on the tracker of p.
\* Plausible bug: the guards are dropped as soon as the metrics are copied.
TrackerReadersNone(p) == {}

TrackerReaders(p) ==
    {t \in Tasks : pc[t].at \in {"linking", "stamping"} /\ pc[t].peer = p}

\* Tasks that hold the entry guard of link l in gossip_sequences.
SequenceHolders(l) == {t \in Tasks : pc[t].at = "applying" /\ pc[t].link = l}

Init ==
    /\ local_trackers = [p \in Peers |-> 0]
    /\ graph_local = [p \in Peers |-> 0]
    /\ graph_remote = [l \in RemoteLinks |-> 0]
    /\ gossip_sequences = [l \in RemoteLinks |-> 0]
    /\ sequence_generator = 1
    /\ pc = [t \in Tasks |-> Idle]
    /\ out = {}

-----------------------------------------------------------------------------
\* record_latency, record_bandwidth and record_loss_rate: fold a measurement
\* into the tracker under its entry guard, which the statement then drops.
record(t, p) ==
    /\ pc[t] = Idle
    /\ TrackerReaders(p) = {}
    /\ local_trackers[p] < MaxMeasurements
    /\ local_trackers' = [local_trackers EXCEPT ![p] = @ + 1]
    /\ pc' = [pc EXCEPT ![t] = [at |-> "recorded", peer |-> p]]
    /\ UNCHANGED <<graph_local, graph_remote, gossip_sequences,
                   sequence_generator, out>>

\* update_graph_link, up to the lock on the graph: take a read guard on the
\* tracker and copy its metrics.
update_graph_link_read(t) ==
    /\ pc[t].at = "recorded"
    /\ pc' = [pc EXCEPT ![t] = [at |-> "linking", peer |-> pc[t].peer,
                                metrics |-> local_trackers[pc[t].peer]]]
    /\ UNCHANGED <<local_trackers, graph_local, graph_remote, gossip_sequences,
                   sequence_generator, out>>

\* The rest of update_graph_link: add_link, then both guards go.
update_graph_link_write(t) ==
    /\ pc[t].at = "linking"
    /\ graph_local' = [graph_local EXCEPT ![pc[t].peer] = pc[t].metrics]
    /\ pc' = [pc EXCEPT ![t] = Idle]
    /\ UNCHANGED <<local_trackers, graph_remote, gossip_sequences,
                   sequence_generator, out>>

\* get_link_state_update, up to the counter: None without a tracker.
get_link_state_update_read(t, p) ==
    /\ pc[t] = Idle
    /\ local_trackers[p] > 0
    /\ sequence_generator <= MaxSequence
    /\ pc' = [pc EXCEPT ![t] = [at |-> "stamping", peer |-> p,
                                metrics |-> local_trackers[p]]]
    /\ UNCHANGED <<local_trackers, graph_local, graph_remote, gossip_sequences,
                   sequence_generator, out>>

\* Plausible bug: the counter is loaded and stored, and the store is lost.
fetch_addLost == sequence_generator

fetch_add == sequence_generator + 1

\* The rest of get_link_state_update: fetch_add, then the guard goes.
get_link_state_update_stamp(t) ==
    /\ pc[t].at = "stamping"
    /\ sequence_generator' = fetch_add
    /\ out' = out \cup {[destination |-> pc[t].peer, metrics |-> pc[t].metrics,
                         sequence |-> sequence_generator]}
    /\ pc' = [pc EXCEPT ![t] = Idle]
    /\ UNCHANGED <<local_trackers, graph_local, graph_remote, gossip_sequences>>

\* Plausible bug: the sequence is stored before it is compared.
process_link_state_update_checkFirst(t, l, s) ==
    /\ pc[t] = Idle
    /\ SequenceHolders(l) = {}
    /\ gossip_sequences' = [gossip_sequences EXCEPT ![l] = s]
    /\ IF s <= gossip_sequences[l]
       THEN UNCHANGED pc
       ELSE pc' = [pc EXCEPT ![t] = [at |-> "applying", link |-> l, metrics |-> s]]
    /\ UNCHANGED <<local_trackers, graph_local, graph_remote,
                   sequence_generator, out>>

\* process_link_state_update, up to the lock on the graph.  A task waits for
\* the entry guard of the link; an old update is dropped.
process_link_state_update_check(t, l, s) ==
    /\ pc[t] = Idle
    /\ SequenceHolders(l) = {}
    /\ IF s <= gossip_sequences[l]
       THEN UNCHANGED <<gossip_sequences, pc>>
       ELSE /\ gossip_sequences' = [gossip_sequences EXCEPT ![l] = s]
            /\ pc' = [pc EXCEPT ![t] = [at |-> "applying", link |-> l, metrics |-> s]]
    /\ UNCHANGED <<local_trackers, graph_local, graph_remote,
                   sequence_generator, out>>

\* The rest of process_link_state_update: add_link, then both guards go.
process_link_state_update_apply(t) ==
    /\ pc[t].at = "applying"
    /\ graph_remote' = [graph_remote EXCEPT ![pc[t].link] = pc[t].metrics]
    /\ pc' = [pc EXCEPT ![t] = Idle]
    /\ UNCHANGED <<local_trackers, graph_local, gossip_sequences,
                   sequence_generator, out>>

Step(t) ==
    \/ update_graph_link_read(t)
    \/ update_graph_link_write(t)
    \/ get_link_state_update_stamp(t)
    \/ process_link_state_update_apply(t)

Next ==
    \E t \in Tasks :
        \/ Step(t)
        \/ \E p \in Peers : record(t, p) \/ get_link_state_update_read(t, p)
        \/ \E l \in RemoteLinks, s \in 1..MaxSequence :
               process_link_state_update_check(t, l, s)

Spec == Init /\ [][Next]_vars

-----------------------------------------------------------------------------
\* Types of the router's maps and of the calls in progress.
TypeOK ==
    /\ local_trackers \in [Peers -> 0..MaxMeasurements]
    /\ graph_local \in [Peers -> Nat]
    /\ graph_remote \in [RemoteLinks -> Nat]
    /\ gossip_sequences \in [RemoteLinks -> Nat]
    /\ sequence_generator \in Nat \ {0}
    /\ pc \in [Tasks -> TypeOfPc]
    /\ out \in SUBSET [destination : Peers, metrics : Nat, sequence : Nat]

\* p has been measured by a task that has not written the graph yet.
Pending(p) ==
    \E t \in Tasks : pc[t].at \in {"recorded", "linking"} /\ pc[t].peer = p

\* When no record_* call on a neighbour is in progress, the edge that
\* find_route uses is the neighbour's current average, however the calls
\* interleaved (router.rs:56-95).
GraphMatchesTrackers ==
    \A p \in Peers : ~Pending(p) => graph_local[p] = local_trackers[p]

\* When no task is inside process_link_state_update for a link, its edge is
\* the snapshot with the highest sequence ever accepted for it
\* (router.rs:120-136).
GraphMatchesGossip ==
    \A l \in RemoteLinks :
        SequenceHolders(l) = {} => graph_remote[l] = gossip_sequences[l]

\* No edge is ever overwritten by an older measurement or an older update
\* (router.rs:89-95 and 124-135).
GraphNeverGoesBack ==
    [][/\ \A p \in Peers : graph_local[p] <= graph_local'[p]
       /\ \A l \in RemoteLinks : graph_remote[l] <= graph_remote'[l]]_vars

\* Receivers keep the update with the higher sequence number, so among the
\* updates about one link a higher number must never carry older metrics, and
\* no number is used twice (router.rs:99-101: the tracker's guard is held
\* across fetch_add).
UpdatesAreOrdered ==
    \A u, v \in out :
        /\ u.sequence = v.sequence => u = v
        /\ u.destination = v.destination /\ u.sequence < v.sequence
               => u.metrics <= v.metrics
=============================================================================
