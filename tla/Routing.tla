------------------------------ MODULE Routing ------------------------------
(***************************************************************************)
(* The routing layer on both of its scales: gossip among the routers of a  *)
(* mesh, where a call of a router is one step (GossipMesh), and the router *)
(* of one node, where the calls of its tasks interleave between the locks  *)
(* they take (Router).  The variables of the latter that have the names of *)
(* the former are prefixed by node_.                                       *)
(***************************************************************************)
EXTENDS GossipMesh

CONSTANTS Tasks, Peers, RemoteLinks, MaxSequence    \* of Router

ASSUME RoutingAssumption == MaxMeasurements \in Nat /\ MaxSequence \in Nat

VARIABLES node_trackers, graph_local, graph_remote, node_sequences, node_generator,
          pc, out                                   \* Router

Router == INSTANCE Router WITH
              local_trackers <- node_trackers,
              gossip_sequences <- node_sequences,
              sequence_generator <- node_generator

routerVars == <<node_trackers, graph_local, graph_remote, node_sequences,
                node_generator, pc, out>>

\* The graph has the current average of a neighbour (Router).
GraphMatchesTrackers == Router!GraphMatchesTrackers

\* The graph has the snapshot that was accepted last (Router).
GraphMatchesGossip == Router!GraphMatchesGossip

\* A higher sequence number never carries older metrics (Router).
UpdatesAreOrdered == Router!UpdatesAreOrdered

\* No edge of the graph goes back (Router).
GraphNeverGoesBack == Router!GraphNeverGoesBack
=============================================================================
