----------------------------- MODULE MCSession -----------------------------
(* A session between nodes "a" and "b". *)
EXTENDS Session

Nodes == {"a", "b"}
Peer == [e \in Nodes |-> IF e = "a" THEN "b" ELSE "a"]

\* The background loops of one node and an application task of the other.
AllSenders == {"a_gossip", "a_ping", "b_data"}
AllAt == [s \in AllSenders |-> IF s = "b_data" THEN "b" ELSE "a"]
AllKind == [s \in AllSenders |->
                CASE s = "a_gossip" -> "gossip" [] s = "a_ping" -> "ping" [] OTHER -> "data"]
AllSends == [s \in AllSenders |-> IF s = "b_data" THEN 2 ELSE 1]

\* The prober of one node, an application task and the gossip loop of the other.
OrderSenders == {"a_ping", "b_data", "b_gossip"}
OrderAt == [s \in OrderSenders |-> IF s = "a_ping" THEN "a" ELSE "b"]
OrderKind == [s \in OrderSenders |->
                 CASE s = "a_ping" -> "ping" [] s = "b_gossip" -> "gossip" [] OTHER -> "data"]
OrderSends == [s \in OrderSenders |-> 1]

\* An application task of each node.
DataSenders == {"a_data", "b_data"}
DataAt == [s \in DataSenders |-> IF s = "a_data" THEN "a" ELSE "b"]
DataKind == [s \in DataSenders |-> "data"]
DataSends == [s \in DataSenders |-> 2]
=============================================================================
