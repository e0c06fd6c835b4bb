------------------------------ MODULE Services ------------------------------
(***************************************************************************)
(* The services of a node: Rpc, Chat and PubSub.  They share no state.     *)
(***************************************************************************)
EXTENDS Rpc, Sequences

CONSTANTS Capacity,                       \* what Chat's channel holds
          MaxChats,                       \* bound on the chat messages of a peer
          Topics, Subscribers, Topic,     \* PubSub
          MaxPublications                 \* bound on what each peer publishes

ASSUME ServicesAssumption ==
    /\ Nodes # {}
    /\ Capacity \in Nat
    /\ MaxChats \in Nat
    /\ Topic \in [Subscribers -> Topics]
    /\ MaxPublications \in [Nodes -> Nat]

VARIABLES sent, log, chat_rx, printed,                             \* Chat
          subscriptions, published, walk, given, since, dropped    \* PubSub

Chat == INSTANCE Chat WITH Peers <- Nodes, MaxMessages <- MaxChats
PubSub == INSTANCE PubSub WITH Peers <- Nodes, MaxMessages <- MaxPublications

chatVars == <<sent, log, chat_rx, printed>>
pubsubVars == <<subscriptions, published, walk, given, since, dropped>>

\* What the node prints of its chat has no gap (Chat).
PrintoutIsGapless == Chat!PrintoutIsGapless

\* Subscribers get every message of their topic (PubSub).
SubscribersMissNothing == PubSub!SubscribersMissNothing
=============================================================================
