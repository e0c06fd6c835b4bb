------------------------------- MODULE PubSub -------------------------------
(***************************************************************************)
(* PubSubService of one node (crates/omnimesh-service/src/lib.rs:239-298). *)
(* The session loops of the peers call handle_message on several threads;  *)
(* each walks the senders of a topic under a read guard of the DashMap,    *)
(* one send at a time, so two walks over one topic interleave.  subscribe  *)
(* needs the write guard.  A subscriber may drop its receiver; its sender  *)
(* stays in the map.                                                       *)
(***************************************************************************)
EXTENDS Naturals, Sequences

CONSTANTS Peers,
          Topics,
          Subscribers,
          Topic,         \* Topic[s]: the topic s subscribes to
          MaxMessages    \* MaxMessages[p]: bound on the messages of p

VARIABLES subscriptions,  \* per topic: the senders, in order
          published,      \* history, per peer: the topics of its messages, in order
          walk,           \* per peer: index of the sender its handle_message
                          \* comes to next; 0 when it is not at any
          given,          \* per subscriber: what its channel was given, which is
                          \* unbounded and hands it on as it came
          since,          \* per subscriber: how much each peer had published when
                          \* it subscribed; <<>> before it does
          dropped         \* subscribers that have dropped their receiver

vars == <<subscriptions, published, walk, given, since, dropped>>

Init ==
    /\ subscriptions = [t \in Topics |-> <<>>]
    /\ published = [p \in Peers |-> <<>>]
    /\ walk = [p \in Peers |-> 0]
    /\ given = [s \in Subscribers |-> <<>>]
    /\ since = [s \in Subscribers |-> <<>>]
    /\ dropped = {}

\* The topic of the message whose subscribers p's session loop is serving.
topic(p) == published[p][Len(published[p])]

\* Plausible bug: the senders are pushed without the write guard.
entryUnguarded(t) == t \in Topics

\* DashMap::entry waits until no walk holds the guard of the topic.
entry(t) == \A p \in Peers : walk[p] > 0 => topic(p) # t

subscribe(s) ==
    LET t == Topic[s]
    IN  /\ since[s] = <<>>
        /\ entry(t)
        /\ subscriptions' = [subscriptions EXCEPT ![t] = Append(@, s)]
        /\ since' = [since EXCEPT ![s] = [p \in Peers |-> Len(published[p])]]
        /\ UNCHANGED <<published, walk, given, dropped>>

\* handle_message begins: the read guard is taken, if the topic is known.
handle_message(p, t) ==
    /\ walk[p] = 0
    /\ Len(published[p]) < MaxMessages[p]
    /\ published' = [published EXCEPT ![p] = Append(@, t)]
    /\ walk' = [walk EXCEPT ![p] = IF subscriptions[t] = <<>> THEN 0 ELSE 1]
    /\ UNCHANGED <<subscriptions, given, since, dropped>>

\* sub.send for the next sender; the error of a dropped receiver is ignored.
send(p) ==
    LET subs == subscriptions[topic(p)]
        s == subs[walk[p]]
    IN  /\ walk[p] > 0
        /\ given' = IF s \in dropped THEN given
                    ELSE [given EXCEPT ![s] = Append(@, <<p, Len(published[p])>>)]
        /\ walk' = [walk EXCEPT ![p] = IF @ = Len(subs) THEN 0 ELSE @ + 1]
        /\ UNCHANGED <<subscriptions, published, since, dropped>>

\* The application drops its receiver.
drop(s) ==
    /\ since[s] # <<>> /\ s \notin dropped
    /\ dropped' = dropped \cup {s}
    /\ UNCHANGED <<subscriptions, published, walk, given, since>>

Next ==
    \/ \E s \in Subscribers : subscribe(s) \/ drop(s)
    \/ \E p \in Peers : send(p) \/ \E t \in Topics : handle_message(p, t)

Spec == Init /\ [][Next]_vars

-----------------------------------------------------------------------------
\* The walk over p's last message has yet to come to s.
Waiting(s, p) ==
    /\ walk[p] > 0 /\ topic(p) = Topic[s]
    /\ \E i \in walk[p]..Len(subscriptions[Topic[s]]) : subscriptions[Topic[s]][i] = s

\* The numbers of p's messages that are s's due: those on its topic published
\* after it subscribed, but for the one that p's walk has yet to bring to it.
Due(s, p) ==
    {n \in 1..Len(published[p]) : /\ n > since[s][p]
                                  /\ published[p][n] = Topic[s]
                                  /\ Waiting(s, p) => n < Len(published[p])}

\* The numbers of p's messages that s was given.
Given(s, p) == {given[s][i][2] : i \in {j \in 1..Len(given[s]) : given[s][j][1] = p}}

\* Every subscriber that keeps its receiver gets, of each peer, exactly what
\* the peer published on the topic from the moment it subscribed: nothing
\* twice, nothing left out, in the peer's order, and nothing that was under
\* way when it came, however the walks of the session loops interleave
\* (lib.rs:255-262, 286-297).
SubscribersMissNothing ==
    \A s \in {u \in Subscribers \ dropped : since[u] # <<>>} :
        /\ \A p \in Peers : Given(s, p) = Due(s, p)
        /\ \A i, j \in 1..Len(given[s]) :
               i < j /\ given[s][i][1] = given[s][j][1] => given[s][i][2] < given[s][j][2]
=============================================================================
