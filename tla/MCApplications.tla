-------------------------- MODULE MCApplications ---------------------------
(***************************************************************************)
(* What applications rest on.  In every behaviour one part moves and the   *)
(* others rest: Rpc between two nodes, with two calls one way and one the  *)
(* other way; Chat with two peers; PubSub with two peers, two topics and   *)
(* three subscribers; Discovery with one call that sends to p.             *)
(***************************************************************************)
EXTENDS Services, Discovery, TLC

CONSTANTS p, c

OneTo == c :> p

TwoNodes == {"A", "B"}

ThreeCalls == {"ab1", "ab2", "ba"}
ThreeCaller == [d \in ThreeCalls |-> IF d = "ba" THEN "B" ELSE "A"]
ThreeCallee == [d \in ThreeCalls |-> IF d = "ba" THEN "A" ELSE "B"]

ThreeSubscribers == {"s1", "s2", "s3"}
ThreeTopics == [s \in ThreeSubscribers |-> IF s = "s3" THEN "t2" ELSE "t1"]
ThreePublications == [n \in TwoNodes |-> IF n = "A" THEN 2 ELSE 1]

VARIABLE part    \* what moves

allVars == <<vars, chatVars, pubsubVars, discoveryVars, part>>

MCInit ==
    /\ part \in {"rpc", "chat", "pubsub", "discovery"}
    /\ Init
    /\ Chat!Init
    /\ PubSub!Init
    /\ DiscoveryInit
    /\ part # "discovery" => owner = [a \in Addrs |-> Nobody]

MCNext ==
    /\ \/ /\ part = "rpc" /\ Next
          /\ UNCHANGED <<chatVars, pubsubVars, discoveryVars>>
       \/ /\ part = "chat" /\ Chat!Next
          /\ UNCHANGED <<vars, pubsubVars, discoveryVars>>
       \/ /\ part = "pubsub" /\ PubSub!Next
          /\ UNCHANGED <<vars, chatVars, discoveryVars>>
       \/ /\ part = "discovery" /\ DiscoveryNext
          /\ UNCHANGED <<vars, chatVars, pubsubVars>>
    /\ UNCHANGED part

MCSpec ==
    /\ MCInit /\ [][MCNext]_allVars
    /\ Fairness
    /\ part = "discovery" => DiscoveryFairness
=============================================================================
