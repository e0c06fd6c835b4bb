--------------------------- MODULE MCConnections ---------------------------
(***************************************************************************)
(* Two nodes that call each other; and the ratcheting channel with two     *)
(* plaintexts.  They share no state: part says which of them moves in a    *)
(* behaviour, the other one rests.                                         *)
(***************************************************************************)
EXTENDS Connections

VARIABLE part

TwoNodes == {"A", "B"}

\* Both nodes connect at the same time.
TwoCalls == {"ab", "ba"}
TwoFrom == [c \in TwoCalls |-> IF c = "ba" THEN "B" ELSE "A"]
TwoTo == [c \in TwoCalls |-> IF c = "ba" THEN "A" ELSE "B"]

\* A single call.
OneCall == {"ab"}
OneFrom == [c \in OneCall |-> "A"]
OneTo == [c \in OneCall |-> "B"]

allVars == <<vars, channelVars, part>>

MCInit ==
    /\ Init
    /\ Channel!Init
    /\ part \in {"orchestrator", "channel"}
    /\ part = "channel" => transport = "quic"

MCNext ==
    /\ \/ part = "orchestrator" /\ Next /\ UNCHANGED channelVars
       \/ part = "channel" /\ Channel!Next /\ UNCHANGED vars
    /\ UNCHANGED part

MCSpec == MCInit /\ [][MCNext]_allVars /\ (part = "orchestrator" => Fairness)

\* Two nodes, without the channel.
NodesSpec ==
    /\ Init /\ Channel!Init /\ part = "orchestrator"
    /\ [][Next /\ UNCHANGED <<channelVars, part>>]_allVars
    /\ Fairness
=============================================================================
