----------------------------- MODULE MCTransport -----------------------------
(***************************************************************************)
(* One connection with three frames one way and two the other, and         *)
(* retry_async with the named policies and one of an application's own     *)
(* that reaches its limit.  In every behaviour one of them moves and the   *)
(* other rests.                                                            *)
(***************************************************************************)
EXTENDS Transport

GrowingPolicy ==
    {[max_retries |-> 4, initial_interval |-> 40, max_interval |-> 200, num |-> 2, den |-> 1]}

\* The first wait of this one is above the limit: nothing rules that out.
SteepPolicy ==
    {[max_retries |-> 2, initial_interval |-> 300, max_interval |-> 200, num |-> 3, den |-> 2]}

FewFrames == [Initiator |-> 3, Responder |-> 2]

VARIABLE part    \* the part that moves

allVars == <<vars, retryVars, part>>

\* The part that rests is in one of its initial states.
MCInit ==
    /\ part \in {"connection", "retry"}
    /\ Init
    /\ Retry!Init
    /\ part # "retry" => policy = Retry!none
    /\ part # "connection" => transport = "mock" /\ \A e \in Roles : major[e] = 0

MCNext ==
    \/ part = "connection" /\ Next /\ UNCHANGED <<retryVars, part>>
    \/ part = "retry" /\ Retry!Next /\ UNCHANGED <<vars, part>>

\* retry_async, without the connection.
RetrySpec == MCInit /\ part = "retry" /\ [][MCNext]_allVars

MCSpec == MCInit /\ [][MCNext]_allVars /\ (part = "connection" => Fairness)
=============================================================================
