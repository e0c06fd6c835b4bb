---------------------------- MODULE FifoChannel ----------------------------
(***************************************************************************)
(* What a secure channel between two peers promises, whatever the network  *)
(* below it does: each endpoint sees the items its peer sent, in the order *)
(* they were sent, each at most once and with none left out in between.    *)
(* An item may stay undelivered forever.  The ratcheting channel of        *)
(* omnimesh-crypto (SecureChannel), the Noise session of omnimesh-sdk      *)
(* (Session) and a connection with its handshake and byte streams          *)
(* (NoiseConnection) are shown to implement this specification.            *)
(***************************************************************************)
EXTENDS Naturals, Sequences

CONSTANTS Endpoints,  \* the two ends of the channel
          Other       \* Other[e] is the endpoint e talks to

VARIABLES sent,      \* sent[e]: everything e has sent, in order
          received   \* received[e]: everything e has accepted, in order

vars == <<sent, received>>

Init ==
    /\ sent = [e \in Endpoints |-> <<>>]
    /\ received = [e \in Endpoints |-> <<>>]

\* e sends an item, any one.
Send(e) ==
    /\ Len(sent'[e]) = Len(sent[e]) + 1
    /\ sent' = [sent EXCEPT ![e] = Append(@, sent'[e][Len(@) + 1])]
    /\ UNCHANGED received

Deliver(e) ==
    /\ Len(received[e]) < Len(sent[Other[e]])
    /\ received' = [received EXCEPT ![e] =
                        Append(@, sent[Other[e]][Len(@) + 1])]
    /\ UNCHANGED sent

Next == \E e \in Endpoints : Send(e) \/ Deliver(e)

Spec == Init /\ [][Next]_vars
=============================================================================
