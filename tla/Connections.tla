---------------------------- MODULE Connections ----------------------------
(***************************************************************************)
(* What a connection of two nodes rests on: how they get it and lose it    *)
(* (Orchestrator), and the ratcheting channel that omnimesh-crypto has for *)
(* it (SecureChannel).  The orchestrator encrypts with NoiseTransport      *)
(* instead, so the two share no state.                                     *)
(***************************************************************************)
EXTENDS Orchestrator

CONSTANTS Messages, REKEY_THRESHOLD    \* of SecureChannel

ASSUME RekeyAssumption == REKEY_THRESHOLD \in Nat \ {0}

VARIABLES send_key, recv_key, send_counter, recv_counter, alive, wire,
          sealed, opened               \* SecureChannel: sent and received

Channel == INSTANCE SecureChannel WITH sent <- sealed, received <- opened

channelVars == <<send_key, recv_key, send_counter, recv_counter, alive, wire, sealed, opened>>

\* No key encrypts two messages (SecureChannel).
KeyUsedOnce == Channel!KeyUsedOnce

\* No key that is still held leads to the key of a received message
\* (SecureChannel).
ForwardSecrecy == Channel!ForwardSecrecy

\* The sender and the receiver of a channel stop at the same message, and
\* messages_remaining says when (SecureChannel).
LimitsAgree == Channel!LimitsAgree

\* Once a message is lost nothing is delivered any more (SecureChannel).
LossIsFinal == Channel!LossIsFinal

\* The ratcheting channel implements the abstract in-order channel
\* (SecureChannel).
ChannelIsFifo == Channel!ImplementsFifo
=============================================================================
