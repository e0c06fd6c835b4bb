--------------------------- MODULE SecureChannel ---------------------------
(***************************************************************************)
(* The ratcheting channel of crates/omnimesh-crypto/src/channel.rs: two    *)
(* SecureChannel objects built from one shared secret, and a network that  *)
(* may lose, duplicate, reorder and misdirect ciphertexts.                 *)
(*                                                                         *)
(* A key is the half of the derived key pair it descends from and the      *)
(* number of ratchet steps taken since; HKDF is one-way, so a key yields   *)
(* exactly the later keys of its own half.  A ciphertext is the key it was *)
(* made with and its plaintext: ChaCha20-Poly1305 opens it under that key  *)
(* and under no other.                                                     *)
(***************************************************************************)
EXTENDS Naturals, Sequences

CONSTANTS Messages,         \* plaintexts
          REKEY_THRESHOLD   \* a positive number, 1_000_000 in the code

Endpoints == {"initiator", "responder"}

Other == [e \in Endpoints |-> IF e = "initiator" THEN "responder" ELSE "initiator"]

Keys == [half : {"a", "b", "zero"}, gen : 0..REKEY_THRESHOLD]

Ciphertexts == [key : Keys, msg : Messages]

VARIABLES send_key, recv_key,          \* fields of each endpoint's SecureChannel
          send_counter, recv_counter,
          alive,                       \* FALSE once the object has been dropped
          wire,                        \* ciphertexts the network still holds
          sent, received               \* history: ciphertexts made and accepted

chanVars == <<send_key, recv_key, send_counter, recv_counter, alive>>
vars == <<send_key, recv_key, send_counter, recv_counter, alive, wire, sent, received>>

Zero == [half |-> "zero", gen |-> 0]

-----------------------------------------------------------------------------
(* kdf.rs *)

\* Plausible bug: the info labels of the two halves collide.
derive_key_pairSame(h) == [half |-> "a", gen |-> 0]

derive_key_pair(h) == [half |-> h, gen |-> 0]

\* Plausible bug: the ratchet output is not stored.
ratchet_keyLost(k) == k

ratchet_key(k) == [k EXCEPT !.gen = @ + 1]

\* What an observer holding key k can compute.
Derives(k, target) == k.half = target.half /\ k.gen <= target.gen

-----------------------------------------------------------------------------
(* channel.rs *)

\* Which half an endpoint sends with; it receives with the other one.
half(e) == IF e = "initiator" THEN "a" ELSE "b"

new ==
    /\ send_key = [e \in Endpoints |-> derive_key_pair(half(e))]
    /\ recv_key = [e \in Endpoints |-> derive_key_pair(half(Other[e]))]
    /\ send_counter = [e \in Endpoints |-> 0]
    /\ recv_counter = [e \in Endpoints |-> 0]
    /\ alive = [e \in Endpoints |-> TRUE]

Init ==
    /\ new
    /\ wire = {}
    /\ sent = [e \in Endpoints |-> <<>>]
    /\ received = [e \in Endpoints |-> <<>>]

send_exhausted(e) == send_counter[e] >= REKEY_THRESHOLD

\* Plausible bug: the receiver stops one message before the sender.
recv_exhaustedEarly(e) == recv_counter[e] + 1 >= REKEY_THRESHOLD

recv_exhausted(e) == recv_counter[e] >= REKEY_THRESHOLD

encrypt(e, m) ==
    /\ alive[e]
    /\ IF send_exhausted(e)
       THEN UNCHANGED vars
       ELSE LET c == [key |-> send_key[e], msg |-> m] IN
            /\ wire' = wire \cup {c}
            /\ sent' = [sent EXCEPT ![e] = Append(@, c)]
            /\ send_key' = [send_key EXCEPT ![e] = ratchet_key(@)]
            /\ send_counter' = [send_counter EXCEPT ![e] = @ + 1]
            /\ UNCHANGED <<recv_key, recv_counter, alive, received>>

\* Whether aead::decrypt accepts c at e.
\* Plausible bug: any ciphertext of the right direction is accepted.
opensAny(e, c) == c.key.half = recv_key[e].half

opens(e, c) == c.key = recv_key[e]

decrypt(e, c) ==
    /\ alive[e]
    /\ IF recv_exhausted(e) \/ ~opens(e, c)
       THEN UNCHANGED vars
       ELSE /\ received' = [received EXCEPT ![e] = Append(@, c)]
            /\ recv_key' = [recv_key EXCEPT ![e] = ratchet_key(@)]
            /\ recv_counter' = [recv_counter EXCEPT ![e] = @ + 1]
            /\ UNCHANGED <<send_key, send_counter, alive, wire, sent>>

\* Drop for SecureChannel: both keys are zeroized.
drop(e) ==
    /\ alive[e]
    /\ alive' = [alive EXCEPT ![e] = FALSE]
    /\ send_key' = [send_key EXCEPT ![e] = Zero]
    /\ recv_key' = [recv_key EXCEPT ![e] = Zero]
    /\ UNCHANGED <<send_counter, recv_counter, wire, sent, received>>

messages_remaining(e) ==
    LET used == IF send_counter[e] > recv_counter[e]
                THEN send_counter[e] ELSE recv_counter[e]
    IN  IF used < REKEY_THRESHOLD THEN REKEY_THRESHOLD - used ELSE 0

\* The network forgets a ciphertext for good.
Lose(c) ==
    /\ wire' = wire \ {c}
    /\ UNCHANGED <<chanVars, sent, received>>

Next ==
    \/ \E e \in Endpoints, m \in Messages : encrypt(e, m)
    \/ \E e \in Endpoints, c \in wire : decrypt(e, c)
    \/ \E e \in Endpoints : drop(e)
    \/ \E c \in wire : Lose(c)

Spec == Init /\ [][Next]_vars

-----------------------------------------------------------------------------
\* Types of the two channel objects and of the network.
TypeOK ==
    /\ send_key \in [Endpoints -> Keys]
    /\ recv_key \in [Endpoints -> Keys]
    /\ send_counter \in [Endpoints -> 0..REKEY_THRESHOLD]
    /\ recv_counter \in [Endpoints -> 0..REKEY_THRESHOLD]
    /\ alive \in [Endpoints -> BOOLEAN]
    /\ wire \in SUBSET Ciphertexts
    /\ sent \in [Endpoints -> Seq(Ciphertexts)]
    /\ received \in [Endpoints -> Seq(Ciphertexts)]

\* Replays, reorderings, losses and messages echoed back to their sender never
\* make decrypt (channel.rs:83-97) return anything but the peer's messages, in
\* the order they were encrypted and each exactly once.
InOrderExactlyOnce ==
    \A e \in Endpoints :
        /\ Len(received[e]) <= Len(sent[Other[e]])
        /\ \A i \in 1..Len(received[e]) : received[e][i] = sent[Other[e]][i]

\* No key encrypts two messages, in either direction (channel.rs:73-77), and
\* the key the next encrypt will use has made none of the earlier ones.
KeyUsedOnce ==
    \A e, f \in Endpoints :
        /\ \A i \in 1..Len(sent[e]), j \in 1..Len(sent[f]) :
               sent[e][i].key = sent[f][j].key => e = f /\ i = j
        /\ \A i \in 1..Len(sent[e]) : sent[e][i].key # send_key[f]

\* The promise of channel.rs:23-25: once a message has been received, no key
\* that either endpoint still holds leads to the key it was encrypted with.
ForwardSecrecy ==
    \A e, f \in Endpoints : \A i \in 1..Len(received[e]) :
        LET k == received[e][i].key
        IN  ~Derives(send_key[f], k) /\ ~Derives(recv_key[f], k)

\* The two limits of 1M messages (channel.rs:67 and 84) agree: a ciphertext
\* the receiver is waiting for is never refused because the receive key is
\* exhausted, and while messages_remaining (channel.rs:110) is positive
\* neither direction of that endpoint refuses.
LimitsAgree ==
    \A e \in Endpoints :
        /\ \A c \in wire : alive[e] /\ opens(e, c) => ~recv_exhausted(e)
        /\ messages_remaining(e) > 0 => ~send_exhausted(e) /\ ~recv_exhausted(e)

\* e waits for a ciphertext that was made and that the network has lost.
Stalled(e) ==
    /\ alive[e]
    /\ recv_counter[e] < Len(sent[Other[e]])
    /\ \A c \in wire : ~opens(e, c)

\* There is no resynchronisation: once a message that e needs next is lost,
\* the channel never delivers another one to e (decrypt fails at
\* channel.rs:90 before the receive key moves).
LossIsFinal ==
    [][\A e \in Endpoints : Stalled(e) =>
           /\ received'[e] = received[e]
           /\ alive'[e] => Stalled(e)']_vars

Fifo == INSTANCE FifoChannel

\* The channel implements the abstract in-order channel, whatever the network
\* does.
ImplementsFifo == Fifo!Spec
=============================================================================
