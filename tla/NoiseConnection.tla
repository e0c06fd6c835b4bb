-------------------------- MODULE NoiseConnection --------------------------
(***************************************************************************)
(* One connection from its first byte on: the Noise_XX handshake of        *)
(* perform_handshake (crates/omnimesh-sdk/src/lib.rs) with NoiseHandshake  *)
(* (crates/omnimesh-crypto/src/noise.rs), then the frames of the session,  *)
(* over QuicConnection or MockConnection (crates/omnimesh-transport).      *)
(*                                                                         *)
(* QuicConnection writes a frame as a length prefix and a body on a byte   *)
(* stream.  Here either one is two pieces, so that a read can stop before, *)
(* inside and after it.  run_session_loop awaits recv in a select!: when   *)
(* there is something to write it drops the future, and with it the pieces *)
(* read so far.  The next recv takes whatever comes then for a length.     *)
(* MockConnection passes whole frames.                                     *)
(*                                                                         *)
(* Here an end writes its frames in the order it encrypted them; which     *)
(* tasks do that, and what happens when a pong overtakes a queued frame,   *)
(* is the subject of Session.                                              *)
(***************************************************************************)
EXTENDS Naturals, Sequences

CONSTANTS Transports,     \* the transports the connection may use
          Majors,         \* major protocol versions that are about
          MaxFrames,      \* MaxFrames[e]: bound on the frames e sends
          MisreadLens     \* what the pieces of a slipped stream may read as:
                          \* lengths of a body, in pieces

ASSUME ConnectionAssumption ==
    /\ Transports \subseteq {"quic", "mock"}
    /\ MaxFrames \in [{"Initiator", "Responder"} -> Nat]
    /\ MisreadLens \subseteq Nat

Roles == {"Initiator", "Responder"}
Peer == [e \in Roles |-> IF e = "Initiator" THEN "Responder" ELSE "Initiator"]

VARIABLES transport,   \* QuicConnection or MockConnection
          major,       \* major[e]: the major version e runs
          phase,       \* phase[e]: what e's task is at
          hs,          \* hs[e]: handshake messages e has written or read
          remote,      \* remote[e]: the PeerId e has learnt
          stream,      \* stream[e]: who opened the stream e uses
          wire,        \* wire[o][e]: pieces towards e on the stream of opener o
          out,         \* out[e]: the frame whose body e still has to write, if any
          got,         \* got[e]: pieces taken by the recv in progress
          need,        \* need[e]: length of the body, once the prefix is read
          sent,        \* sent[e]: frames e has encrypted, in order
          received,    \* received[e]: frames e has opened, in order
          dropped,     \* history: ends that dropped a recv with pieces in it
          failed       \* history: ends whose perform_handshake failed

vars == <<transport, major, phase, hs, remote, stream, wire, out, got, need, sent, received,
          dropped, failed>>

None == "none"

Init ==
    /\ transport \in Transports
    /\ major \in [Roles -> Majors]
    /\ phase = [e \in Roles |-> IF e = "Initiator" THEN "writing" ELSE "reading"]
    /\ hs = [e \in Roles |-> 0]
    /\ remote = [e \in Roles |-> None]
    /\ stream = [e \in Roles |-> None]
    /\ wire = [o \in Roles |-> [e \in Roles |-> <<>>]]
    /\ out = [e \in Roles |-> <<>>]
    /\ got = [e \in Roles |-> <<>>]
    /\ need = [e \in Roles |-> 0]
    /\ sent = [e \in Roles |-> <<>>]
    /\ received = [e \in Roles |-> <<>>]
    /\ dropped = {}
    /\ failed = {}

-----------------------------------------------------------------------------
(* Connection::send *)

\* The pieces of a frame, of its prefix and of its body.
Pieces(f, ps) == [i \in 1..Len(ps) |-> [frame |-> f, piece |-> ps[i]]]
Prefix == <<"len1", "len2">>
Body == <<"data1", "data2">>

\* The stream e writes to: the one it has, or one that it opens.
send_stream(e) == IF stream[e] = None THEN e ELSE stream[e]

Writes(e, ps) == wire' = [wire EXCEPT ![send_stream(e)][Peer[e]] = @ \o ps]

\* The first write: the length prefix, or in MockConnection all there is.
send(e, f) ==
    /\ out[e] = <<>>
    /\ stream' = [stream EXCEPT ![e] = send_stream(e)]
    /\ IF transport = "mock"
       THEN Writes(e, Pieces(f, <<"whole">>)) /\ UNCHANGED out
       ELSE Writes(e, Pieces(f, Prefix)) /\ out' = [out EXCEPT ![e] = <<f>>]

\* The second write, of the body.
send_body(e) ==
    /\ out[e] # <<>>
    /\ phase[e] # "gone"
    /\ Writes(e, Pieces(Head(out[e]), Body))
    /\ out' = [out EXCEPT ![e] = <<>>]
    /\ UNCHANGED <<transport, major, phase, hs, remote, stream, got, need, sent, received,
                   dropped, failed>>

-----------------------------------------------------------------------------
(* NoiseHandshake and perform_handshake *)

is_finished(n) == n = 3

\* Plausible bug: versions that differ are let through.
is_compatible_withAny(e, f) == f.major \in Majors

is_compatible_with(e, f) == major[e] = f.major

\* What e's task goes on to after the n-th message: into_transport once it is
\* the last, and until then the turn that other names.
into_transport(n, other) == IF is_finished(n) THEN "transport" ELSE other

\* write_message, then send.  The payload has the version and the PeerId.
write_message(e) ==
    LET n == hs[e] + 1
    IN  /\ phase[e] = "writing"
        /\ send(e, [type |-> "handshake", n |-> n, major |-> major[e], peer_id |-> e])
        /\ hs' = [hs EXCEPT ![e] = n]
        /\ phase' = [phase EXCEPT ![e] = into_transport(n, "reading")]
        /\ UNCHANGED <<transport, major, remote, got, need, sent, received, dropped, failed>>

\* What perform_handshake does with the bytes it received: read_message opens
\* the message that is due and nothing else.
read_message(e, f) ==
    LET n == hs[e] + 1
        ok == f.type = "handshake" /\ f.n = n /\ is_compatible_with(e, f)
    IN  /\ hs' = IF ok THEN [hs EXCEPT ![e] = n] ELSE hs
        /\ remote' = IF ok THEN [remote EXCEPT ![e] = f.peer_id] ELSE remote
        /\ phase' = [phase EXCEPT ![e] = IF ok THEN into_transport(n, "writing") ELSE "gone"]
        /\ failed' = IF ok THEN failed ELSE failed \cup {e}
        /\ UNCHANGED received

-----------------------------------------------------------------------------
(* NoiseTransport and run_session_loop *)

\* The next frame that encrypt produces at e.
encrypt(e) == [type |-> "data", n |-> Len(sent[e])]

\* Plausible bug: the receiver counts from one.
opensLate(e, f) == f.type = "data" /\ f.n = Len(received[e]) + 1

\* Plausible bug: a frame is opened whatever its nonce.
opensAny(e, f) == f.type = "data"

\* decrypt: the nonce must be the next one.  What is not a frame does not
\* parse or does not authenticate.
opens(e, f) == f.type = "data" /\ f.n = Len(received[e])

\* handle_wire_packet: a frame that does not open is logged and forgotten.
handle_wire_packet(e, f) ==
    /\ received' = IF opens(e, f) THEN [received EXCEPT ![e] = Append(@, f)] ELSE received
    /\ UNCHANGED <<hs, remote, phase, failed>>

\* The write arm of select!: a frame goes out, and the recv that was awaited
\* beside it is dropped.
write_arm(e) ==
    /\ phase[e] = "transport"
    /\ Len(sent[e]) < MaxFrames[e]
    /\ send(e, encrypt(e))
    /\ sent' = [sent EXCEPT ![e] = Append(@, encrypt(e))]
    /\ got' = [got EXCEPT ![e] = <<>>]
    /\ need' = [need EXCEPT ![e] = 0]
    /\ dropped' = IF got[e] = <<>> THEN dropped ELSE dropped \cup {e}
    /\ UNCHANGED <<transport, major, phase, hs, remote, received, failed>>

-----------------------------------------------------------------------------
(* Connection::recv *)

\* The stream e reads from: the one it has, or the one its peer opened.
recv_stream(e) == IF stream[e] = None THEN Peer[e] ELSE stream[e]

\* The frame that pieces make up, or none.
FrameOf(ps) ==
    LET f == ps[1].frame
    IN  IF ps \in {Pieces(f, Prefix \o Body), Pieces(f, <<"whole">>)}
        THEN f ELSE [type |-> "garbage"]

\* The bodies that may follow pieces read as a prefix.
BodyLens(ps) ==
    IF transport = "mock" THEN {0}
    ELSE IF ps = Pieces(ps[1].frame, Prefix) THEN {Len(Body)} ELSE MisreadLens

PrefixLen == IF transport = "mock" THEN 1 ELSE Len(Prefix)

\* recv takes one more piece; with the last one of the body it returns.
recv(e) ==
    LET w == wire[recv_stream(e)][e]
        ps == Append(got[e], Head(w))
    IN  /\ phase[e] \in {"reading", "transport"}
        /\ out[e] = <<>>
        /\ w # <<>>
        /\ stream' = [stream EXCEPT ![e] = recv_stream(e)]
        /\ wire' = [wire EXCEPT ![recv_stream(e)][e] = Tail(w)]
        /\ \E len \in IF Len(ps) = PrefixLen THEN BodyLens(ps) ELSE {need[e]} :
               IF Len(ps) >= PrefixLen /\ Len(ps) = PrefixLen + len
               THEN /\ IF phase[e] = "reading"
                       THEN read_message(e, FrameOf(ps))
                       ELSE handle_wire_packet(e, FrameOf(ps))
                    /\ got' = [got EXCEPT ![e] = <<>>]
                    /\ need' = [need EXCEPT ![e] = 0]
               ELSE /\ got' = [got EXCEPT ![e] = ps]
                    /\ need' = [need EXCEPT ![e] = len]
                    /\ UNCHANGED <<hs, remote, phase, failed, received>>
        /\ UNCHANGED <<transport, major, out, sent, dropped>>

\* recv or send finds that the peer is gone.  QUIC may drop what is on the
\* way; MockConnection drains its channel before recv says so.
disconnected(e) ==
    /\ phase[e] # "gone"
    /\ phase[Peer[e]] = "gone"
    /\ \/ transport = "quic"
       \/ phase[e] # "reading"
       \/ wire[recv_stream(e)][e] = <<>>
    /\ phase' = [phase EXCEPT ![e] = "gone"]
    /\ failed' = IF phase[e] = "transport" THEN failed ELSE failed \cup {e}
    /\ UNCHANGED <<transport, major, hs, remote, stream, wire, out, got, need, sent, received,
                   dropped>>

\* The session loop ends for a reason of its own and closes the connection.
close(e) ==
    /\ phase[e] = "transport" /\ out[e] = <<>>
    /\ phase' = [phase EXCEPT ![e] = "gone"]
    /\ UNCHANGED <<transport, major, hs, remote, stream, wire, out, got, need, sent, received,
                   dropped, failed>>

Next ==
    \E e \in Roles : \/ write_message(e) \/ write_arm(e)
                     \/ send_body(e) \/ recv(e)
                     \/ disconnected(e) \/ close(e)

Spec == Init /\ [][Next]_vars

\* The task at each end is polled when it can write or read, and a closed
\* connection is noticed.  select! picks among its ready arms at random, so
\* the read arm is not passed over forever.  Nothing makes the application
\* send or close.
Fairness ==
    \A e \in Roles : /\ WF_vars(write_message(e))
                     /\ WF_vars(send_body(e))
                     /\ SF_vars(recv(e))
                     /\ WF_vars(disconnected(e))

FairSpec == Spec /\ Fairness

-----------------------------------------------------------------------------
Fifo == INSTANCE FifoChannel WITH Endpoints <- Roles, Other <- Peer,
                                  sent <- sent, received <- received

\* Wherever select! drops a recv and whatever the rest of the stream is then
\* taken for, the session hands on the peer's frames in order, none twice and
\* none left out: a slipped stream can fall silent, but it cannot deliver
\* anything wrong (quic.rs:287-308, noise.rs:171-179).
ConnectionIsFifo == Fifo!Spec

\* The two ends of a session agree on it: each has the other's PeerId, their
\* major versions are the same, and whoever has left the handshake with an
\* error met another version or a peer that is gone.  A frame that the
\* initiator sends right behind its last message is never taken for a message
\* of the handshake (lib.rs:610-693, noise.rs:92-155).  Both ends are honest: a
\* PeerId is the one that the payload names, nothing ties it to the static key.
HandshakeAgrees ==
    /\ \A e \in Roles : phase[e] = "transport" =>
           remote[e] = Peer[e] /\ major[e] = major[Peer[e]]
    /\ \A e \in failed : major[e] # major[Peer[e]] \/ phase[Peer[e]] = "gone"

\* What was sent arrives, from the frame behind the handshake on, unless an end
\* is gone or a recv was dropped with bytes in it, which never happens to
\* MockConnection (quic.rs:287-308, lib.rs:373-387).
FramesArrive ==
    \A e \in Roles : []<>(\/ received[Peer[e]] = sent[e]
                          \/ \E d \in Roles : phase[d] = "gone"
                          \/ transport = "quic" /\ Peer[e] \in dropped)
=============================================================================
