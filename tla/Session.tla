------------------------------ MODULE Session ------------------------------
(***************************************************************************)
(* One established session between two nodes (crates/omnimesh-sdk/src/     *)
(* lib.rs): at each end the tasks that send on it, the bounded write       *)
(* queue, the session loop that owns the connection, and the Noise         *)
(* transport state they share.                                             *)
(*                                                                         *)
(* A frame is its packet type and the Noise nonce it was encrypted with.   *)
(* NoiseTransport numbers the frames of a direction 0, 1, 2, ... and       *)
(* opens a frame only when it carries the nonce expected next; a failed    *)
(* decryption leaves that nonce where it was.  The nonce to send with and  *)
(* the nonce expected are the lengths of the histories sent and received.  *)
(*                                                                         *)
(* The connection is reliable and ordered in each direction and holds at   *)
(* most ConnCapacity frames (256 in MockTransport, the flow-control window *)
(* in QUIC); the write queue holds at most WriteCapacity (100).            *)
(***************************************************************************)
EXTENDS Naturals, Sequences

CONSTANTS Endpoints, Other,   \* the two nodes, and the map to the peer
          Senders,            \* tasks that send on the session
          At,                 \* At[s]: the node sender s runs on
          Kind,               \* Kind[s]: "data", "gossip" or "ping"
          MaxSends,           \* MaxSends[s]: bound on what sender s sends
          WriteCapacity, ConnCapacity,
          MayShutdown         \* nodes that may call shutdown()

ASSUME SessionAssumption ==
    /\ Other \in [Endpoints -> Endpoints]
    /\ \A e \in Endpoints : Other[e] # e /\ Other[Other[e]] = e
    /\ At \in [Senders -> Endpoints]
    /\ Kind \in [Senders -> {"data", "gossip", "ping"}]
    /\ MaxSends \in [Senders -> Nat]
    /\ WriteCapacity \in Nat \ {0}
    /\ ConnCapacity \in Nat \ {0}
    /\ MayShutdown \subseteq Endpoints

Frames == [type : {"data", "gossip", "ping", "pong"}, nonce : Nat]

VARIABLES sent,       \* sent[e]: frames encrypted at e, in order
          received,   \* received[e]: frames opened at e, in order
          rejected,   \* rejected[e]: frames e failed to open
          task,       \* what each sender is doing
          left,       \* how many frames each sender may still send
          queue,      \* queue[e]: the session's mpsc write queue
          conn,       \* conn[e]: frames on the connection towards e
          loop,       \* loop[e]: run_session_loop
          shutdown,   \* shutdown[e]: how far shutdown() has got at e
          deaf        \* background loops that subscribed after the signal

vars == <<sent, received, rejected, task, left, queue, conn, loop, shutdown, deaf>>

Spawned == [at |-> "spawned"]
Idle == [at |-> "idle"]
Select == [at |-> "select"]
Ponging == [at |-> "ponging"]
Done == [at |-> "done"]

Init ==
    /\ sent = [e \in Endpoints |-> <<>>]
    /\ received = [e \in Endpoints |-> <<>>]
    /\ rejected = [e \in Endpoints |-> {}]
    /\ task = [s \in Senders |-> IF Kind[s] = "data" THEN Idle ELSE Spawned]
    /\ left = MaxSends
    /\ queue = [e \in Endpoints |-> <<>>]
    /\ conn = [e \in Endpoints |-> <<>>]
    /\ loop = [e \in Endpoints |-> Select]
    /\ shutdown = [e \in Endpoints |-> "no"]
    /\ deaf = {}

-----------------------------------------------------------------------------
(* NoiseTransport *)

\* The next frame that encrypt produces at e.
encrypt(e, t) == [type |-> t, nonce |-> Len(sent[e])]

\* Plausible bug: frames are opened whatever their nonce.
opensAny(e, f) == TRUE

opens(e, f) == f.nonce = Len(received[e])

-----------------------------------------------------------------------------
(* The senders: send_to_peer, broadcast_to_peers, the probing loop and the *)
(* gossip loop all encrypt under the transport lock and enqueue after it.  *)

\* The task of run_probing_loop or run_gossip_loop runs for the first time and
\* subscribes to the shutdown signal; one that was given before is missed.
worker_subscribe(s) ==
    /\ task[s] = Spawned
    /\ task' = [task EXCEPT ![s] = Idle]
    /\ deaf' = IF shutdown[At[s]] = "no" THEN deaf ELSE deaf \cup {s}
    /\ UNCHANGED <<sent, received, rejected, left, queue, conn, loop, shutdown>>

\* The shutdown arm of their select!, which is back once a tick is served.
worker_end(s) ==
    /\ task[s] = Idle /\ Kind[s] # "data" /\ s \notin deaf
    /\ shutdown[At[s]] # "no"
    /\ task' = [task EXCEPT ![s] = Done]
    /\ UNCHANGED <<sent, received, rejected, left, queue, conn, loop, shutdown, deaf>>

\* A sender that has the session from the map encrypts what it is about to send.
encrypt_payload(s) ==
    LET e == At[s]
        f == encrypt(e, Kind[s])
    IN  /\ task[s] = Idle
        /\ left[s] > 0
        /\ shutdown[e] # "cleared"
        /\ sent' = [sent EXCEPT ![e] = Append(@, f)]
        /\ task' = [task EXCEPT ![s] = [at |-> "enqueue", frame |-> f]]
        /\ left' = [left EXCEPT ![s] = @ - 1]
        /\ UNCHANGED <<received, rejected, queue, conn, loop, shutdown, deaf>>

\* Whether the write queue of e takes another frame.
HasRoom(e) == Len(queue[e]) < WriteCapacity

\* Plausible bug: try_send, which drops the frame when the queue is full.
write_tx_sendTry(s) ==
    LET e == At[s]
    IN  /\ task[s].at = "enqueue"
        /\ IF loop[e] = Done \/ ~HasRoom(e)
           THEN UNCHANGED queue
           ELSE queue' = [queue EXCEPT ![e] = Append(@, task[s].frame)]
        /\ task' = [task EXCEPT ![s] = Idle]
        /\ UNCHANGED <<sent, received, rejected, left, conn, loop, shutdown, deaf>>

\* Plausible bug: the receiver is kept alive, so a full queue never errors.
write_tx_sendKept(s) ==
    LET e == At[s]
    IN  /\ task[s].at = "enqueue"
        /\ HasRoom(e)
        /\ queue' = [queue EXCEPT ![e] = Append(@, task[s].frame)]
        /\ task' = [task EXCEPT ![s] = Idle]
        /\ UNCHANGED <<sent, received, rejected, left, conn, loop, shutdown, deaf>>

\* write_tx.send: waits for room, fails once the session loop is gone.
write_tx_send(s) ==
    LET e == At[s]
    IN  /\ task[s].at = "enqueue"
        /\ IF loop[e] = Done
           THEN UNCHANGED queue
           ELSE /\ HasRoom(e)
                /\ queue' = [queue EXCEPT ![e] = Append(@, task[s].frame)]
        /\ task' = [task EXCEPT ![s] = Idle]
        /\ UNCHANGED <<sent, received, rejected, left, conn, loop, shutdown, deaf>>

-----------------------------------------------------------------------------
(* run_session_loop *)

\* The write arm of select!: a frame is taken from the queue.
write_rx_recv(e) ==
    /\ loop[e] = Select
    /\ queue[e] # <<>>
    /\ loop' = [loop EXCEPT ![e] = [at |-> "sending", frame |-> Head(queue[e])]]
    /\ queue' = [queue EXCEPT ![e] = Tail(@)]
    /\ UNCHANGED <<sent, received, rejected, task, left, conn, shutdown, deaf>>

\* conn.send: waits for room on the connection.  When the peer is gone it
\* fails and ends the loop, or the close has not arrived yet and the frame is
\* lost.
conn_send(e) ==
    /\ loop[e].at = "sending"
    /\ IF loop[Other[e]] = Done
       THEN /\ \E l \in {Done, Select} : loop' = [loop EXCEPT ![e] = l]
            /\ UNCHANGED conn
       ELSE /\ Len(conn[Other[e]]) < ConnCapacity
            /\ conn' = [conn EXCEPT ![Other[e]] = Append(@, loop[e].frame)]
            /\ loop' = [loop EXCEPT ![e] = Select]
    /\ UNCHANGED <<sent, received, rejected, task, left, queue, shutdown, deaf>>

\* The receive arm, handle_wire_packet included: a frame that does not open is
\* logged and dropped; data and gossip are handed on; a ping is decrypted
\* under one hold of the transport lock and its pong encrypted under another.
conn_recv(e) ==
    LET f == Head(conn[e])
    IN  /\ loop[e] = Select
        /\ conn[e] # <<>>
        /\ conn' = [conn EXCEPT ![e] = Tail(@)]
        /\ IF ~opens(e, f)
           THEN /\ rejected' = [rejected EXCEPT ![e] = @ \cup {f}]
                /\ UNCHANGED <<received, loop>>
           ELSE /\ received' = [received EXCEPT ![e] = Append(@, f)]
                /\ loop' = [loop EXCEPT ![e] = IF f.type = "ping" THEN Ponging ELSE Select]
                /\ UNCHANGED rejected
        /\ UNCHANGED <<sent, task, left, queue, shutdown, deaf>>

\* The second half of the ping case: the pong is encrypted, and the loop sends
\* it on the connection itself, ahead of whatever waits in the queue.
encrypt_pong(e) ==
    LET f == encrypt(e, "pong")
    IN  /\ loop[e] = Ponging
        /\ sent' = [sent EXCEPT ![e] = Append(@, f)]
        /\ loop' = [loop EXCEPT ![e] = [at |-> "sending", frame |-> f]]
        /\ UNCHANGED <<received, rejected, task, left, queue, conn, shutdown, deaf>>

\* Plausible bug: the loop does not listen for the shutdown signal.
exit_loopDeaf(e) ==
    /\ loop[e] = Select
    /\ loop[Other[e]] = Done
    /\ loop' = [loop EXCEPT ![e] = Done]
    /\ UNCHANGED <<sent, received, rejected, task, left, queue, conn, shutdown, deaf>>

\* The other ways out of the loop: the peer closed the connection (QUIC may
\* discard what is still in flight), the node is shutting down, or the write
\* queue was closed by sessions.clear() and is drained.
exit_loop(e) ==
    /\ loop[e] = Select
    /\ \/ loop[Other[e]] = Done
       \/ shutdown[e] # "no"
    /\ loop' = [loop EXCEPT ![e] = Done]
    /\ UNCHANGED <<sent, received, rejected, task, left, queue, conn, shutdown, deaf>>

-----------------------------------------------------------------------------
(* shutdown() *)

\* shutdown_tx.send(())
shutdown_signal(e) ==
    /\ e \in MayShutdown
    /\ shutdown[e] = "no"
    /\ shutdown' = [shutdown EXCEPT ![e] = "signalled"]
    /\ UNCHANGED <<sent, received, rejected, task, left, queue, conn, loop, deaf>>

\* sessions.clear(): blocks while a sender keeps its reference into the map,
\* which it does until its write_tx.send is over.
shutdown_clear(e) ==
    /\ shutdown[e] = "signalled"
    /\ \A s \in Senders : At[s] = e => task[s].at # "enqueue"
    /\ shutdown' = [shutdown EXCEPT ![e] = "cleared"]
    /\ UNCHANGED <<sent, received, rejected, task, left, queue, conn, loop, deaf>>

-----------------------------------------------------------------------------
LoopStep(e) ==
    \/ write_rx_recv(e)
    \/ conn_send(e)
    \/ conn_recv(e)
    \/ encrypt_pong(e)
    \/ exit_loop(e)

Next ==
    \/ \E s \in Senders : \/ worker_subscribe(s) \/ worker_end(s)
                          \/ encrypt_payload(s) \/ write_tx_send(s)
    \/ \E e \in Endpoints : LoopStep(e) \/ shutdown_signal(e) \/ shutdown_clear(e)

Spec == Init /\ [][Next]_vars

\* The steps of the tasks of the two nodes.  Nothing makes an application task
\* send, a timer fire or a node shut down.
TaskStep ==
    \/ \E s \in Senders : worker_subscribe(s) \/ worker_end(s) \/ write_tx_send(s)
    \/ \E e \in Endpoints : LoopStep(e) \/ shutdown_clear(e)

\* The runtime polls woken tasks: as long as one can take a step, one does.
\* MaxSends bounds what there is to do, so none is passed over forever.
Fairness == WF_vars(TaskStep)

FairSpec == Spec /\ Fairness

-----------------------------------------------------------------------------
\* Where frame f of e's direction is: at a sender, in the write queue, in the
\* hands of the session loop, on the connection, and opened or rejected by the
\* peer.
Places(e, f) ==
    LET d == Other[e]
    IN  {p \in {"task"} \X Senders :
             At[p[2]] = e /\ task[p[2]] = [at |-> "enqueue", frame |-> f]}
        \cup {p \in {"queue"} \X (1..Len(queue[e])) : queue[e][p[2]] = f}
        \cup {p \in {"loop"} \X {e} : loop[e] = [at |-> "sending", frame |-> f]}
        \cup {p \in {"conn"} \X (1..Len(conn[d])) : conn[d][p[2]] = f}
        \cup {p \in {"received"} \X (1..Len(received[d])) : received[d][p[2]] = f}
        \cup {p \in {"rejected"} \X {d} : f \in rejected[d]}

\* Between the task that encrypted it and the peer that opened or rejected it
\* a frame is never duplicated, and it is never lost while both session loops
\* run (lib.rs:230-254 and 371-412).
FramesConserved ==
    \A e \in Endpoints : \A i \in 1..Len(sent[e]) :
        /\ \A p, q \in Places(e, sent[e][i]) : p = q
        /\ (\A d \in Endpoints : loop[d] # Done) => Places(e, sent[e][i]) # {}

Fifo == INSTANCE FifoChannel

\* Whatever the tasks do, what one node opens is what the other encrypted, in
\* that order, with nothing in between left out (noise.rs:160-179).
ImplementsFifo == Fifo!Spec

\* Both session loops wait in conn.send for the other one to read: a deadlock,
\* which LoopsReturn below states the absence of.
Jammed ==
    \A e \in Endpoints : /\ loop[e].at = "sending"
                         /\ Len(conn[Other[e]]) = ConnCapacity

\* Everything encrypted so far gets delivered, unless a frame has been rejected,
\* a loop has ended or the two loops block each other: nothing else stops a
\* session (lib.rs:371-412).  A loop that ends takes the frames of its queue
\* with it: no code buffers them for another connection.
EverythingDelivered ==
    \A e \in Endpoints :
        []<>(\/ received[Other[e]] = sent[e] \/ rejected[Other[e]] # {}
             \/ Jammed \/ \E d \in Endpoints : loop[d] = Done)

\* No sender waits forever on the write queue, unless the two loops block each
\* other (lib.rs:252).
SendsReturn == \A s \in Senders : task[s].at = "enqueue" ~> task[s].at # "enqueue" \/ Jammed

\* A shutdown gets past sessions.clear() and ends the node's session loop and
\* those background loops that had subscribed when it began, unless the two
\* session loops block each other.  A background loop that had not goes on for
\* as long as the process does (lib.rs:287-293, 413-418, 510, 543-545).  clear()
\* blocks its thread while a sender holds an entry; that the session loop is
\* polled meanwhile takes a second worker thread.
ShutdownCompletes ==
    \A e \in Endpoints :
        shutdown[e] = "signalled" ~>
            \/ /\ shutdown[e] = "cleared"
               /\ loop[e] = Done
               /\ \A s \in Senders : At[s] = e => Kind[s] = "data" \/ s \in deaf \/ task[s] = Done
            \/ Jammed

\* security-review.md:67 says that the event loop "has been verified to be
\* deadlock-free": a session loop that awaits conn.send gets back to its select!
\* (lib.rs:376, 392), however the senders of the two nodes and the bounded
\* buffers of the connection interleave.
LoopsReturn == \A e \in Endpoints : loop[e].at = "sending" ~> loop[e].at # "sending"

\* security-review.md:68 says that socket writes are serialized through the
\* channel queues: frames enter the connection in the order they were
\* encrypted.
WritesAreSerialized ==
    \A e \in Endpoints : \A i, j \in DOMAIN conn[e] :
        i < j => conn[e][i].nonce < conn[e][j].nonce
=============================================================================
