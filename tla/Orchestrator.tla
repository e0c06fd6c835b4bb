---------------------------- MODULE Orchestrator ----------------------------
(***************************************************************************)
(* How nodes get sessions and lose them (crates/omnimesh-sdk/src/lib.rs):  *)
(* connect_addr and connect_peer, the accept loop, the Noise_XX handshake, *)
(* the sessions map, the life of the session loops and shutdown().         *)
(*                                                                         *)
(* A call identifies the connect call, the connection it opens and both    *)
(* ends of that connection: "ini" at From[c], "res" at To[c].  What flows  *)
(* through an established session is the subject of module Session.        *)
(***************************************************************************)
EXTENDS Naturals, Sequences

CONSTANTS Nodes,
          Calls,        \* calls of connect_addr or connect_peer
          From, To,     \* the node that makes a call, the node it reaches
          ByPeer,       \* calls that are connect_peer
          Transports,   \* the transports the nodes may be built with
          MayLose,      \* connections the network may break
          MayShutdown   \* nodes that may call shutdown()

ASSUME OrchestratorAssumption ==
    /\ From \in [Calls -> Nodes]
    /\ To \in [Calls -> Nodes]
    /\ \A c \in Calls : From[c] # To[c]
    /\ ByPeer \subseteq Calls
    /\ Transports \subseteq {"quic", "mock"}
    /\ MayLose \subseteq Calls
    /\ MayShutdown \subseteq Nodes
    /\ Nodes \cap Calls = {}
    /\ \A x \in Nodes \cup Calls : x # "shutdown" /\ x # "accept" /\ x # "none"

VARIABLES transport,  \* the transport of all nodes: QuicTransport or MockTransport
          lock,       \* lock[n]: the transport Mutex, its holder first
          accept,     \* accept[n]: run_accept_loop
          backlog,    \* backlog[n]: connections waiting to be accepted
          side,       \* side[c][r]: what end r of connection c is doing
          hs,         \* hs[c]: handshake messages sent so far
          broken,     \* broken[c]: the connection has been closed or lost
          subscribed, \* subscribed[c]: ends whose loop hears the shutdown
          sessions,   \* sessions[n][m]: the connection n uses towards m
          shutdown,   \* shutdown[n]: how far shutdown() has got
          lost        \* history: the connections that the network broke

vars == <<transport, lock, accept, backlog, side, hs, broken, subscribed, sessions, shutdown,
          lost>>

None == "none"
Ends == {"ini", "res"}
Here(c, r) == IF r = "ini" THEN From[c] ELSE To[c]
There(c, r) == IF r = "ini" THEN To[c] ELSE From[c]

\* Whether task t holds the transport lock of n.  tokio's Mutex is granted in
\* the order it is asked for.
Holds(n, t) == lock[n] # <<>> /\ Head(lock[n]) = t

Moves(c, r, s) == side' = [side EXCEPT ![c][r] = s]

Init ==
    /\ transport \in Transports
    /\ lock = [n \in Nodes |-> <<>>]
    /\ accept = [n \in Nodes |-> "spawned"]
    /\ backlog = [n \in Nodes |-> <<>>]
    /\ side = [c \in Calls |-> [r \in Ends |-> "idle"]]
    /\ hs = [c \in Calls |-> 0]
    /\ broken = [c \in Calls |-> FALSE]
    /\ subscribed = [c \in Calls |-> {}]
    /\ sessions = [n \in Nodes |-> [m \in Nodes |-> None]]
    /\ shutdown = [n \in Nodes |-> "no"]
    /\ lost = {}

-----------------------------------------------------------------------------
(* connect_peer and connect_addr *)

\* connect_peer returns at once when the map has an entry, and fails when
\* discovery knows no address; otherwise, and for connect_addr always, the
\* call queues for the transport lock.
connect(c) ==
    LET n == From[c]
    IN  /\ side[c]["ini"] = "idle"
        /\ \/ /\ c \in ByPeer
              /\ \/ sessions[n][To[c]] # None /\ Moves(c, "ini", "present")
                 \/ sessions[n][To[c]] = None /\ Moves(c, "ini", "failed")
              /\ UNCHANGED lock
           \/ /\ c \in ByPeer => sessions[n][To[c]] = None
              /\ Moves(c, "ini", "locking")
              /\ lock' = [lock EXCEPT ![n] = Append(@, c)]
        /\ UNCHANGED <<transport, accept, backlog, hs, broken, subscribed, sessions,
                       shutdown, lost>>

\* transport.connect, first part: the connection reaches the listener of the
\* remote node, or there is none.  MockTransport returns here and gives the
\* lock back; QUIC keeps it until the remote node has accepted.
transport_connect(c) ==
    LET n == From[c]
    IN  /\ side[c]["ini"] = "locking"
        /\ Holds(n, c)
        /\ IF shutdown[To[c]] = "closed"
           THEN /\ Moves(c, "ini", "failed")
                /\ lock' = [lock EXCEPT ![n] = Tail(@)]
                /\ UNCHANGED backlog
           ELSE /\ backlog' = [backlog EXCEPT ![To[c]] = Append(@, c)]
                /\ IF transport = "quic"
                   THEN Moves(c, "ini", "connecting") /\ UNCHANGED lock
                   ELSE /\ Moves(c, "ini", "handshake")
                        /\ lock' = [lock EXCEPT ![n] = Tail(@)]
        /\ UNCHANGED <<transport, accept, hs, broken, subscribed, sessions, shutdown, lost>>

\* transport.connect, second part, in QUIC only: the remote side accepted, or
\* the attempt was refused or timed out.  The lock is given back.
transport_connected(c) ==
    /\ side[c]["ini"] = "connecting"
    /\ \/ side[c]["res"] # "idle" /\ Moves(c, "ini", "handshake") /\ UNCHANGED broken
       \/ /\ side[c]["res"] = "idle"
          /\ Moves(c, "ini", "failed")
          /\ broken' = [broken EXCEPT ![c] = TRUE]
    /\ lock' = [lock EXCEPT ![From[c]] = Tail(@)]
    /\ UNCHANGED <<transport, accept, backlog, hs, subscribed, sessions, shutdown, lost>>

-----------------------------------------------------------------------------
(* run_accept_loop *)

\* The first transport.lock() of the loop.
accept_lock(n) ==
    /\ accept[n] = "spawned"
    /\ accept' = [accept EXCEPT ![n] = "looping"]
    /\ lock' = [lock EXCEPT ![n] = Append(@, "accept")]
    /\ UNCHANGED <<transport, backlog, side, hs, broken, subscribed, sessions,
                   shutdown, lost>>

\* accept() returns a connection: the lock goes, a task is spawned for the
\* responder's handshake, and the loop asks for the lock again.
accept_conn(n) ==
    /\ Holds(n, "accept")
    /\ backlog[n] # <<>> /\ ~broken[Head(backlog[n])]
    /\ Moves(Head(backlog[n]), "res", "handshake")
    /\ backlog' = [backlog EXCEPT ![n] = Tail(@)]
    /\ lock' = [lock EXCEPT ![n] = Append(Tail(@), "accept")]
    /\ UNCHANGED <<transport, accept, hs, broken, subscribed, sessions, shutdown, lost>>

\* accept() fails because the transport has been shut down or the connecting
\* node has given up; the error is logged and the loop asks for the lock again.
accept_error(n) ==
    /\ Holds(n, "accept")
    /\ \/ shutdown[n] = "closed" /\ UNCHANGED backlog
       \/ /\ backlog[n] # <<>> /\ broken[Head(backlog[n])]
          /\ backlog' = [backlog EXCEPT ![n] = Tail(@)]
    /\ lock' = [lock EXCEPT ![n] = Append(Tail(@), "accept")]
    /\ UNCHANGED <<transport, accept, side, hs, broken, subscribed, sessions, shutdown,
                   lost>>

\* Plausible bug: the accept loop does not listen for the shutdown signal.
accept_shutdownNever(n) == FALSE /\ UNCHANGED vars

\* The shutdown arm of select!; the guard is dropped.
accept_shutdown(n) ==
    /\ Holds(n, "accept")
    /\ shutdown[n] # "no"
    /\ accept' = [accept EXCEPT ![n] = "done"]
    /\ lock' = [lock EXCEPT ![n] = Tail(@)]
    /\ UNCHANGED <<transport, backlog, side, hs, broken, subscribed, sessions,
                   shutdown, lost>>

-----------------------------------------------------------------------------
(* perform_handshake, Noise_XX: the initiator sends messages 1 and 3, the  *)
(* responder message 2, and each end waits for the message before its own. *)

handshake_send(c, r) ==
    /\ side[c][r] = "handshake"
    /\ ~broken[c]
    /\ hs[c] \in (IF r = "ini" THEN {0, 2} ELSE {1})
    /\ hs' = [hs EXCEPT ![c] = @ + 1]
    /\ UNCHANGED <<transport, lock, accept, backlog, side, broken, subscribed,
                   sessions, shutdown, lost>>

\* An end that still has to send or receive finds the connection closed.
handshake_fail(c, r) ==
    /\ side[c][r] = "handshake"
    /\ broken[c]
    /\ r = "ini" => hs[c] < 3
    /\ Moves(c, r, "failed")
    /\ UNCHANGED <<transport, lock, accept, backlog, hs, broken, subscribed, sessions,
                   shutdown, lost>>

\* Plausible bug: the session is inserted before the last message is read.
sessions_insertEarly(c, r) ==
    /\ side[c][r] = "handshake"
    /\ hs[c] >= 2
    /\ Moves(c, r, "inserted")
    /\ sessions' = [sessions EXCEPT ![Here(c, r)][There(c, r)] = c]
    /\ UNCHANGED <<transport, lock, accept, backlog, hs, broken, subscribed, shutdown,
                   lost>>

\* The handshake is complete: the session goes into the map, and replaces the
\* entry of an earlier connection with the same peer.
sessions_insert(c, r) ==
    /\ side[c][r] = "handshake"
    /\ hs[c] = 3
    /\ Moves(c, r, "inserted")
    /\ sessions' = [sessions EXCEPT ![Here(c, r)][There(c, r)] = c]
    /\ UNCHANGED <<transport, lock, accept, backlog, hs, broken, subscribed, shutdown,
                   lost>>

\* shutdown_tx.subscribe(), then the session loop starts.  A subscription made
\* after the signal never sees it.
subscribe(c, r) ==
    /\ side[c][r] = "inserted"
    /\ Moves(c, r, "running")
    /\ subscribed' = IF shutdown[Here(c, r)] = "no"
                     THEN [subscribed EXCEPT ![c] = @ \cup {r}]
                     ELSE subscribed
    /\ UNCHANGED <<transport, lock, accept, backlog, hs, broken, sessions, shutdown, lost>>

-----------------------------------------------------------------------------
(* The end of run_session_loop *)

\* The map no longer holds the write_tx of this end, so write_rx.recv() is
\* None once the queue is drained.
\* Plausible bug: the loop's task keeps a clone of write_tx.
WriterGoneNever(c, r) == FALSE

\* Plausible bug: the map is keyed by the wrong end's id.
WriterGoneThere(c, r) == sessions[There(c, r)][Here(c, r)] # c

WriterGone(c, r) == sessions[Here(c, r)][There(c, r)] # c

\* Plausible bug: the connection is not closed behind the loop.
closeNot(c) == broken

close(c) == [broken EXCEPT ![c] = TRUE]

\* The loop ends when the connection is gone, the node shuts down or the
\* writer is gone.  It closes the connection; the map is left as it is.
session_end(c, r) ==
    /\ side[c][r] = "running"
    /\ \/ broken[c]
       \/ r \in subscribed[c] /\ shutdown[Here(c, r)] # "no"
       \/ WriterGone(c, r)
    /\ Moves(c, r, "done")
    /\ broken' = close(c)
    /\ UNCHANGED <<transport, lock, accept, backlog, hs, subscribed, sessions,
                   shutdown, lost>>

\* The network breaks an established connection.
lose(c) ==
    /\ c \in MayLose
    /\ ~broken[c]
    /\ side[c]["res"] # "idle"
    /\ broken' = [broken EXCEPT ![c] = TRUE]
    /\ lost' = lost \cup {c}
    /\ UNCHANGED <<transport, lock, accept, backlog, side, hs, subscribed, sessions,
                   shutdown>>

-----------------------------------------------------------------------------
(* shutdown() *)

\* running.swap(false), then shutdown_tx.send(()).
shutdown_signal(n) ==
    /\ n \in MayShutdown
    /\ shutdown[n] = "no"
    /\ shutdown' = [shutdown EXCEPT ![n] = "signalled"]
    /\ UNCHANGED <<transport, lock, accept, backlog, side, hs, broken, subscribed,
                   sessions, lost>>

\* sessions.clear(), then shutdown() queues for the transport lock.
shutdown_clear(n) ==
    /\ shutdown[n] = "signalled"
    /\ shutdown' = [shutdown EXCEPT ![n] = "locking"]
    /\ sessions' = [sessions EXCEPT ![n] = [m \in Nodes |-> None]]
    /\ lock' = [lock EXCEPT ![n] = Append(@, "shutdown")]
    /\ UNCHANGED <<transport, accept, backlog, side, hs, broken, subscribed, lost>>

\* transport.shutdown(): the listener goes with the connections waiting in it;
\* in QUIC closing the endpoint closes every connection of the node.
transport_shutdown(n) ==
    /\ shutdown[n] = "locking"
    /\ Holds(n, "shutdown")
    /\ shutdown' = [shutdown EXCEPT ![n] = "closed"]
    /\ broken' = [c \in Calls |->
                     \/ broken[c]
                     \/ \E i \in DOMAIN backlog[n] : backlog[n][i] = c
                     \/ transport = "quic" /\ \E r \in Ends : Here(c, r) = n /\ side[c][r] # "idle"
                             /\ side[c]["ini"] # "locking"]
    /\ backlog' = [backlog EXCEPT ![n] = <<>>]
    /\ lock' = [lock EXCEPT ![n] = Tail(@)]
    /\ UNCHANGED <<transport, accept, side, hs, subscribed, sessions, lost>>

-----------------------------------------------------------------------------
AcceptStep(n) == accept_lock(n) \/ accept_conn(n) \/ accept_error(n) \/ accept_shutdown(n)

ShutdownStep(n) == shutdown_clear(n) \/ transport_shutdown(n)

ConnectStep(c) == connect(c) \/ transport_connect(c) \/ transport_connected(c)

EndStep(c, r) ==
    \/ handshake_send(c, r)
    \/ handshake_fail(c, r)
    \/ sessions_insert(c, r)
    \/ subscribe(c, r)
    \/ session_end(c, r)

Next ==
    \/ \E n \in Nodes : AcceptStep(n) \/ ShutdownStep(n) \/ shutdown_signal(n)
    \/ \E c \in Calls : ConnectStep(c) \/ lose(c) \/ \E r \in Ends : EndStep(c, r)

Spec == Init /\ [][Next]_vars

\* Every task that can run is polled: the accept loop, a call of connect or
\* shutdown in progress, a handshake and a session loop keep going.  select!
\* picks a ready arm at random, so the shutdown arm of the accept loop is not
\* passed over forever.  Nothing makes the application call connect or
\* shutdown, or the network break a connection.
Fairness ==
    /\ \A n \in Nodes : /\ WF_vars(AcceptStep(n))
                        /\ SF_vars(accept_shutdown(n))
                        /\ WF_vars(ShutdownStep(n))
    /\ \A c \in Calls : /\ WF_vars(transport_connect(c) \/ transport_connected(c))
                        /\ \A r \in Ends : WF_vars(EndStep(c, r))

FairSpec == Spec /\ Fairness

-----------------------------------------------------------------------------
\* The node's entry for peer m is connection c.
Entry(c, r) == sessions[Here(c, r)][There(c, r)] = c

\* Only connections whose handshake is complete are in the map, and a session
\* loop whose node is not shutting down either is in the map or has been
\* replaced there by another connection with the same peer (lib.rs:182, 338).
MapIsSound ==
    /\ \A n, m \in Nodes : sessions[n][m] # None =>
           \E r \in Ends : LET c == sessions[n][m]
                           IN  /\ Here(c, r) = n /\ There(c, r) = m
                               /\ hs[c] = 3
                               /\ side[c][r] \in {"inserted", "running", "done"}
    /\ \A c \in Calls, r \in Ends :
           side[c][r] \in {"inserted", "running"} /\ shutdown[Here(c, r)] = "no"
               => sessions[Here(c, r)][There(c, r)] # None

\* A session loop that its node no longer has in the map does not run on for
\* good (lib.rs:381-383): replaced and cleared sessions do not leak their tasks.  A
\* loop of this module always gets back to its select!; module Session has the
\* deadlock of two loops that do not.
ReplacedLoopsEnd ==
    \A c \in Calls, r \in Ends :
        []<>(side[c][r] = "running" => Entry(c, r))

\* When one end of a connection has ended or failed, whichever it is, the other
\* end does not go on for good (lib.rs:402-411 and 633-636).  An end that has
\* ended stays so.
EndsTogether ==
    \A c \in Calls :
        []<>(\A r, q \in Ends : side[c][r] \in {"done", "failed"}
                                   => side[c][q] \in {"idle", "done", "failed"})

\* shutdown() returns, and the accept loop ends (lib.rs:287-300, 354-356).
ShutdownCompletes ==
    \A n \in Nodes :
        shutdown[n] = "signalled" ~> shutdown[n] = "closed" /\ accept[n] = "done"

\* The map has an entry whose session loop is gone.
Stale(n, m) ==
    LET c == sessions[n][m]
    IN  c # None /\ side[c][IF From[c] = n THEN "ini" ELSE "res"] = "done"

\* An entry whose loop is gone stays in the map, but it gets there for one of
\* three reasons only: the network broke its connection, a node shut down, or a
\* second connection between the two nodes took its place at the other end
\* (lib.rs:182, 338, 381-383 and 418).
DeadEntriesHaveCause ==
    \A n, m \in Nodes : Stale(n, m) =>
        \/ sessions[n][m] \in lost
        \/ shutdown[n] # "no" \/ shutdown[m] # "no"
        \/ \E c \in Calls \ {sessions[n][m]} : {From[c], To[c]} = {n, m} /\ hs[c] = 3

\* security-review.md:69 says that the transport lock is never contended
\* between readers and writers: a call that asked for it gets on with it.
ConnectsProceed ==
    \A c \in Calls : side[c]["ini"] = "locking" ~> side[c]["ini"] # "locking"
=============================================================================
