------------------------- MODULE ConnectionProofs --------------------------
(***************************************************************************)
(* Proofs about module Orchestrator, for any nodes, calls, transports,     *)
(* losses and shutdowns: the sessions map holds nothing but connections    *)
(* whose handshake is complete, a loop of a running node is in it or has   *)
(* been replaced there, and an entry whose loop is gone has a cause.  Then *)
(* the ratcheting channel implements FifoChannel, uses no key twice and    *)
(* keeps past messages secret, on any network and for any rekeying limit.  *)
(***************************************************************************)
EXTENDS Connections, TLAPS

USE Zenon

States == {"idle", "present", "locking", "connecting", "handshake", "inserted", "running",
           "done", "failed"}

\* An end in one of these states has gone through sessions.insert.
Established == {"inserted", "running", "done"}

TypeOK ==
    /\ backlog \in [Nodes -> Seq(Calls)]
    /\ side \in [Calls -> [Ends -> States]]
    /\ hs \in [Calls -> 0..3]
    /\ broken \in [Calls -> BOOLEAN]
    /\ subscribed \in [Calls -> SUBSET Ends]
    /\ sessions \in [Nodes -> [Nodes -> Calls \cup {None}]]
    /\ shutdown \in [Nodes -> {"no", "signalled", "locking", "closed"}]

\* A connection waits in the listener of the node it was made to, once, and its
\* responder has not been spawned; before the lock is got there is none of it.
Queued ==
    /\ \A n \in Nodes : \A i \in 1..Len(backlog[n]) :
           LET c == backlog[n][i]
           IN  /\ To[c] = n
               /\ side[c]["res"] = "idle"
               /\ side[c]["ini"] \notin {"idle", "locking"}
               /\ \A j \in 1..Len(backlog[n]) : backlog[n][j] = c => i = j
    /\ \A c \in Calls : side[c]["ini"] \in {"idle", "locking"} => side[c]["res"] = "idle"

\* The second message is the responder's, an end is established only after the
\* third, and a session loop closes its connection when it ends.
Shaken ==
    \A c \in Calls :
        /\ side[c]["res"] = "idle" => hs[c] <= 1
        /\ \A r \in Ends : /\ side[c][r] \in Established => hs[c] = 3
                           /\ side[c][r] = "done" => broken[c]

\* Why a connection with a complete handshake may have been closed.
Cause(c) ==
    \/ c \in lost
    \/ shutdown[From[c]] # "no" \/ shutdown[To[c]] # "no"
    \/ \E d \in Calls \ {c} : {From[d], To[d]} = {From[c], To[c]} /\ hs[d] = 3

BrokenHasCause == \A c \in Calls : broken[c] /\ hs[c] = 3 => Cause(c)

IInv == TypeOK /\ Queued /\ Shaken /\ MapIsSound /\ BrokenHasCause

-----------------------------------------------------------------------------
(* Types *)

\* Both ends of a connection are at nodes, and at different ones.
LEMMA EndsAreNodes ==
    ASSUME NEW c \in Calls, NEW r \in Ends
    PROVE  Here(c, r) \in Nodes /\ There(c, r) \in Nodes /\ Here(c, r) # There(c, r)
  BY OrchestratorAssumption DEF Here, There, Ends

\* No name of a call stands for the absence of an entry in the map.
LEMMA NoneIsNoCall == None \notin Calls
  BY OrchestratorAssumption DEF None

\* An end that moves to a state leaves every other end as it is.
LEMMA MovesOne ==
    ASSUME TypeOK, NEW c \in Calls, NEW r \in Ends, NEW s \in States, Moves(c, r, s)
    PROVE  /\ side' \in [Calls -> [Ends -> States]]
           /\ side'[c][r] = s
           /\ \A d \in Calls, q \in Ends : d # c \/ q # r => side'[d][q] = side[d][q]
  BY DEF TypeOK, Moves

\* What a node takes from the listener is a connection to it.
LEMMA HeadOfBacklog ==
    ASSUME TypeOK, NEW n \in Nodes, backlog[n] # <<>>
    PROVE  /\ Head(backlog[n]) \in Calls
           /\ Head(backlog[n]) = backlog[n][1]
           /\ Len(backlog[n]) \in Nat \ {0}
           /\ Tail(backlog[n]) \in Seq(Calls)
           /\ Len(Tail(backlog[n])) = Len(backlog[n]) - 1
           /\ \A i \in 1..Len(Tail(backlog[n])) : Tail(backlog[n])[i] = backlog[n][i + 1]
  <1>1. backlog[n] \in Seq(Calls)
    BY DEF TypeOK
  <1> QED
    BY <1>1, SMTT(30)

\* Nobody is connected and nothing is known at first.
LEMMA InitIInv == Init => IInv
  <1> SUFFICES ASSUME Init PROVE IInv
    OBVIOUS
  <1>1. TypeOK
    BY SMTT(30) DEF Init, TypeOK, States
  <1>2. Queued /\ Shaken
    BY SMTT(30) DEF Init, Queued, Shaken, Established, Ends
  <1>3. MapIsSound
    BY EndsAreNodes DEF Init, MapIsSound
  <1>4. BrokenHasCause
    BY DEF Init, BrokenHasCause
  <1> QED
    BY <1>1, <1>2, <1>3, <1>4 DEF IInv

\* Every operation keeps the types.
LEMMA TypeNext ==
    ASSUME TypeOK, [Next]_vars
    PROVE  TypeOK'
  <1> USE DEF Ends
  <1>1. ASSUME NEW n \in Nodes, accept_lock(n) PROVE TypeOK'
    BY <1>1 DEF TypeOK, accept_lock
  <1>2. ASSUME NEW n \in Nodes, accept_conn(n) PROVE TypeOK'
    <2>1. side' \in [Calls -> [Ends -> States]]
      BY <1>2, HeadOfBacklog, MovesOne DEF accept_conn, States
    <2>2. backlog' \in [Nodes -> Seq(Calls)]
      BY <1>2, HeadOfBacklog DEF TypeOK, accept_conn
    <2> QED
      BY <1>2, <2>1, <2>2 DEF TypeOK, accept_conn
  <1>3. ASSUME NEW n \in Nodes, accept_error(n) PROVE TypeOK'
    BY <1>3, HeadOfBacklog, ZenonT(60) DEF TypeOK, accept_error
  <1>4. ASSUME NEW n \in Nodes, accept_shutdown(n) PROVE TypeOK'
    BY <1>4 DEF TypeOK, accept_shutdown
  <1>5. ASSUME NEW n \in Nodes, shutdown_signal(n) PROVE TypeOK'
    BY <1>5 DEF TypeOK, shutdown_signal
  <1>6. ASSUME NEW n \in Nodes, shutdown_clear(n) PROVE TypeOK'
    BY <1>6 DEF TypeOK, shutdown_clear
  <1>7. ASSUME NEW n \in Nodes, transport_shutdown(n) PROVE TypeOK'
    BY <1>7, SMTT(30) DEF TypeOK, transport_shutdown
  <1>8. ASSUME NEW c \in Calls, connect(c) PROVE TypeOK'
    BY <1>8, MovesOne DEF TypeOK, connect, States
  <1>9. ASSUME NEW c \in Calls, transport_connect(c) PROVE TypeOK'
    <2>1. side' \in [Calls -> [Ends -> States]]
      BY <1>9, MovesOne DEF transport_connect, States
    <2>2. Append(backlog[To[c]], c) \in Seq(Calls)
      BY OrchestratorAssumption, SMTT(30) DEF TypeOK
    <2>3. backlog' \in [Nodes -> Seq(Calls)]
      BY <1>9, <2>2 DEF TypeOK, transport_connect
    <2> QED
      BY <1>9, <2>1, <2>3 DEF TypeOK, transport_connect
  <1>10. ASSUME NEW c \in Calls, transport_connected(c) PROVE TypeOK'
    BY <1>10, MovesOne DEF TypeOK, transport_connected, States
  <1>11. ASSUME NEW c \in Calls, lose(c) PROVE TypeOK'
    BY <1>11 DEF TypeOK, lose
  <1>12. ASSUME NEW c \in Calls, NEW r \in Ends, handshake_send(c, r) PROVE TypeOK'
    BY <1>12, SMTT(30) DEF TypeOK, handshake_send
  <1>13. ASSUME NEW c \in Calls, NEW r \in Ends, handshake_fail(c, r) PROVE TypeOK'
    BY <1>13, MovesOne, SMTT(30) DEF TypeOK, handshake_fail, States
  <1>14. ASSUME NEW c \in Calls, NEW r \in Ends, sessions_insert(c, r) PROVE TypeOK'
    BY <1>14, MovesOne, EndsAreNodes, ZenonT(60) DEF TypeOK, sessions_insert, States
  <1>15. ASSUME NEW c \in Calls, NEW r \in Ends, subscribe(c, r) PROVE TypeOK'
    BY <1>15, MovesOne, SMTT(30) DEF TypeOK, subscribe, States
  <1>16. ASSUME NEW c \in Calls, NEW r \in Ends, session_end(c, r) PROVE TypeOK'
    BY <1>16, MovesOne, SMTT(30) DEF TypeOK, session_end, close, States
  <1>17. CASE UNCHANGED vars
    BY <1>17 DEF TypeOK, vars
  <1> QED
    BY <1>1, <1>2, <1>3, <1>4, <1>5, <1>6, <1>7, <1>8, <1>9, <1>10, <1>11, <1>12, <1>13,
       <1>14, <1>15, <1>16, <1>17
    DEF Next, AcceptStep, ShutdownStep, ConnectStep, EndStep

-----------------------------------------------------------------------------
(* The listener *)

\* An end that has begun and goes on does not touch the waiting connections.
LEMMA QueuedMoves ==
    ASSUME TypeOK, Queued, NEW c \in Calls, NEW r \in Ends,
           NEW s \in States \ {"idle", "locking"},
           side[c][r] # "idle", Moves(c, r, s), UNCHANGED backlog
    PROVE  Queued'
  <1>1. \A n \in Nodes : \A i \in 1..Len(backlog[n]) : backlog[n][i] \in Calls
    BY SMTT(30) DEF TypeOK
  <1>2. "ini" \in Ends /\ "res" \in Ends
    BY DEF Ends
  <1> QED
    BY <1>1, <1>2, MovesOne, SMTT(30) DEF Queued

\* The listener of a node has each connection once, until it is accepted or the
\* listener is closed.
LEMMA QueuedNext ==
    ASSUME TypeOK, Queued, [Next]_vars
    PROVE  Queued'
  <1>0. /\ "ini" \in Ends /\ "res" \in Ends
        /\ \A n \in Nodes : backlog[n] \in Seq(Calls)
        /\ \A n \in Nodes : \A i \in 1..Len(backlog[n]) : backlog[n][i] \in Calls
    BY SMTT(30) DEF Ends, TypeOK
  <1>1. ASSUME NEW n \in Nodes, accept_conn(n) PROVE Queued'
    <2> DEFINE c == Head(backlog[n])
    <2>1. c \in Calls /\ c = backlog[n][1] /\ 1 \in 1..Len(backlog[n])
      BY <1>1, HeadOfBacklog, SMTT(30) DEF accept_conn
    <2>2. side[c]["ini"] \notin {"idle", "locking"}
      BY <2>1 DEF Queued
    <2>3. /\ side'[c]["res"] = "handshake"
          /\ \A d \in Calls, q \in Ends : d # c \/ q # "res" => side'[d][q] = side[d][q]
      BY <1>0, <1>1, <2>1, MovesOne DEF accept_conn, States
    <2>4. ASSUME NEW m \in Nodes, NEW i \in 1..Len(backlog'[m])
          PROVE  \E k \in 1..Len(backlog[m]) :
                     backlog'[m][i] = backlog[m][k] /\ (m = n => k = i + 1)
      <3>1. backlog[n] # <<>> /\ backlog' = [backlog EXCEPT ![n] = Tail(@)]
        BY <1>1 DEF accept_conn
      <3>2. /\ m # n => backlog'[m] = backlog[m]
            /\ Len(backlog'[n]) = Len(backlog[n]) - 1
            /\ Len(backlog[n]) \in Nat \ {0}
            /\ \A j \in 1..Len(backlog'[n]) : backlog'[n][j] = backlog[n][j + 1]
        BY <3>1, HeadOfBacklog DEF TypeOK
      <3>3. \A j \in 1..Len(backlog'[n]) : j + 1 \in 1..Len(backlog[n])
        BY <3>2, SMTT(30)
      <3> QED
        BY <3>2, <3>3
    <2>5. ASSUME NEW m \in Nodes, NEW i \in 1..Len(backlog'[m])
          PROVE  backlog'[m][i] # c /\ backlog'[m][i] \in Calls
      <3>1. PICK k \in 1..Len(backlog[m]) :
                     backlog'[m][i] = backlog[m][k] /\ (m = n => k = i + 1)
        BY <2>4
      <3>2. backlog[m][k] = c => m = n
        BY <2>1, SMTT(30) DEF Queued
      <3>3. m = n /\ backlog[m][k] = c => k = 1
        BY <2>1, SMTT(30) DEF Queued
      <3>4. i \in Nat /\ i > 0
        BY <1>0, <1>1, SMTT(30) DEF accept_conn, TypeOK
      <3> QED
        BY <1>0, <3>1, <3>2, <3>3, <3>4, SMTT(30)
    <2>6. ASSUME NEW m \in Nodes, NEW i \in 1..Len(backlog'[m]),
                 NEW j \in 1..Len(backlog'[m]), backlog'[m][j] = backlog'[m][i]
          PROVE  i = j
      <3>1. CASE m = n
        <4>1. PICK k \in 1..Len(backlog[m]) : backlog'[m][i] = backlog[m][k] /\ k = i + 1
          BY <2>4, <3>1
        <4>2. PICK l \in 1..Len(backlog[m]) : backlog'[m][j] = backlog[m][l] /\ l = j + 1
          BY <2>4, <3>1
        <4>3. k = l
          BY <2>6, <4>1, <4>2, SMTT(30) DEF Queued
        <4>4. i \in Nat /\ j \in Nat
          BY <1>0, <1>1, SMTT(30) DEF accept_conn, TypeOK
        <4> QED
          BY <4>1, <4>2, <4>3, <4>4, SMTT(30)
      <3>2. CASE m # n
        BY <1>1, <2>6, <3>2, SMTT(30) DEF Queued, accept_conn, TypeOK
      <3> QED
        BY <3>1, <3>2
    <2>7. ASSUME NEW m \in Nodes, NEW i \in 1..Len(backlog'[m])
          PROVE  LET d == backlog'[m][i]
                 IN  /\ To[d] = m
                     /\ side'[d]["res"] = "idle"
                     /\ side'[d]["ini"] \notin {"idle", "locking"}
      <3>1. PICK k \in 1..Len(backlog[m]) : backlog'[m][i] = backlog[m][k]
        BY <2>4
      <3>2. LET d == backlog[m][k]
            IN  /\ To[d] = m
                /\ side[d]["res"] = "idle"
                /\ side[d]["ini"] \notin {"idle", "locking"}
        BY DEF Queued
      <3> QED
        BY <1>0, <2>3, <2>5, <3>1, <3>2, SMTT(30)
    <2>8. ASSUME NEW d \in Calls, side'[d]["ini"] \in {"idle", "locking"}
          PROVE  side'[d]["res"] = "idle"
      BY <1>0, <2>1, <2>2, <2>3, <2>8, SMTT(30) DEF Queued
    <2> HIDE DEF c
    <2> QED
      BY <2>6, <2>7, <2>8, SMTT(30) DEF Queued
  <1>2. ASSUME NEW n \in Nodes, accept_error(n) PROVE Queued'
    <2>1. CASE UNCHANGED backlog
      BY <1>2, <2>1, SMTT(30) DEF accept_error, Queued
    <2>2. CASE backlog[n] # <<>> /\ backlog' = [backlog EXCEPT ![n] = Tail(@)]
      <3>1. ASSUME NEW m \in Nodes, m # n PROVE backlog'[m] = backlog[m]
        BY <2>2, <3>1 DEF TypeOK
      <3>2. /\ Len(backlog'[n]) = Len(backlog[n]) - 1
            /\ Len(backlog[n]) \in Nat \ {0}
            /\ \A i \in 1..Len(backlog'[n]) : backlog'[n][i] = backlog[n][i + 1]
        BY <2>2, HeadOfBacklog DEF TypeOK
      <3>3. \A i \in 1..Len(backlog'[n]) : i + 1 \in 1..Len(backlog[n])
        BY <3>2, SMTT(30)
      <3>4. ASSUME NEW m \in Nodes, NEW i \in 1..Len(backlog'[m])
            PROVE  \E k \in 1..Len(backlog[m]) :
                       /\ backlog'[m][i] = backlog[m][k]
                       /\ k = IF m = n THEN i + 1 ELSE i
        BY <3>1, <3>2, <3>3
      <3>5. ASSUME NEW m \in Nodes, NEW i \in 1..Len(backlog'[m]),
                   NEW j \in 1..Len(backlog'[m]), backlog'[m][j] = backlog'[m][i]
            PROVE  i = j
        <4>1. PICK k \in 1..Len(backlog[m]) : /\ backlog'[m][i] = backlog[m][k]
                                              /\ k = IF m = n THEN i + 1 ELSE i
          BY <3>4
        <4>2. PICK l \in 1..Len(backlog[m]) : /\ backlog'[m][j] = backlog[m][l]
                                              /\ l = IF m = n THEN j + 1 ELSE j
          BY <3>4
        <4>3. backlog[m][l] = backlog[m][k]
          BY <3>5, <4>1, <4>2
        <4>4. k = l
          BY <4>3, SMTT(30) DEF Queued
        <4> QED
          BY <4>1, <4>2, <4>4, SMTT(30)
      <3>6. UNCHANGED side
        BY <1>2 DEF accept_error
      <3>7. ASSUME NEW m \in Nodes, NEW i \in 1..Len(backlog'[m])
            PROVE  /\ To[backlog'[m][i]] = m
                   /\ side[backlog'[m][i]]["res"] = "idle"
                   /\ side[backlog'[m][i]]["ini"] \notin {"idle", "locking"}
        <4>1. PICK k \in 1..Len(backlog[m]) : backlog'[m][i] = backlog[m][k]
          BY <3>4
        <4> QED
          BY <4>1, SMTT(30) DEF Queued
      <3> QED
        BY <3>5, <3>6, <3>7, SMTT(30) DEF Queued
    <2> QED
      BY <1>2, <2>1, <2>2 DEF accept_error
  <1>3. ASSUME NEW n \in Nodes, transport_shutdown(n) PROVE Queued'
    <2>1. backlog'[n] = <<>> /\ \A m \in Nodes : m # n => backlog'[m] = backlog[m]
      BY <1>3 DEF transport_shutdown, TypeOK
    <2> QED
      BY <1>3, <2>1, SMTT(30) DEF transport_shutdown, Queued
  <1>4. ASSUME NEW c \in Calls, connect(c) PROVE Queued'
    <2>1. PICK s \in {"present", "failed", "locking"} : Moves(c, "ini", s)
      BY <1>4 DEF connect
    <2>2. \A n \in Nodes : \A i \in 1..Len(backlog[n]) : backlog[n][i] # c
      BY <1>4, SMTT(30) DEF connect, Queued
    <2>3. \A d \in Calls, q \in Ends : d # c \/ q # "ini" => side'[d][q] = side[d][q]
      BY <1>0, <2>1, MovesOne, SMTT(30) DEF States
    <2>4. side[c]["res"] = "idle" /\ UNCHANGED backlog
      BY <1>4 DEF connect, Queued
    <2> QED
      BY <1>0, <2>2, <2>3, <2>4, SMTT(30) DEF Queued
  <1>5. ASSUME NEW c \in Calls, transport_connect(c) PROVE Queued'
    <2>1. CASE UNCHANGED backlog
      BY <1>0, <1>5, <2>1, QueuedMoves DEF transport_connect, States
    <2>2. CASE backlog' = [backlog EXCEPT ![To[c]] = Append(@, c)]
      <3>1. PICK s \in {"connecting", "handshake", "failed"} : Moves(c, "ini", s)
        BY <1>5 DEF transport_connect
      <3>2. /\ side'[c]["ini"] = s
            /\ \A d \in Calls, q \in Ends : d # c \/ q # "ini" => side'[d][q] = side[d][q]
        BY <1>0, <3>1, MovesOne, SMTT(30) DEF States
      <3>3. /\ \A n \in Nodes : \A i \in 1..Len(backlog[n]) : backlog[n][i] # c
            /\ side[c]["res"] = "idle"
        BY <1>5, SMTT(30) DEF transport_connect, Queued
      <3>4. To[c] \in Nodes
        BY OrchestratorAssumption
      <3>5. /\ Len(backlog'[To[c]]) = Len(backlog[To[c]]) + 1
            /\ Len(backlog[To[c]]) \in Nat
            /\ \A i \in 1..Len(backlog[To[c]]) : backlog'[To[c]][i] = backlog[To[c]][i]
            /\ backlog'[To[c]][Len(backlog[To[c]]) + 1] = c
        BY <1>0, <2>2, <3>4, SMTT(30) DEF TypeOK
      <3>6. \A n \in Nodes : n # To[c] => backlog'[n] = backlog[n]
        BY <2>2 DEF TypeOK
      <3>7. ASSUME NEW n \in Nodes, NEW i \in 1..Len(backlog'[n])
            PROVE  \/ n = To[c] /\ i = Len(backlog[n]) + 1 /\ backlog'[n][i] = c
                   \/ i \in 1..Len(backlog[n]) /\ backlog'[n][i] = backlog[n][i]
        BY <3>5, <3>6, SMTT(30)
      <3>8. ASSUME NEW n \in Nodes, NEW i \in 1..Len(backlog'[n]),
                   NEW j \in 1..Len(backlog'[n]), backlog'[n][j] = backlog'[n][i]
            PROVE  i = j
        BY <3>3, <3>7, <3>8, SMTT(30) DEF Queued
      <3>9. ASSUME NEW n \in Nodes, NEW i \in 1..Len(backlog'[n])
            PROVE  LET d == backlog'[n][i]
                   IN  /\ To[d] = n
                       /\ side'[d]["res"] = "idle"
                       /\ side'[d]["ini"] \notin {"idle", "locking"}
        <4>1. CASE n = To[c] /\ backlog'[n][i] = c
          BY <1>0, <3>2, <3>3, <4>1
        <4>2. CASE i \in 1..Len(backlog[n]) /\ backlog'[n][i] = backlog[n][i]
          BY <1>0, <3>2, <3>3, <4>2, SMTT(30) DEF Queued
        <4> QED
          BY <3>7, <4>1, <4>2
      <3>10. ASSUME NEW d \in Calls, side'[d]["ini"] \in {"idle", "locking"}
             PROVE  side'[d]["res"] = "idle"
        BY <1>0, <3>2, <3>3, <3>10, SMTT(30) DEF Queued
      <3> QED
        BY <3>8, <3>9, <3>10, SMTT(30) DEF Queued
    <2> QED
      BY <1>5, <2>1, <2>2 DEF transport_connect
  <1>6. ASSUME NEW c \in Calls, transport_connected(c) PROVE Queued'
    BY <1>0, <1>6, QueuedMoves DEF transport_connected, States
  <1>7. ASSUME NEW c \in Calls, NEW r \in Ends,
               handshake_fail(c, r) \/ sessions_insert(c, r) \/ subscribe(c, r)
                   \/ session_end(c, r)
        PROVE  Queued'
    BY <1>7, QueuedMoves DEF handshake_fail, sessions_insert, subscribe, session_end, States
  <1>8. CASE UNCHANGED <<backlog, side>>
    BY <1>8, SMTT(30) DEF Queued
  <1> QED
    BY <1>1, <1>2, <1>3, <1>4, <1>5, <1>6, <1>7, <1>8
    DEF Next, AcceptStep, ShutdownStep, ConnectStep, EndStep, vars, accept_lock,
        accept_shutdown, shutdown_signal, shutdown_clear, lose, handshake_send

-----------------------------------------------------------------------------
(* The handshake and the map *)

\* An end that moves to a state keeps what the handshake says of it.
LEMMA ShakenMoves ==
    ASSUME TypeOK, Shaken, NEW c \in Calls, NEW r \in Ends, NEW s \in States,
           Moves(c, r, s), UNCHANGED hs,
           r = "res" /\ s = "idle" => hs[c] <= 1,
           s \in Established => hs[c] = 3,
           s = "done" => broken'[c],
           \A d \in Calls : broken[d] => broken'[d]
    PROVE  Shaken'
  <1>1. "ini" \in Ends /\ "res" \in Ends
    BY DEF Ends
  <1>2. /\ side'[c][r] = s
        /\ \A d \in Calls, q \in Ends : d # c \/ q # r => side'[d][q] = side[d][q]
    BY MovesOne, SMTT(30)
  <1>3. ASSUME NEW d \in Calls, side'[d]["res"] = "idle" PROVE hs'[d] <= 1
    BY <1>1, <1>2, <1>3 DEF Shaken
  <1>4. ASSUME NEW d \in Calls, NEW q \in Ends
        PROVE  /\ side'[d][q] \in Established => hs'[d] = 3
               /\ side'[d][q] = "done" => broken'[d]
    BY <1>2, SMTT(30) DEF Shaken
  <1> QED
    BY <1>3, <1>4 DEF Shaken

\* Handshake messages are sent in turn, and only the third lets an end go on.
LEMMA ShakenNext ==
    ASSUME TypeOK, Queued, Shaken, [Next]_vars
    PROVE  Shaken'
  <1>0. "ini" \in Ends /\ "res" \in Ends
    BY DEF Ends
  <1> USE DEF Established, States
  <1>1. ASSUME NEW n \in Nodes, accept_conn(n) PROVE Shaken'
    <2>1. Head(backlog[n]) \in Calls
      BY <1>1, HeadOfBacklog DEF accept_conn
    <2> QED
      BY <1>0, <1>1, <2>1, ShakenMoves DEF accept_conn
  <1>2. ASSUME NEW n \in Nodes, transport_shutdown(n) PROVE Shaken'
    BY <1>2 DEF transport_shutdown, Shaken
  <1>3. ASSUME NEW c \in Calls, connect(c) PROVE Shaken'
    BY <1>0, <1>3, ShakenMoves DEF connect
  <1>4. ASSUME NEW c \in Calls, transport_connect(c) PROVE Shaken'
    BY <1>0, <1>4, ShakenMoves DEF transport_connect
  <1>5. ASSUME NEW c \in Calls, transport_connected(c) PROVE Shaken'
    <2>1. \A d \in Calls : broken[d] => broken'[d]
      BY <1>5 DEF transport_connected, TypeOK
    <2> QED
      BY <1>0, <1>5, <2>1, ShakenMoves DEF transport_connected
  <1>6. ASSUME NEW c \in Calls, lose(c) PROVE Shaken'
    BY <1>6 DEF lose, Shaken, TypeOK
  <1>7. ASSUME NEW c \in Calls, NEW r \in Ends, handshake_send(c, r) PROVE Shaken'
    <2>1. \A d \in Calls : d # c => hs'[d] = hs[d]
      BY <1>7 DEF handshake_send, TypeOK
    <2>2. hs'[c] = hs[c] + 1 /\ hs[c] < 3
      BY <1>7, SMTT(30) DEF handshake_send, TypeOK
    <2>3. side[c]["res"] = "idle" => hs[c] = 0
      BY <1>7, <2>2, SMTT(30) DEF handshake_send, Shaken, Ends, TypeOK
    <2> QED
      BY <1>7, <2>1, <2>2, <2>3, SMTT(30) DEF handshake_send, Shaken, TypeOK
  <1>8. ASSUME NEW c \in Calls, NEW r \in Ends, handshake_fail(c, r) PROVE Shaken'
    BY <1>8, ShakenMoves DEF handshake_fail
  <1>9. ASSUME NEW c \in Calls, NEW r \in Ends, sessions_insert(c, r) PROVE Shaken'
    BY <1>9, ShakenMoves DEF sessions_insert
  <1>10. ASSUME NEW c \in Calls, NEW r \in Ends, subscribe(c, r) PROVE Shaken'
    BY <1>10, ShakenMoves DEF subscribe, Shaken
  <1>11. ASSUME NEW c \in Calls, NEW r \in Ends, session_end(c, r) PROVE Shaken'
    <2>1. broken'[c] /\ \A d \in Calls : broken[d] => broken'[d]
      BY <1>11 DEF session_end, close, TypeOK
    <2>2. hs[c] = 3
      BY <1>11 DEF session_end, Shaken
    <2> QED
      BY <1>11, <2>1, <2>2, ShakenMoves DEF session_end
  <1>12. CASE UNCHANGED <<side, hs, broken>>
    BY <1>12 DEF Shaken
  <1> QED
    BY <1>1, <1>2, <1>3, <1>4, <1>5, <1>6, <1>7, <1>8, <1>9, <1>10, <1>11, <1>12
    DEF Next, AcceptStep, ShutdownStep, ConnectStep, EndStep, vars, accept_lock, accept_error,
        accept_shutdown, shutdown_signal, shutdown_clear

\* Nothing goes back: a complete handshake stays complete, an established end
\* stays established, a closed connection closed, a lost one lost, and a node
\* that has begun to shut down does not run again.
LEMMA Forward ==
    ASSUME TypeOK, Queued, [Next]_vars
    PROVE  /\ \A c \in Calls : hs[c] = 3 => hs'[c] = 3
           /\ \A c \in Calls : broken[c] => broken'[c]
           /\ \A c \in Calls, r \in Ends : side[c][r] \in Established
                                               => side'[c][r] \in Established
           /\ \A n \in Nodes : shutdown[n] # "no" => shutdown'[n] # "no"
           /\ lost \subseteq lost'
  <1>1. \A c \in Calls : hs[c] = 3 => hs'[c] = 3
    <2>1. ASSUME NEW c \in Calls, NEW r \in Ends, handshake_send(c, r)
          PROVE  \A d \in Calls : hs[d] = 3 => hs'[d] = 3
      BY <2>1, SMTT(30) DEF handshake_send, TypeOK
    <2>2. CASE UNCHANGED hs
      BY <2>2
    <2> QED
      BY <2>1, <2>2, ZenonT(60)
      DEF Next, AcceptStep, ShutdownStep, ConnectStep, EndStep, vars, accept_lock, accept_conn,
          accept_error, accept_shutdown, shutdown_signal, shutdown_clear, transport_shutdown,
          connect, transport_connect, transport_connected, lose, handshake_fail,
          sessions_insert, subscribe, session_end
  <1>2. \A c \in Calls : broken[c] => broken'[c]
    BY ZenonT(60) DEF TypeOK, Next, AcceptStep, ShutdownStep, ConnectStep, EndStep, vars, accept_lock,
           accept_conn, accept_error, accept_shutdown, shutdown_signal, shutdown_clear,
           transport_shutdown, connect, transport_connect, transport_connected, lose,
           handshake_send, handshake_fail, sessions_insert, subscribe, session_end, close
  <1>3. \A n \in Nodes : shutdown[n] # "no" => shutdown'[n] # "no"
    <2>1. ASSUME NEW n \in Nodes, shutdown_signal(n) \/ shutdown_clear(n) \/ transport_shutdown(n)
          PROVE  \A m \in Nodes : shutdown[m] # "no" => shutdown'[m] # "no"
      BY <2>1 DEF TypeOK, shutdown_signal, shutdown_clear, transport_shutdown
    <2>2. CASE UNCHANGED shutdown
      BY <2>2
    <2> QED
      BY <2>1, <2>2, ZenonT(60)
      DEF Next, AcceptStep, ShutdownStep, ConnectStep, EndStep, vars, accept_lock, accept_conn,
          accept_error, accept_shutdown, connect, transport_connect, transport_connected, lose,
          handshake_send, handshake_fail, sessions_insert, subscribe, session_end
  <1>4. \A c \in Calls, r \in Ends : side[c][r] \in Established => side'[c][r] \in Established
    <2>0. "ini" \in Ends /\ "res" \in Ends
      BY DEF Ends
    <2>1. ASSUME NEW n \in Nodes, accept_conn(n)
          PROVE  \A c \in Calls, r \in Ends : side[c][r] \in Established
                                                  => side'[c][r] \in Established
      <3>1. /\ Head(backlog[n]) \in Calls
            /\ side[Head(backlog[n])]["res"] = "idle"
            /\ Moves(Head(backlog[n]), "res", "handshake")
        BY <2>1, HeadOfBacklog, SMTT(30) DEF accept_conn, Queued
      <3> QED
        BY <2>0, <3>1, MovesOne, SMTT(30) DEF Established, States
    <2>2. ASSUME NEW c \in Calls, NEW r \in Ends, NEW s \in States, Moves(c, r, s),
                 side[c][r] \in Established => s \in Established
          PROVE  \A d \in Calls, q \in Ends : side[d][q] \in Established
                                                  => side'[d][q] \in Established
      BY <2>2, MovesOne, SMTT(30)
    <2>3. ASSUME NEW c \in Calls, ConnectStep(c)
          PROVE  \E s \in States : /\ Moves(c, "ini", s)
                                   /\ side[c]["ini"] \notin Established
      BY <2>3 DEF ConnectStep, connect, transport_connect, transport_connected, Established,
                  States
    <2>4. ASSUME NEW c \in Calls, NEW r \in Ends, EndStep(c, r), ~UNCHANGED side
          PROVE  \E s \in States : /\ Moves(c, r, s)
                                   /\ side[c][r] \in Established => s \in Established
      BY <2>4 DEF EndStep, handshake_send, handshake_fail, sessions_insert, subscribe,
                  session_end, Established, States
    <2>5. CASE UNCHANGED side
      BY <2>5
    <2> QED
      BY <2>0, <2>1, <2>2, <2>3, <2>4, <2>5
      DEF Next, AcceptStep, ShutdownStep, vars, accept_lock, accept_error, accept_shutdown,
          shutdown_signal, shutdown_clear, transport_shutdown, lose
  <1>5. lost \subseteq lost'
    <2>1. ASSUME NEW c \in Calls, lose(c) PROVE lost \subseteq lost'
      BY <2>1 DEF lose
    <2>2. CASE UNCHANGED lost
      BY <2>2
    <2> QED
      BY <2>1, <2>2, ZenonT(60)
      DEF Next, AcceptStep, ShutdownStep, ConnectStep, EndStep, vars, accept_lock, accept_conn,
          accept_error, accept_shutdown, shutdown_signal, shutdown_clear, transport_shutdown,
          connect, transport_connect, transport_connected, handshake_send, handshake_fail,
          sessions_insert, subscribe, session_end
  <1> QED
    BY <1>1, <1>2, <1>3, <1>4, <1>5

\* The two parts of MapIsSound, for an entry and for a session loop.
EntryIsSound(n, m) ==
    sessions[n][m] # None =>
        \E r \in Ends : /\ Here(sessions[n][m], r) = n /\ There(sessions[n][m], r) = m
                        /\ hs[sessions[n][m]] = 3
                        /\ side[sessions[n][m]][r] \in Established

LoopHasEntry(c, r) ==
    side[c][r] \in {"inserted", "running"} /\ shutdown[Here(c, r)] = "no"
        => sessions[Here(c, r)][There(c, r)] # None

\* The map is sound when every entry and every loop is.
LEMMA MapParts ==
    MapIsSound <=> /\ \A n, m \in Nodes : EntryIsSound(n, m)
                   /\ \A c \in Calls, r \in Ends : LoopHasEntry(c, r)
  BY DEF MapIsSound, EntryIsSound, LoopHasEntry, Established

\* The same of the next state.
LEMMA MapPartsNext ==
    ASSUME \A n, m \in Nodes : EntryIsSound(n, m)',
           \A c \in Calls, r \in Ends : LoopHasEntry(c, r)'
    PROVE  MapIsSound'
  BY DEF MapIsSound, EntryIsSound, LoopHasEntry, Established, Here, There, None

\* What Forward leaves of the map, when nothing is put into it or taken out and
\* no end is inserted.
LEMMA MapKept ==
    ASSUME TypeOK, Queued, MapIsSound, [Next]_vars, UNCHANGED sessions,
           \A c \in Calls, r \in Ends : side'[c][r] \in {"inserted", "running"}
                                           => side[c][r] \in {"inserted", "running"}
    PROVE  MapIsSound'
  <1>1. ASSUME NEW n \in Nodes, NEW m \in Nodes PROVE EntryIsSound(n, m)'
    <2>1. sessions[n][m] # None => sessions[n][m] \in Calls
      BY SMTT(30) DEF TypeOK
    <2>2. EntryIsSound(n, m)
      BY MapParts
    <2> QED
      BY <2>1, <2>2, Forward DEF EntryIsSound, Here, There, None
  <1>2. ASSUME NEW c \in Calls, NEW r \in Ends PROVE LoopHasEntry(c, r)'
    <2>1. LoopHasEntry(c, r) /\ Here(c, r) \in Nodes
      BY MapParts, EndsAreNodes
    <2> QED
      BY <2>1, Forward DEF LoopHasEntry, Here, There, None
  <1> QED
    BY <1>1, <1>2, MapPartsNext

\* The map holds complete handshakes, and every loop of a running node is in it
\* or has been replaced.
LEMMA MapNext ==
    ASSUME TypeOK, Queued, MapIsSound, [Next]_vars
    PROVE  MapIsSound'
  <1>0. "ini" \in Ends /\ "res" \in Ends
    BY DEF Ends
  <1>1. ASSUME NEW c \in Calls, NEW r \in Ends, sessions_insert(c, r) PROVE MapIsSound'
    <2>1. /\ side'[c][r] = "inserted"
          /\ \A d \in Calls, q \in Ends : d # c \/ q # r => side'[d][q] = side[d][q]
          /\ hs'[c] = 3 /\ UNCHANGED <<hs, shutdown>>
      BY <1>1, MovesOne DEF sessions_insert, States
    <2>2. /\ sessions'[Here(c, r)][There(c, r)] = c
          /\ \A n, m \in Nodes : n # Here(c, r) \/ m # There(c, r)
                                      => sessions'[n][m] = sessions[n][m]
      BY <1>1, EndsAreNodes DEF sessions_insert, TypeOK
    <2>3. ASSUME NEW n \in Nodes, NEW m \in Nodes PROVE EntryIsSound(n, m)'
      <3>1. CASE n = Here(c, r) /\ m = There(c, r)
        BY <2>1, <2>2, <3>1, ZenonT(60) DEF EntryIsSound, Established, Here, There, None
      <3>2. CASE n # Here(c, r) \/ m # There(c, r)
        <4>1. sessions'[n][m] = sessions[n][m]
          BY <2>2, <3>2
        <4>2. EntryIsSound(n, m) /\ (sessions[n][m] # None => sessions[n][m] \in Calls)
          BY MapParts, SMTT(30) DEF TypeOK
        <4> QED
          BY <2>1, <4>1, <4>2, Forward DEF EntryIsSound, Here, There, None
      <3> QED
        BY <3>1, <3>2
    <2>4. ASSUME NEW d \in Calls, NEW q \in Ends PROVE LoopHasEntry(d, q)'
      <3>0. Here(d, q) \in Nodes /\ There(d, q) \in Nodes /\ LoopHasEntry(d, q)
        BY MapParts, EndsAreNodes
      <3>1. CASE Here(d, q) = Here(c, r) /\ There(d, q) = There(c, r)
        <4>1. sessions'[Here(d, q)][There(d, q)] # None
          BY <2>2, <3>1, NoneIsNoCall
        <4> QED
          BY <4>1 DEF LoopHasEntry, Here, There, None
      <3>2. CASE Here(d, q) # Here(c, r) \/ There(d, q) # There(c, r)
        <4>1. sessions'[Here(d, q)][There(d, q)] = sessions[Here(d, q)][There(d, q)]
          BY <2>2, <3>0, <3>2
        <4>2. side'[d][q] = side[d][q] /\ shutdown' = shutdown
          BY <2>1, <3>2
        <4> QED
          BY <3>0, <4>1, <4>2 DEF LoopHasEntry, Here, There, None
      <3> QED
        BY <3>1, <3>2
    <2> QED
      BY <2>3, <2>4, MapPartsNext
  <1>2. ASSUME NEW n \in Nodes, shutdown_clear(n) PROVE MapIsSound'
    <2>1. /\ \A m \in Nodes : sessions'[n][m] = None
          /\ \A k, m \in Nodes : k # n => sessions'[k][m] = sessions[k][m]
          /\ shutdown'[n] = "locking"
          /\ \A k \in Nodes : k # n => shutdown'[k] = shutdown[k]
          /\ UNCHANGED <<side, hs>>
      BY <1>2 DEF shutdown_clear, TypeOK
    <2>2. ASSUME NEW k \in Nodes, NEW m \in Nodes PROVE EntryIsSound(k, m)'
      <3>1. CASE k = n
        BY <2>1, <3>1 DEF EntryIsSound, None
      <3>2. CASE k # n
        <4>1. EntryIsSound(k, m) /\ sessions'[k][m] = sessions[k][m]
          BY <2>1, <3>2, MapParts
        <4> QED
          BY <2>1, <4>1 DEF EntryIsSound, Here, There, None
      <3> QED
        BY <3>1, <3>2
    <2>3. ASSUME NEW d \in Calls, NEW q \in Ends PROVE LoopHasEntry(d, q)'
      <3>0. Here(d, q) \in Nodes /\ There(d, q) \in Nodes /\ LoopHasEntry(d, q)
        BY MapParts, EndsAreNodes
      <3>1. CASE Here(d, q) = n
        <4>1. shutdown'[Here(d, q)] # "no"
          BY <2>1, <3>1
        <4> QED
          BY <4>1 DEF LoopHasEntry, Here
      <3>2. CASE Here(d, q) # n
        <4>1. /\ sessions'[Here(d, q)][There(d, q)] = sessions[Here(d, q)][There(d, q)]
              /\ shutdown'[Here(d, q)] = shutdown[Here(d, q)]
          BY <2>1, <3>0, <3>2
        <4> QED
          BY <2>1, <3>0, <4>1 DEF LoopHasEntry, Here, There, None
      <3> QED
        BY <3>1, <3>2
    <2> QED
      BY <2>2, <2>3, MapPartsNext
  <1>3. ASSUME NEW c \in Calls, NEW r \in Ends, NEW s \in States, Moves(c, r, s),
               UNCHANGED sessions,
               s \in {"inserted", "running"} => side[c][r] \in {"inserted", "running"}
        PROVE  MapIsSound'
    BY <1>3, MovesOne, MapKept, SMTT(30)
  <1>4. ASSUME NEW n \in Nodes, accept_conn(n) PROVE MapIsSound'
    BY <1>0, <1>3, <1>4, HeadOfBacklog DEF accept_conn, States
  <1>5. ASSUME NEW c \in Calls, ConnectStep(c)
        PROVE  \E s \in States \ {"inserted", "running"} :
                   Moves(c, "ini", s) /\ UNCHANGED sessions
    BY <1>5 DEF ConnectStep, connect, transport_connect, transport_connected, States
  <1>6. ASSUME NEW c \in Calls, NEW r \in Ends, subscribe(c, r) PROVE MapIsSound'
    BY <1>3, <1>6 DEF subscribe, States
  <1>7. ASSUME NEW c \in Calls, NEW r \in Ends, handshake_fail(c, r) \/ session_end(c, r)
        PROVE  MapIsSound'
    BY <1>3, <1>7 DEF handshake_fail, session_end, States
  <1>8. CASE UNCHANGED <<side, sessions>>
    BY <1>8, MapKept
  <1> QED
    BY <1>0, <1>1, <1>2, <1>3, <1>4, <1>5, <1>6, <1>7, <1>8
    DEF Next, AcceptStep, ShutdownStep, EndStep, vars, accept_lock, accept_error,
        accept_shutdown, shutdown_signal, transport_shutdown, lose, handshake_send

-----------------------------------------------------------------------------
(* Why connections are closed *)

\* A cause does not go away.
LEMMA CauseStays ==
    ASSUME TypeOK, Queued, [Next]_vars, NEW c \in Calls, Cause(c)
    PROVE  Cause(c)'
  <1>1. From[c] \in Nodes /\ To[c] \in Nodes
    BY OrchestratorAssumption
  <1> QED
    BY <1>1, Forward DEF Cause

\* When the entry of a running node is another connection, that is one between
\* the same two nodes.
LEMMA ReplacedHasCause ==
    ASSUME TypeOK, MapIsSound, NEW c \in Calls, NEW r \in Ends,
           side[c][r] = "running", WriterGone(c, r)
    PROVE  Cause(c)
  <1> DEFINE n == Here(c, r)
             m == There(c, r)
             d == sessions[n][m]
  <1>1. n \in Nodes /\ m \in Nodes /\ {n, m} = {From[c], To[c]}
    BY EndsAreNodes DEF Here, There, Ends
  <1>2. CASE shutdown[n] # "no"
    BY <1>1, <1>2 DEF Cause
  <1>3. CASE shutdown[n] = "no"
    <2>1. d # None /\ d # c /\ d \in Calls
      BY <1>1, <1>3, SMTT(30) DEF MapIsSound, WriterGone, TypeOK
    <2>2. PICK q \in Ends : Here(d, q) = n /\ There(d, q) = m /\ hs[d] = 3
      BY <1>1, <2>1 DEF MapIsSound
    <2>3. {From[d], To[d]} = {n, m}
      BY <2>2 DEF Here, There, Ends
    <2> HIDE DEF n, m, d
    <2> QED
      BY <1>1, <2>1, <2>2, <2>3 DEF Cause
  <1> QED
    BY <1>2, <1>3

\* Every step that closes a connection with a complete handshake has a cause,
\* and no handshake is completed over a closed connection.
LEMMA CauseNext ==
    ASSUME IInv, [Next]_vars
    PROVE  BrokenHasCause'
  <1> USE DEF IInv
  <1> SUFFICES ASSUME NEW c \in Calls, broken'[c], hs'[c] = 3
               PROVE  Cause(c)'
    BY DEF BrokenHasCause
  <1>1. CASE broken[c] /\ hs[c] = 3
    BY <1>1, CauseStays DEF BrokenHasCause
  <1>2. ASSUME NEW d \in Calls, NEW r \in Ends, handshake_send(d, r) PROVE Cause(c)'
    <2>1. d # c => hs'[c] = hs[c]
      BY <1>2 DEF handshake_send, TypeOK
    <2>2. d # c /\ broken[c]
      BY <1>2 DEF handshake_send
    <2> QED
      BY <1>1, <2>1, <2>2
  <1>3. ASSUME NEW d \in Calls, transport_connected(d), UNCHANGED hs PROVE Cause(c)'
    <2>1. broken[c] \/ (d = c /\ side[c]["res"] = "idle")
      BY <1>3 DEF transport_connected, TypeOK
    <2>2. side[c]["res"] = "idle" => hs[c] # 3
      BY SMTT(30) DEF Shaken, TypeOK
    <2> QED
      BY <1>1, <1>3, <2>1, <2>2
  <1>4. ASSUME NEW d \in Calls, NEW r \in Ends, session_end(d, r), UNCHANGED hs PROVE Cause(c)'
    <2>1. CASE broken[c]
      BY <1>1, <1>4, <2>1
    <2>2. CASE ~broken[c]
      <3>1. d = c
        BY <1>4, <2>2 DEF session_end, close, TypeOK
      <3>2. CASE shutdown[Here(c, r)] # "no"
        BY <3>2, CauseStays DEF Cause, Here, Ends
      <3>3. CASE WriterGone(c, r)
        BY <1>4, <3>1, <3>3, ReplacedHasCause, CauseStays DEF session_end
      <3> QED
        BY <1>4, <2>2, <3>1, <3>2, <3>3 DEF session_end
    <2> QED
      BY <2>1, <2>2
  <1>5. ASSUME NEW d \in Calls, lose(d), UNCHANGED hs PROVE Cause(c)'
    <2>1. broken[c] \/ c \in lost'
      BY <1>5 DEF lose, TypeOK
    <2> QED
      BY <1>1, <1>5, <2>1 DEF Cause
  <1>6. ASSUME NEW n \in Nodes, transport_shutdown(n), UNCHANGED hs PROVE Cause(c)'
    <2>1. shutdown'[n] # "no"
      BY <1>6 DEF transport_shutdown, TypeOK
    <2>2. (\E i \in DOMAIN backlog[n] : backlog[n][i] = c) => To[c] = n
      <3>1. DOMAIN backlog[n] = 1..Len(backlog[n])
        BY SMTT(30) DEF TypeOK
      <3> QED
        BY <3>1, SMTT(30) DEF Queued
    <2>3. broken[c] \/ From[c] = n \/ To[c] = n
      BY <1>6, <2>2 DEF transport_shutdown, Here
    <2> QED
      BY <1>1, <1>6, <2>1, <2>3 DEF Cause
  <1>7. CASE UNCHANGED <<broken, hs>>
    BY <1>1, <1>7
  <1>8. ASSUME NEW n \in Nodes, AcceptStep(n) \/ ShutdownStep(n) \/ shutdown_signal(n)
        PROVE  Cause(c)'
    BY <1>6, <1>7, <1>8
    DEF AcceptStep, ShutdownStep, accept_lock, accept_conn, accept_error, accept_shutdown,
        shutdown_signal, shutdown_clear, transport_shutdown
  <1>9. ASSUME NEW d \in Calls, ConnectStep(d) \/ lose(d) PROVE Cause(c)'
    BY <1>3, <1>5, <1>7, <1>9
    DEF ConnectStep, connect, transport_connect, transport_connected, lose
  <1>10. ASSUME NEW d \in Calls, NEW r \in Ends, EndStep(d, r) PROVE Cause(c)'
    BY <1>2, <1>4, <1>7, <1>10
    DEF EndStep, handshake_fail, sessions_insert, subscribe, session_end
  <1> QED
    BY <1>7, <1>8, <1>9, <1>10 DEF Next, vars

-----------------------------------------------------------------------------
\* The invariant holds in every reachable state.
LEMMA Invariance == Spec => []IInv
  <1>1. IInv /\ [Next]_vars => IInv'
    BY TypeNext, QueuedNext, ShakenNext, MapNext, CauseNext DEF IInv
  <1> QED
    BY <1>1, InitIInv, PTL DEF Spec

\* Only connections with a complete handshake are in the sessions map, and a
\* session loop whose node is not shutting down is in the map or has been
\* replaced there (lib.rs:182, 338), for any nodes, calls and interleaving.
THEOREM MapIsSoundHolds == Spec => []MapIsSound
  <1>1. IInv => MapIsSound
    BY DEF IInv
  <1> QED
    BY <1>1, Invariance, PTL

\* An entry whose session loop is gone is there because the network broke the
\* connection, one of its nodes shuts down, or a second connection between the
\* two nodes was made (lib.rs:182, 338, 381-383 and 418).
THEOREM DeadEntriesHaveCauseHolds == Spec => []DeadEntriesHaveCause
  <1>1. IInv => DeadEntriesHaveCause
    <2> SUFFICES ASSUME IInv, NEW n \in Nodes, NEW m \in Nodes, Stale(n, m)
                 PROVE  \/ sessions[n][m] \in lost
                        \/ shutdown[n] # "no" \/ shutdown[m] # "no"
                        \/ \E d \in Calls \ {sessions[n][m]} :
                               {From[d], To[d]} = {n, m} /\ hs[d] = 3
      BY DEF DeadEntriesHaveCause
    <2> USE DEF IInv
    <2> DEFINE c == sessions[n][m]
    <2>1. c \in Calls /\ c # None
      BY SMTT(30) DEF Stale, TypeOK
    <2>2. PICK r \in Ends : Here(c, r) = n /\ There(c, r) = m /\ hs[c] = 3
      BY <2>1 DEF MapIsSound
    <2>3. {From[c], To[c]} = {n, m}
      BY <2>2 DEF Here, There, Ends
    <2>4. broken[c]
      BY <2>1 DEF Stale, Shaken, Ends
    <2>5. Cause(c)
      BY <2>1, <2>2, <2>4 DEF BrokenHasCause
    <2>6. (From[c] = n /\ To[c] = m) \/ (From[c] = m /\ To[c] = n)
      BY <2>2 DEF Here, There, Ends
    <2> HIDE DEF c
    <2>7. \/ c \in lost
          \/ shutdown[n] # "no" \/ shutdown[m] # "no"
          \/ \E d \in Calls \ {c} : {From[d], To[d]} = {n, m} /\ hs[d] = 3
      BY <2>3, <2>5, <2>6 DEF Cause
    <2> QED
      BY <2>7 DEF c
  <1> QED
    BY <1>1, Invariance, PTL

-----------------------------------------------------------------------------
(* The ratcheting channel: SecureChannel. *)

\* The key of the i-th message (from 0) that e encrypts.
KeyAt(e, i) == [half |-> Channel!half(e), gen |-> i]

\* Every live key is as many ratchet steps old as its counter says, every
\* ciphertext carries the key of its position, and the network holds only
\* ciphertexts that were made.
ChannelIInv ==
    /\ Channel!TypeOK
    /\ Channel!InOrderExactlyOnce
    /\ \A e \in Channel!Endpoints :
        /\ Len(sealed[e]) = send_counter[e]
        /\ Len(opened[e]) = recv_counter[e]
        /\ alive[e] => /\ send_key[e] = KeyAt(e, send_counter[e])
                       /\ recv_key[e] = KeyAt(Channel!Other[e], recv_counter[e])
        /\ ~alive[e] => send_key[e] = Channel!Zero /\ recv_key[e] = Channel!Zero
        /\ \A i \in 1..Len(sealed[e]) : sealed[e][i].key = KeyAt(e, i - 1)
    /\ \A c \in wire : \E e \in Channel!Endpoints :
           \E i \in 1..Len(sealed[e]) : c = sealed[e][i]

\* The two ends are different and send with different halves of the secret
\* (channel.rs:51-55).
LEMMA OtherFacts ==
    \A e \in Channel!Endpoints : /\ Channel!Other[e] \in Channel!Endpoints
                                 /\ Channel!Other[e] # e
                                 /\ Channel!half(e) # Channel!half(Channel!Other[e])
                                 /\ Channel!half(e) \in {"a", "b"}
  BY DEF Channel!Endpoints, Channel!Other, Channel!half

\* A half of the secret belongs to one sender only (channel.rs:51-55).
LEMMA HalfInjective ==
    \A e, f \in Channel!Endpoints : Channel!half(e) = Channel!half(f) => e = f
  BY DEF Channel!Endpoints, Channel!half

\* The channel starts with matching keys and empty histories.
LEMMA ChannelInitIInv == Channel!Init => ChannelIInv
  <1> SUFFICES ASSUME Channel!Init PROVE ChannelIInv
    OBVIOUS
  <1> USE RekeyAssumption DEF Channel!Init, Channel!new
  <1>1. Channel!TypeOK
    BY OtherFacts, SMTT(30)
       DEF Channel!TypeOK, Channel!Keys, Channel!derive_key_pair, Channel!half,
           Channel!Ciphertexts
  <1>2. Channel!InOrderExactlyOnce
    BY OtherFacts, SMTT(30) DEF Channel!InOrderExactlyOnce
  <1> QED
    BY <1>1, <1>2, OtherFacts, SMTT(30) DEF ChannelIInv, KeyAt, Channel!derive_key_pair

\* A call that returns an error changes nothing.
LEMMA ChannelStutterIInv ==
    ASSUME ChannelIInv, UNCHANGED Channel!vars
    PROVE  ChannelIInv'
  BY ZenonT(60) DEF Channel!vars, ChannelIInv, Channel!TypeOK, Channel!InOrderExactlyOnce

\* encrypt keeps the invariant (channel.rs:66-80).
LEMMA EncryptIInv ==
    ASSUME ChannelIInv, NEW e \in Channel!Endpoints, NEW m \in Messages,
           Channel!encrypt(e, m)
    PROVE  ChannelIInv'
  <1> USE RekeyAssumption
  <1>1. CASE Channel!send_exhausted(e)
    <2>1. UNCHANGED Channel!vars
      BY <1>1 DEF Channel!encrypt
    <2> QED
      BY <2>1, ChannelStutterIInv
  <1>2. CASE ~Channel!send_exhausted(e)
    <2> DEFINE c == [key |-> send_key[e], msg |-> m]
    <2>1. /\ alive[e]
          /\ wire' = wire \cup {c}
          /\ sealed' = [sealed EXCEPT ![e] = Append(@, c)]
          /\ send_key' = [send_key EXCEPT ![e] = Channel!ratchet_key(@)]
          /\ send_counter' = [send_counter EXCEPT ![e] = @ + 1]
          /\ UNCHANGED <<recv_key, recv_counter, alive, opened>>
      BY <1>2 DEF Channel!encrypt
    <2>2. send_counter[e] < REKEY_THRESHOLD /\ send_counter[e] \in Nat
      BY <1>2, SMTT(30) DEF ChannelIInv, Channel!TypeOK, Channel!send_exhausted
    <2>3. send_key[e] = KeyAt(e, send_counter[e]) /\ c \in Channel!Ciphertexts
      BY <2>1 DEF ChannelIInv, Channel!TypeOK, Channel!Ciphertexts
    <2>4. Channel!ratchet_key(send_key[e]) = KeyAt(e, send_counter[e] + 1)
      BY <2>2, <2>3, SMTT(30) DEF KeyAt, Channel!ratchet_key
    <2>5. KeyAt(e, send_counter[e] + 1) \in Channel!Keys
      BY <2>2, OtherFacts, SMTT(30) DEF KeyAt, Channel!Keys
    <2>6. /\ Len(sealed[e]) = send_counter[e]
          /\ sealed[e] \in Seq(Channel!Ciphertexts)
          /\ Len(sealed'[e]) = send_counter[e] + 1
          /\ sealed'[e][send_counter[e] + 1] = c
          /\ \A i \in 1..Len(sealed[e]) : sealed'[e][i] = sealed[e][i]
          /\ \A f \in Channel!Endpoints : f # e => sealed'[f] = sealed[f]
      BY <2>1, <2>2, <2>3, SMTT(30) DEF ChannelIInv, Channel!TypeOK
    <2>7. Channel!TypeOK'
      BY <2>1, <2>2, <2>3, <2>4, <2>5, SMTT(30) DEF ChannelIInv, Channel!TypeOK
    <2>8. Channel!InOrderExactlyOnce'
      <3> SUFFICES ASSUME NEW f \in Channel!Endpoints
                   PROVE  /\ Len(opened[f]) <= Len(sealed'[Channel!Other[f]])
                          /\ \A i \in 1..Len(opened[f]) :
                                 opened[f][i] = sealed'[Channel!Other[f]][i]
        BY <2>1 DEF Channel!InOrderExactlyOnce
      <3>1. /\ Len(opened[f]) <= Len(sealed[Channel!Other[f]])
            /\ \A i \in 1..Len(opened[f]) : opened[f][i] = sealed[Channel!Other[f]][i]
            /\ Len(opened[f]) \in Nat
            /\ Channel!Other[f] \in Channel!Endpoints
        BY OtherFacts, SMTT(30) DEF ChannelIInv, Channel!InOrderExactlyOnce, Channel!TypeOK
      <3>2. CASE Channel!Other[f] # e
        BY <2>6, <3>1, <3>2
      <3>3. CASE Channel!Other[f] = e
        <4>1. PICK k \in Nat : k = Len(sealed[e]) /\ Len(sealed'[e]) = k + 1
          BY <2>2, <2>6
        <4>2. PICK l \in Nat : l = Len(opened[f]) /\ l <= k
          BY <3>1, <3>3, <4>1
        <4>3. l <= k + 1 /\ \A i \in 1..l : i \in 1..k
          BY <4>1, <4>2, SMTT(30)
        <4> QED
          BY <2>6, <3>1, <3>3, <4>1, <4>2, <4>3
      <3> QED
        BY <3>2, <3>3
    <2>9. ASSUME NEW f \in Channel!Endpoints
          PROVE  /\ Len(sealed'[f]) = send_counter'[f]
                 /\ Len(opened'[f]) = recv_counter'[f]
                 /\ alive'[f] => /\ send_key'[f] = KeyAt(f, send_counter'[f])
                                 /\ recv_key'[f] = KeyAt(Channel!Other[f], recv_counter'[f])
                 /\ ~alive'[f] => send_key'[f] = Channel!Zero /\ recv_key'[f] = Channel!Zero
                 /\ \A i \in 1..Len(sealed'[f]) : sealed'[f][i].key = KeyAt(f, i - 1)
      <3>1. CASE f # e
        BY <2>1, <2>6, <2>9, <3>1, SMTT(30) DEF ChannelIInv, Channel!TypeOK
      <3>2. CASE f = e
        <4>1. \A i \in 1..Len(sealed'[e]) : sealed'[e][i].key = KeyAt(e, i - 1)
          <5> SUFFICES ASSUME NEW i \in 1..(send_counter[e] + 1)
                       PROVE  sealed'[e][i].key = KeyAt(e, i - 1)
            BY <2>6
          <5>1. CASE i = send_counter[e] + 1
            BY <2>2, <2>3, <2>6, <5>1, SMTT(30)
          <5>2. CASE i \in 1..send_counter[e]
            <6>1. \A j \in 1..Len(sealed[e]) : sealed[e][j].key = KeyAt(e, j - 1)
              BY DEF ChannelIInv
            <6> QED
              BY <2>6, <5>2, <6>1
          <5> QED
            BY <2>2, <5>1, <5>2, SMTT(30)
        <4> QED
          BY <2>1, <2>2, <2>4, <2>6, <3>2, <4>1, SMTT(30) DEF ChannelIInv, Channel!TypeOK
      <3> QED
        BY <3>1, <3>2
    <2>10. \A d \in wire' : \E f \in Channel!Endpoints :
              \E i \in 1..Len(sealed'[f]) : d = sealed'[f][i]
      <3> SUFFICES ASSUME NEW d \in wire'
                   PROVE  \E f \in Channel!Endpoints :
                              \E i \in 1..Len(sealed'[f]) : d = sealed'[f][i]
        OBVIOUS
      <3>1. CASE d = c
        BY <2>2, <2>6, <3>1, SMTT(30)
      <3>2. CASE d \in wire
        <4>1. PICK f \in Channel!Endpoints : \E i \in 1..Len(sealed[f]) : d = sealed[f][i]
          BY <3>2 DEF ChannelIInv
        <4>2. PICK i \in 1..Len(sealed[f]) : d = sealed[f][i]
          BY <4>1
        <4>3. i \in 1..Len(sealed'[f]) /\ sealed'[f][i] = d
          BY <2>2, <2>6, <4>2, SMTT(30)
        <4> QED
          BY <4>3
      <3> QED
        BY <2>1, <3>1, <3>2
    <2> QED
      BY <2>7, <2>8, <2>9, <2>10 DEF ChannelIInv
  <1> QED
    BY <1>1, <1>2

\* A ciphertext that opens at a live endpoint is the very next one its peer
\* made: the step of decrypt on which ordering rests.
LEMMA ChannelOpensOnlyNext ==
    ASSUME ChannelIInv, NEW e \in Channel!Endpoints, alive[e], NEW c \in wire,
           Channel!opens(e, c)
    PROVE  /\ recv_counter[e] + 1 \in 1..Len(sealed[Channel!Other[e]])
           /\ c = sealed[Channel!Other[e]][recv_counter[e] + 1]
           /\ c \in Channel!Ciphertexts
  <1>1. PICK f \in Channel!Endpoints : \E i \in 1..Len(sealed[f]) : c = sealed[f][i]
    BY DEF ChannelIInv
  <1>2. PICK i \in 1..Len(sealed[f]) : c = sealed[f][i]
    BY <1>1
  <1>3. c.key = KeyAt(f, i - 1)
    BY <1>2 DEF ChannelIInv
  <1>4. c.key = KeyAt(Channel!Other[e], recv_counter[e])
    BY DEF ChannelIInv, Channel!opens
  <1>5. Channel!half(f) = Channel!half(Channel!Other[e]) /\ i - 1 = recv_counter[e]
    BY <1>3, <1>4, SMTT(30) DEF KeyAt
  <1>6. f = Channel!Other[e]
    BY <1>5, HalfInjective, OtherFacts
  <1>7. Len(sealed[f]) \in Nat /\ c \in Channel!Ciphertexts
    BY SMTT(30) DEF ChannelIInv, Channel!TypeOK
  <1> QED
    BY <1>2, <1>5, <1>6, <1>7, SMTT(30)

\* decrypt keeps the invariant: what it opens is the peer's next message
\* (channel.rs:83-97).
LEMMA DecryptIInv ==
    ASSUME ChannelIInv, NEW e \in Channel!Endpoints, NEW c \in wire, Channel!decrypt(e, c)
    PROVE  ChannelIInv'
  <1> USE RekeyAssumption
  <1>1. CASE Channel!recv_exhausted(e) \/ ~Channel!opens(e, c)
    <2>1. UNCHANGED Channel!vars
      BY <1>1 DEF Channel!decrypt
    <2> QED
      BY <2>1, ChannelStutterIInv
  <1>2. CASE ~(Channel!recv_exhausted(e) \/ ~Channel!opens(e, c))
    <2>1. /\ alive[e]
          /\ opened' = [opened EXCEPT ![e] = Append(@, c)]
          /\ recv_key' = [recv_key EXCEPT ![e] = Channel!ratchet_key(@)]
          /\ recv_counter' = [recv_counter EXCEPT ![e] = @ + 1]
          /\ UNCHANGED <<send_key, send_counter, alive, wire, sealed>>
      BY <1>2 DEF Channel!decrypt
    <2>2. /\ recv_counter[e] < REKEY_THRESHOLD
          /\ recv_counter[e] \in Nat
          /\ Channel!opens(e, c)
      BY <1>2, SMTT(30) DEF ChannelIInv, Channel!TypeOK, Channel!recv_exhausted
    <2>3. /\ recv_counter[e] + 1 \in 1..Len(sealed[Channel!Other[e]])
          /\ c = sealed[Channel!Other[e]][recv_counter[e] + 1]
          /\ c \in Channel!Ciphertexts
      BY <2>1, <2>2, ChannelOpensOnlyNext
    <2>4. recv_key[e] = KeyAt(Channel!Other[e], recv_counter[e])
      BY <2>1 DEF ChannelIInv
    <2>5. Channel!ratchet_key(recv_key[e]) = KeyAt(Channel!Other[e], recv_counter[e] + 1)
      BY <2>2, <2>4, SMTT(30) DEF KeyAt, Channel!ratchet_key
    <2>6. KeyAt(Channel!Other[e], recv_counter[e] + 1) \in Channel!Keys
      BY <2>2, OtherFacts, SMTT(30) DEF KeyAt, Channel!Keys
    <2>7. /\ Len(opened[e]) = recv_counter[e]
          /\ opened[e] \in Seq(Channel!Ciphertexts)
          /\ Len(opened'[e]) = recv_counter[e] + 1
          /\ opened'[e][recv_counter[e] + 1] = c
          /\ \A i \in 1..recv_counter[e] : opened'[e][i] = opened[e][i]
          /\ \A f \in Channel!Endpoints : f # e => opened'[f] = opened[f]
      <3>1. /\ Len(opened[e]) = recv_counter[e]
            /\ opened \in [Channel!Endpoints -> Seq(Channel!Ciphertexts)]
        BY DEF ChannelIInv, Channel!TypeOK
      <3>2. opened'[e] = Append(opened[e], c)
        BY <2>1, <3>1
      <3>3. \A f \in Channel!Endpoints : f # e => opened'[f] = opened[f]
        BY <2>1, <3>1
      <3> QED
        BY <2>2, <2>3, <3>1, <3>2, <3>3, SMTT(30)
    <2>8. Channel!TypeOK'
      <3> USE DEF ChannelIInv, Channel!TypeOK
      <3>1. opened' \in [Channel!Endpoints -> Seq(Channel!Ciphertexts)]
        BY <2>1, <2>3, SMTT(30)
      <3>2. recv_counter' \in [Channel!Endpoints -> 0..REKEY_THRESHOLD]
        BY <2>1, <2>2, SMTT(30)
      <3>3. recv_key' \in [Channel!Endpoints -> Channel!Keys]
        BY <2>1, <2>5, <2>6, SMTT(30)
      <3> QED
        BY <2>1, <3>1, <3>2, <3>3
    <2>9. Channel!InOrderExactlyOnce'
      <3> SUFFICES ASSUME NEW f \in Channel!Endpoints
                   PROVE  /\ Len(opened'[f]) <= Len(sealed[Channel!Other[f]])
                          /\ \A i \in 1..Len(opened'[f]) :
                                 opened'[f][i] = sealed[Channel!Other[f]][i]
        BY <2>1, SMTT(30) DEF Channel!InOrderExactlyOnce
      <3>1. /\ Len(opened[f]) <= Len(sealed[Channel!Other[f]])
            /\ \A i \in 1..Len(opened[f]) : opened[f][i] = sealed[Channel!Other[f]][i]
        BY DEF ChannelIInv, Channel!InOrderExactlyOnce
      <3>2. CASE f # e
        BY <2>7, <3>1, <3>2
      <3>3. CASE f = e
        <4>1. Len(opened'[e]) <= Len(sealed[Channel!Other[e]])
          BY <2>3, <2>7, SMTT(30)
        <4>2. ASSUME NEW i \in 1..(recv_counter[e] + 1)
              PROVE  opened'[e][i] = sealed[Channel!Other[e]][i]
          <5>1. CASE i = recv_counter[e] + 1
            BY <2>3, <2>7, <5>1
          <5>2. CASE i \in 1..recv_counter[e]
            BY <2>7, <3>1, <3>3, <5>2
          <5> QED
            BY <2>2, <5>1, <5>2, SMTT(30)
        <4> QED
          BY <2>7, <3>3, <4>1, <4>2
      <3> QED
        BY <3>2, <3>3
    <2>10. ASSUME NEW f \in Channel!Endpoints
           PROVE  /\ Len(sealed'[f]) = send_counter'[f]
                  /\ Len(opened'[f]) = recv_counter'[f]
                  /\ alive'[f] => /\ send_key'[f] = KeyAt(f, send_counter'[f])
                                  /\ recv_key'[f] = KeyAt(Channel!Other[f], recv_counter'[f])
                  /\ ~alive'[f] => send_key'[f] = Channel!Zero /\ recv_key'[f] = Channel!Zero
                  /\ \A i \in 1..Len(sealed'[f]) : sealed'[f][i].key = KeyAt(f, i - 1)
      <3>1. /\ Len(sealed[f]) = send_counter[f]
            /\ Len(opened[f]) = recv_counter[f]
            /\ alive[f] => /\ send_key[f] = KeyAt(f, send_counter[f])
                           /\ recv_key[f] = KeyAt(Channel!Other[f], recv_counter[f])
            /\ ~alive[f] => send_key[f] = Channel!Zero /\ recv_key[f] = Channel!Zero
            /\ \A i \in 1..Len(sealed[f]) : sealed[f][i].key = KeyAt(f, i - 1)
        BY DEF ChannelIInv
      <3>2. /\ DOMAIN recv_key = Channel!Endpoints
            /\ DOMAIN recv_counter = Channel!Endpoints
        BY DEF ChannelIInv, Channel!TypeOK
      <3>3. CASE f # e
        <4>1. /\ recv_key'[f] = recv_key[f]
              /\ recv_counter'[f] = recv_counter[f]
              /\ opened'[f] = opened[f]
          BY <2>1, <2>7, <3>2, <3>3
        <4> QED
          BY <2>1, <3>1, <4>1
      <3>4. CASE f = e
        <4>1. /\ recv_key'[f] = KeyAt(Channel!Other[f], recv_counter[f] + 1)
              /\ recv_counter'[f] = recv_counter[f] + 1
              /\ Len(opened'[f]) = recv_counter[f] + 1
          BY <2>1, <2>5, <2>7, <3>2, <3>4
        <4> QED
          BY <2>1, <3>1, <3>4, <4>1
      <3> QED
        BY <3>3, <3>4
    <2>11. \A d \in wire' : \E f \in Channel!Endpoints :
              \E i \in 1..Len(sealed'[f]) : d = sealed'[f][i]
      BY <2>1, SMTT(30) DEF ChannelIInv
    <2> QED
      BY <2>8, <2>9, <2>10, <2>11 DEF ChannelIInv
  <1> QED
    BY <1>1, <1>2

\* Zeroing the keys keeps the invariant (channel.rs:115-120).
LEMMA DropIInv ==
    ASSUME ChannelIInv, NEW e \in Channel!Endpoints, Channel!drop(e)
    PROVE  ChannelIInv'
  <1> USE RekeyAssumption DEF Channel!drop
  <1>1. Channel!TypeOK'
    BY SMTT(30) DEF ChannelIInv, Channel!TypeOK, Channel!Keys, Channel!Zero
  <1>2. Channel!InOrderExactlyOnce'
    BY DEF ChannelIInv, Channel!InOrderExactlyOnce
  <1>3. \A f \in Channel!Endpoints :
          /\ alive'[f] => f # e /\ alive[f] /\ send_key'[f] = send_key[f]
                                /\ recv_key'[f] = recv_key[f]
          /\ ~alive'[f] => send_key'[f] = Channel!Zero /\ recv_key'[f] = Channel!Zero
    BY DEF ChannelIInv, Channel!TypeOK
  <1> QED
    BY <1>1, <1>2, <1>3, SMTT(30) DEF ChannelIInv

\* The loss of a ciphertext keeps the invariant.
LEMMA LoseIInv ==
    ASSUME ChannelIInv, NEW c \in wire, Channel!Lose(c)
    PROVE  ChannelIInv'
  <1>1. UNCHANGED Channel!chanVars /\ UNCHANGED <<sealed, opened>> /\ wire' \subseteq wire
    BY DEF Channel!Lose, Channel!chanVars
  <1> USE <1>1 DEF Channel!chanVars
  <1>2. Channel!TypeOK'
    BY DEF ChannelIInv, Channel!TypeOK
  <1>3. Channel!InOrderExactlyOnce'
    BY DEF ChannelIInv, Channel!InOrderExactlyOnce
  <1> QED
    BY <1>2, <1>3 DEF ChannelIInv

\* Every reachable state satisfies the inductive invariant.
THEOREM ChannelInvariance == Channel!Spec => []ChannelIInv
  <1>1. ChannelIInv /\ [Channel!Next]_Channel!vars => ChannelIInv'
    <2> SUFFICES ASSUME ChannelIInv, [Channel!Next]_Channel!vars PROVE ChannelIInv'
      OBVIOUS
    <2>1. CASE \E e \in Channel!Endpoints, m \in Messages : Channel!encrypt(e, m)
      BY <2>1, EncryptIInv
    <2>2. CASE \E e \in Channel!Endpoints, c \in wire : Channel!decrypt(e, c)
      BY <2>2, DecryptIInv
    <2>3. CASE \E e \in Channel!Endpoints : Channel!drop(e)
      BY <2>3, DropIInv
    <2>4. CASE \E c \in wire : Channel!Lose(c)
      BY <2>4, LoseIInv
    <2>5. CASE UNCHANGED Channel!vars
      BY <2>5, ChannelStutterIInv
    <2> QED
      BY <2>1, <2>2, <2>3, <2>4, <2>5 DEF Channel!Next
  <1> QED
    BY <1>1, ChannelInitIInv, PTL DEF Channel!Spec

\* decrypt only ever returns the peer's messages, in the order of the peer's
\* encrypt calls and each exactly once (channel.rs:83-97).
THEOREM ReceivedInOrder == Channel!Spec => []Channel!InOrderExactlyOnce
  <1>1. ChannelIInv => Channel!InOrderExactlyOnce
    BY DEF ChannelIInv
  <1> QED
    BY <1>1, ChannelInvariance, PTL

\* Keys are told apart by their sender and their position.
LEMMA ChannelKeyUsedOnce == ChannelIInv => Channel!KeyUsedOnce
  <1> SUFFICES ASSUME ChannelIInv, NEW e \in Channel!Endpoints, NEW f \in Channel!Endpoints,
                      NEW i \in 1..Len(sealed[e])
               PROVE  /\ \A j \in 1..Len(sealed[f]) :
                             sealed[e][i].key = sealed[f][j].key => e = f /\ i = j
                      /\ sealed[e][i].key # send_key[f]
    BY DEF Channel!KeyUsedOnce
  <1>1. sealed[e][i].key = KeyAt(e, i - 1)
    BY DEF ChannelIInv
  <1>2. ASSUME NEW j \in 1..Len(sealed[f]), sealed[e][i].key = sealed[f][j].key
        PROVE  e = f /\ i = j
    <2>1. KeyAt(e, i - 1) = KeyAt(f, j - 1)
      BY <1>1, <1>2 DEF ChannelIInv
    <2> QED
      BY <2>1, HalfInjective, SMTT(30) DEF KeyAt
  <1>3. CASE alive[f]
    <2>1. send_key[f] = KeyAt(f, Len(sealed[f]))
      BY <1>3 DEF ChannelIInv
    <2>2. Len(sealed[e]) \in Nat
      BY SMTT(30) DEF ChannelIInv, Channel!TypeOK
    <2>3. KeyAt(e, i - 1) # KeyAt(f, Len(sealed[f]))
      BY <2>2, HalfInjective, SMTT(30) DEF KeyAt
    <2> QED
      BY <1>1, <1>2, <2>1, <2>3
  <1>4. CASE ~alive[f]
    <2>1. send_key[f] = Channel!Zero
      BY <1>4 DEF ChannelIInv
    <2> QED
      BY <1>1, <1>2, <2>1, OtherFacts, SMTT(30) DEF KeyAt, Channel!Zero
  <1> QED
    BY <1>3, <1>4

\* No key encrypts two messages and the next key is always fresh
\* (channel.rs:73-77).
THEOREM KeysAreFresh == Channel!Spec => []KeyUsedOnce
  BY ChannelInvariance, ChannelKeyUsedOnce, PTL DEF KeyUsedOnce

\* Counters are the lengths of the histories, and a receiver is never ahead.
LEMMA CounterFacts ==
    ASSUME ChannelIInv, NEW e \in Channel!Endpoints
    PROVE  /\ Channel!Other[e] \in Channel!Endpoints
           /\ Len(opened[e]) = recv_counter[e]
           /\ Len(sealed[Channel!Other[e]]) = send_counter[Channel!Other[e]]
           /\ recv_counter[e] \in Nat /\ send_counter[Channel!Other[e]] \in Nat
           /\ recv_counter[e] <= send_counter[Channel!Other[e]]
  <1>1. Channel!Other[e] \in Channel!Endpoints
    BY OtherFacts
  <1>2. recv_counter[e] \in Nat /\ send_counter[Channel!Other[e]] \in Nat
    BY <1>1, RekeyAssumption, SMTT(30) DEF ChannelIInv, Channel!TypeOK
  <1>3. Len(opened[e]) <= Len(sealed[Channel!Other[e]])
    BY DEF ChannelIInv, Channel!InOrderExactlyOnce
  <1>4. /\ Len(opened[e]) = recv_counter[e]
        /\ Len(sealed[Channel!Other[e]]) = send_counter[Channel!Other[e]]
    BY <1>1 DEF ChannelIInv
  <1> QED
    BY <1>1, <1>2, <1>3, <1>4

\* The keys still held are later ones than those of received messages.
LEMMA ChannelForwardSecrecy == ChannelIInv => Channel!ForwardSecrecy
  <1> SUFFICES ASSUME ChannelIInv, NEW e \in Channel!Endpoints, NEW f \in Channel!Endpoints,
                      NEW i \in 1..Len(opened[e])
               PROVE  /\ ~Channel!Derives(send_key[f], opened[e][i].key)
                      /\ ~Channel!Derives(recv_key[f], opened[e][i].key)
    BY DEF Channel!ForwardSecrecy
  <1>1. /\ Channel!Other[e] \in Channel!Endpoints
        /\ Len(opened[e]) = recv_counter[e]
        /\ Len(sealed[Channel!Other[e]]) = send_counter[Channel!Other[e]]
        /\ recv_counter[e] \in Nat /\ send_counter[Channel!Other[e]] \in Nat
        /\ recv_counter[e] <= send_counter[Channel!Other[e]]
    BY CounterFacts
  <1>2. i \in 1..Len(sealed[Channel!Other[e]]) /\ opened[e][i] = sealed[Channel!Other[e]][i]
    BY <1>1, SMTT(30) DEF ChannelIInv, Channel!InOrderExactlyOnce
  <1>3. opened[e][i].key = KeyAt(Channel!Other[e], i - 1)
    BY <1>1, <1>2, SMTT(30) DEF ChannelIInv
  <1>4. CASE ~alive[f]
    <2>1. send_key[f] = Channel!Zero /\ recv_key[f] = Channel!Zero
      BY <1>4 DEF ChannelIInv
    <2> QED
      BY <1>1, <1>3, <2>1, OtherFacts, SMTT(30) DEF Channel!Derives, KeyAt, Channel!Zero
  <1>5. CASE alive[f]
    <2>1. /\ send_key[f] = KeyAt(f, send_counter[f])
          /\ recv_key[f] = KeyAt(Channel!Other[f], recv_counter[f])
      BY <1>5 DEF ChannelIInv
    <2>2. ~Channel!Derives(send_key[f], opened[e][i].key)
      <3>1. Channel!half(f) = Channel!half(Channel!Other[e]) => f = Channel!Other[e]
        BY <1>1, HalfInjective
      <3> QED
        BY <1>1, <1>3, <2>1, <3>1, SMTT(30) DEF Channel!Derives, KeyAt
    <2>3. ~Channel!Derives(recv_key[f], opened[e][i].key)
      <3>1. Channel!half(Channel!Other[f]) = Channel!half(Channel!Other[e]) => f = e
        BY OtherFacts, HalfInjective DEF Channel!Endpoints, Channel!Other
      <3> QED
        BY <1>1, <1>3, <2>1, <3>1, SMTT(30) DEF Channel!Derives, KeyAt
    <2> QED
      BY <2>2, <2>3
  <1> QED
    BY <1>4, <1>5

\* Keys that are still held never lead back to a received message
\* (channel.rs:23-25).
THEOREM ForwardSecrecyHolds == Channel!Spec => []ForwardSecrecy
  BY ChannelInvariance, ChannelForwardSecrecy, PTL DEF ForwardSecrecy

\* The two message limits agree (channel.rs:67, 84 and 110).
THEOREM LimitsAgreeHolds == Channel!Spec => []LimitsAgree
  <1>1. ChannelIInv => LimitsAgree
    <2> SUFFICES ASSUME ChannelIInv, NEW e \in Channel!Endpoints
                 PROVE  /\ \A c \in wire : alive[e] /\ Channel!opens(e, c) =>
                               ~Channel!recv_exhausted(e)
                        /\ Channel!messages_remaining(e) > 0 =>
                               ~Channel!send_exhausted(e) /\ ~Channel!recv_exhausted(e)
      BY DEF LimitsAgree, Channel!LimitsAgree
    <2>1. /\ send_counter[e] \in 0..REKEY_THRESHOLD
          /\ recv_counter[e] \in 0..REKEY_THRESHOLD
          /\ Len(sealed[Channel!Other[e]]) \in 0..REKEY_THRESHOLD
      BY OtherFacts, SMTT(30) DEF ChannelIInv, Channel!TypeOK
    <2>2. ASSUME NEW c \in wire, alive[e], Channel!opens(e, c)
          PROVE  ~Channel!recv_exhausted(e)
      <3>1. recv_counter[e] + 1 \in 1..Len(sealed[Channel!Other[e]])
        BY <2>2, ChannelOpensOnlyNext
      <3> QED
        BY <2>1, <3>1, RekeyAssumption, SMTT(30) DEF Channel!recv_exhausted
    <2>3. Channel!messages_remaining(e) > 0 =>
              ~Channel!send_exhausted(e) /\ ~Channel!recv_exhausted(e)
      BY <2>1, RekeyAssumption, SMTT(30)
         DEF Channel!messages_remaining, Channel!send_exhausted, Channel!recv_exhausted
    <2> QED
      BY <2>2, <2>3
  <1> QED
    BY <1>1, ChannelInvariance, PTL

\* An encryption is a Send of the abstract channel, an accepted decryption a
\* Deliver, everything else a stutter.
THEOREM ChannelIsFifoHolds == Channel!Spec => ChannelIsFifo
  <1>1. Channel!Init => Channel!Fifo!Init
    BY DEF Channel!Init, Channel!Fifo!Init
  <1>2. ChannelIInv /\ [Channel!Next]_Channel!vars => [Channel!Fifo!Next]_(Channel!Fifo!vars)
    <2> SUFFICES ASSUME ChannelIInv, [Channel!Next]_Channel!vars
                 PROVE  [Channel!Fifo!Next]_(Channel!Fifo!vars)
      OBVIOUS
    <2>1. ASSUME NEW e \in Channel!Endpoints, NEW m \in Messages, Channel!encrypt(e, m)
          PROVE  [Channel!Fifo!Next]_(Channel!Fifo!vars)
      <3>1. CASE Channel!send_exhausted(e)
        BY <2>1, <3>1 DEF Channel!encrypt, Channel!vars, Channel!Fifo!vars
      <3>2. CASE ~Channel!send_exhausted(e)
        <4> DEFINE c == [key |-> send_key[e], msg |-> m]
        <4>1. sealed' = [sealed EXCEPT ![e] = Append(@, c)] /\ UNCHANGED opened
          BY <2>1, <3>2 DEF Channel!encrypt
        <4>2. c \in Channel!Ciphertexts
          BY DEF ChannelIInv, Channel!TypeOK, Channel!Ciphertexts
        <4>3. /\ Len(sealed'[e]) = Len(sealed[e]) + 1
              /\ sealed'[e][Len(sealed[e]) + 1] = c
          BY <4>1, <4>2, SMTT(30) DEF ChannelIInv, Channel!TypeOK
        <4>4. Channel!Fifo!Send(e)
          BY <4>1, <4>3 DEF Channel!Fifo!Send
        <4> QED
          BY <4>4 DEF Channel!Fifo!Next
      <3> QED
        BY <3>1, <3>2
    <2>2. ASSUME NEW e \in Channel!Endpoints, NEW c \in wire, Channel!decrypt(e, c)
          PROVE  [Channel!Fifo!Next]_(Channel!Fifo!vars)
      <3>1. CASE Channel!recv_exhausted(e) \/ ~Channel!opens(e, c)
        BY <2>2, <3>1 DEF Channel!decrypt, Channel!vars, Channel!Fifo!vars
      <3>2. CASE ~(Channel!recv_exhausted(e) \/ ~Channel!opens(e, c))
        <4>1. /\ alive[e]
              /\ opened' = [opened EXCEPT ![e] = Append(@, c)]
              /\ UNCHANGED sealed
          BY <2>2, <3>2 DEF Channel!decrypt
        <4>2. /\ recv_counter[e] + 1 \in 1..Len(sealed[Channel!Other[e]])
              /\ c = sealed[Channel!Other[e]][recv_counter[e] + 1]
          BY <3>2, <4>1, ChannelOpensOnlyNext
        <4>3. Len(opened[e]) = recv_counter[e] /\ recv_counter[e] \in Nat
          BY SMTT(30) DEF ChannelIInv, Channel!TypeOK
        <4>4. Channel!Fifo!Deliver(e)
          BY <4>1, <4>2, <4>3, SMTT(30) DEF Channel!Fifo!Deliver
        <4> QED
          BY <4>4 DEF Channel!Fifo!Next
      <3> QED
        BY <3>1, <3>2
    <2>3. CASE \E e \in Channel!Endpoints : Channel!drop(e)
      BY <2>3 DEF Channel!drop, Channel!Fifo!vars
    <2>4. CASE \E c \in wire : Channel!Lose(c)
      BY <2>4 DEF Channel!Lose, Channel!Fifo!vars
    <2>5. CASE UNCHANGED Channel!vars
      BY <2>5 DEF Channel!vars, Channel!Fifo!vars
    <2> QED
      BY <2>1, <2>2, <2>3, <2>4, <2>5 DEF Channel!Next
  <1> QED
    BY <1>1, <1>2, ChannelInvariance, PTL
       DEF Channel!Spec, ChannelIsFifo, Channel!ImplementsFifo, Channel!Fifo!Spec

\* What LossIsFinal demands of a step.
LossStep ==
    \A e \in Channel!Endpoints : Channel!Stalled(e) =>
        /\ opened'[e] = opened[e]
        /\ alive'[e] => Channel!Stalled(e)'

\* Sending more does not bring a lost message back (channel.rs:66-80).
LEMMA EncryptKeepsStalled ==
    ASSUME ChannelIInv, NEW e \in Channel!Endpoints, Channel!Stalled(e), alive'[e],
           NEW f \in Channel!Endpoints, NEW m \in Messages, Channel!encrypt(f, m)
    PROVE  Channel!Stalled(e)'
  <1>1. CASE Channel!send_exhausted(f)
    BY <1>1 DEF Channel!encrypt, Channel!vars, Channel!Stalled, Channel!opens
  <1>2. CASE ~Channel!send_exhausted(f)
    <2> DEFINE c == [key |-> send_key[f], msg |-> m]
    <2>1. /\ alive[f]
          /\ wire' = wire \cup {c}
          /\ sealed' = [sealed EXCEPT ![f] = Append(@, c)]
          /\ UNCHANGED <<recv_key, recv_counter, alive>>
      BY <1>2 DEF Channel!encrypt
    <2>2. /\ Channel!Other[e] \in Channel!Endpoints
          /\ recv_counter[e] \in Nat
          /\ recv_counter[e] < send_counter[Channel!Other[e]]
          /\ Len(sealed[Channel!Other[e]]) = send_counter[Channel!Other[e]]
          /\ recv_counter[e] < Len(sealed[Channel!Other[e]])
          /\ sealed \in [Channel!Endpoints -> Seq(Channel!Ciphertexts)]
          /\ Len(sealed[Channel!Other[e]]) \in Nat
      BY CounterFacts DEF ChannelIInv, Channel!TypeOK, Channel!Stalled
    <2>3. recv_counter'[e] < Len(sealed'[Channel!Other[e]])
      <3>1. CASE f = Channel!Other[e]
        <4>1. c \in Channel!Ciphertexts
          BY DEF ChannelIInv, Channel!TypeOK, Channel!Ciphertexts
        <4>2. sealed'[Channel!Other[e]] = Append(sealed[Channel!Other[e]], c)
          BY <2>1, <2>2, <3>1
        <4>3. Len(sealed'[Channel!Other[e]]) = Len(sealed[Channel!Other[e]]) + 1
          BY <2>2, <4>1, <4>2, SMTT(30)
        <4> QED
          BY <2>1, <2>2, <4>3, SMTT(30)
      <3>2. CASE f # Channel!Other[e]
        BY <2>1, <2>2, <3>2
      <3> QED
        BY <3>1, <3>2
    <2>4. ~Channel!opens(e, c)
      <3>1. /\ recv_key[e] = KeyAt(Channel!Other[e], recv_counter[e])
            /\ send_key[f] = KeyAt(f, send_counter[f])
        BY <2>1 DEF ChannelIInv, Channel!Stalled
      <3> QED
        BY <2>2, <3>1, HalfInjective, SMTT(30) DEF Channel!opens, KeyAt
    <2>5. \A d \in wire' : ~Channel!opens(e, d)'
      BY <2>1, <2>4 DEF Channel!Stalled, Channel!opens
    <2> QED
      BY <2>3, <2>5 DEF Channel!Stalled
  <1> QED
    BY <1>1, <1>2

\* Once the ciphertext an endpoint needs next is lost, nothing is ever
\* delivered to it again (channel.rs:90-94).
THEOREM LossIsFinalHolds == Channel!Spec => LossIsFinal
  <1>1. ChannelIInv /\ [Channel!Next]_Channel!vars => [LossStep]_Channel!vars
    <2> SUFFICES ASSUME ChannelIInv, Channel!Next,
                        NEW e \in Channel!Endpoints, Channel!Stalled(e)
                 PROVE  opened'[e] = opened[e] /\ (alive'[e] => Channel!Stalled(e)')
      BY DEF LossStep
    <2>1. CASE \E f \in Channel!Endpoints, m \in Messages : Channel!encrypt(f, m)
      <3>1. PICK f \in Channel!Endpoints, m \in Messages : Channel!encrypt(f, m)
        BY <2>1
      <3>2. UNCHANGED opened
        BY <3>1 DEF Channel!encrypt, Channel!vars
      <3> QED
        BY <3>1, <3>2, EncryptKeepsStalled
    <2>2. CASE \E f \in Channel!Endpoints, c \in wire : Channel!decrypt(f, c)
      <3>1. PICK f \in Channel!Endpoints, c \in wire : Channel!decrypt(f, c)
        BY <2>2
      <3>2. f = e => UNCHANGED Channel!vars
        BY <3>1 DEF Channel!decrypt, Channel!Stalled
      <3>3. f # e => /\ opened'[e] = opened[e]
                     /\ recv_key'[e] = recv_key[e]
                     /\ recv_counter'[e] = recv_counter[e]
        BY <3>1 DEF Channel!decrypt, Channel!vars, ChannelIInv, Channel!TypeOK
      <3>4. UNCHANGED <<alive, wire, sealed>>
        BY <3>1 DEF Channel!decrypt, Channel!vars
      <3> QED
        BY <3>2, <3>3, <3>4 DEF Channel!Stalled, Channel!opens, Channel!vars
    <2>3. CASE \E f \in Channel!Endpoints : Channel!drop(f)
      <3>1. PICK f \in Channel!Endpoints : Channel!drop(f)
        BY <2>3
      <3>2. UNCHANGED <<recv_counter, wire, sealed, opened>>
        BY <3>1 DEF Channel!drop
      <3>3. alive'[e] => alive[e] /\ recv_key'[e] = recv_key[e]
        BY <3>1 DEF Channel!drop, ChannelIInv, Channel!TypeOK
      <3> QED
        BY <3>2, <3>3 DEF Channel!Stalled, Channel!opens
    <2>4. CASE \E c \in wire : Channel!Lose(c)
      BY <2>4 DEF Channel!Lose, Channel!chanVars, Channel!Stalled, Channel!opens
    <2> QED
      BY <2>1, <2>2, <2>3, <2>4 DEF Channel!Next
  <1>2. LossIsFinal <=> [][LossStep]_Channel!vars
    BY DEF LossIsFinal, Channel!LossIsFinal, LossStep
  <1> QED
    BY <1>1, <1>2, ChannelInvariance, PTL DEF Channel!Spec
=============================================================================
