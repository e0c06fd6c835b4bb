--------------------------- MODULE ConnectionPool ---------------------------
(***************************************************************************)
(* crates/omnimesh-transport/src/connection.rs, called by several tasks.   *)
(* insert() looks at the size of the DashMap and inserts afterwards: other *)
(* tasks run in between.  The other operations are one access to the map   *)
(* each.  Of ConnectionInfo the state and the two byte counters are kept.  *)
(***************************************************************************)
EXTENDS Naturals, FiniteSets

CONSTANTS Tasks, Peers,
          max_connections,
          MaxBytes            \* bound on the byte counters

States == {"Disconnected", "Connecting", "Connected", "Disconnecting"}

VARIABLES connections,   \* the map, a function on the peers that are in it
          pc,            \* the peer a task is about to insert, or "idle"
          removed        \* history: peers whose last operation was a remove

vars == <<connections, pc, removed>>

Idle == [at |-> "idle"]

Infos == [state : States, bytes_sent : 0..MaxBytes, bytes_received : 0..MaxBytes]

Init ==
    /\ connections = [p \in {} |-> Idle]
    /\ pc = [t \in Tasks |-> Idle]
    /\ removed = {}

len == Cardinality(DOMAIN connections)

-----------------------------------------------------------------------------
full == len >= max_connections

\* insert, the check: an error when the pool is full.
insert_check(t, p, s) ==
    /\ pc[t] = Idle
    /\ ~full
    /\ pc' = [pc EXCEPT ![t] = [at |-> "inserting", peer |-> p, state |-> s]]
    /\ UNCHANGED <<connections, removed>>

\* insert, the rest: an entry of the same peer is replaced.
insert(t) ==
    LET info == [state |-> pc[t].state, bytes_sent |-> 0, bytes_received |-> 0]
    IN  /\ pc[t].at = "inserting"
        /\ connections' = [p \in DOMAIN connections \cup {pc[t].peer} |->
                              IF p = pc[t].peer THEN info ELSE connections[p]]
        /\ removed' = removed \ {pc[t].peer}
        /\ pc' = [pc EXCEPT ![t] = Idle]

remove(p) ==
    /\ connections' = [q \in DOMAIN connections \ {p} |-> connections[q]]
    /\ removed' = removed \cup {p}
    /\ UNCHANGED pc

update_state(p, s) ==
    /\ connections' = IF p \in DOMAIN connections
                      THEN [connections EXCEPT ![p].state = s] ELSE connections
    /\ UNCHANGED <<pc, removed>>

\* Plausible bug: the counter is found with the map's entry API, which makes an
\* entry where there is none.
record_bytes_sentEntry(p) ==
    /\ connections' = [q \in DOMAIN connections \cup {p} |->
                          IF q \in DOMAIN connections THEN connections[q]
                          ELSE [state |-> "Connected", bytes_sent |-> 1, bytes_received |-> 0]]
    /\ UNCHANGED <<pc, removed>>

record_bytes_sent(p) ==
    /\ p \in DOMAIN connections => connections[p].bytes_sent < MaxBytes
    /\ connections' = IF p \in DOMAIN connections
                      THEN [connections EXCEPT ![p].bytes_sent = @ + 1] ELSE connections
    /\ UNCHANGED <<pc, removed>>

record_bytes_received(p) ==
    /\ p \in DOMAIN connections => connections[p].bytes_received < MaxBytes
    /\ connections' = IF p \in DOMAIN connections
                      THEN [connections EXCEPT ![p].bytes_received = @ + 1] ELSE connections
    /\ UNCHANGED <<pc, removed>>

Next ==
    \/ \E t \in Tasks : insert(t) \/ \E p \in Peers, s \in States : insert_check(t, p, s)
    \/ \E p \in Peers : \/ remove(p)
                        \/ record_bytes_sent(p)
                        \/ record_bytes_received(p)
                        \/ \E s \in States : update_state(p, s)

Spec == Init /\ [][Next]_vars

-----------------------------------------------------------------------------
\* Types of the map and of the inserts in progress.
TypeOK ==
    /\ DOMAIN connections \subseteq Peers
    /\ \A p \in DOMAIN connections : connections[p] \in Infos
    /\ pc \in [Tasks -> {Idle} \cup [at : {"inserting"}, peer : Peers, state : States]]
    /\ removed \subseteq Peers

\* The pool "limits concurrent connections" (connection.rs:3) to max_connections,
\* "Maximum number of concurrent connections" (connection.rs:37): an insert "Returns
\* an error if the pool is at capacity" (connection.rs:52).  The size that insert
\* looks at may be out of date when it inserts.
WithinLimit == len <= max_connections

\* The limit can be overrun by the inserts that passed the check together, and
\* by no more: one entry per task beyond the first (connection.rs:53-65).
OverrunBounded == len < max_connections + Cardinality(Tasks)

\* No operation but insert brings back a connection that was removed, whatever
\* counters or states are updated late (connection.rs:109-127).
RemovedStaysRemoved == removed \cap DOMAIN connections = {}
=============================================================================
