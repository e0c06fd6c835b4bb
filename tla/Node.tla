-------------------------------- MODULE Node --------------------------------
(***************************************************************************)
(* What the processes and the tasks of a node share: FileKeyStore at the   *)
(* level of file system calls (KeyStore); above it the commands with their *)
(* configuration (NodeCommands), for which a key file is replaced in one   *)
(* step; and the ConnectionPool that an application's tasks may share.     *)
(***************************************************************************)
EXTENDS KeyStore

CONSTANTS KeyPaths, UserConfig, Names,
          Tasks, Peers, max_connections, MaxBytes

ASSUME NodeAssumption ==
    /\ "default" \in KeyPaths
    /\ UserConfig = [key_path |-> UserConfig.key_path, name |-> UserConfig.name]
    /\ UserConfig.key_path \in KeyPaths

ASSUME PoolAssumption ==
    /\ IsFiniteSet(Tasks) /\ Tasks # {}
    /\ max_connections \in Nat
    /\ MaxBytes \in Nat

VARIABLES files, key, cmds, node, mixed,    \* NodeCommands
          connections, inserts, removed     \* ConnectionPool

Commands == INSTANCE NodeCommands WITH pc <- cmds, overlapped <- mixed

Pool == INSTANCE ConnectionPool WITH pc <- inserts

commandVars == <<files, key, cmds, node, mixed>>
poolVars == <<connections, inserts, removed>>

\* A plain run is the node that init set up (NodeCommands).
RunsAsInitialized == Commands!RunsAsInitialized

\* The pool has no more entries than it has room for (ConnectionPool).
WithinLimit == Pool!WithinLimit

\* How far inserts that pass the check together can exceed the limit
\* (ConnectionPool).
OverrunBounded == Pool!OverrunBounded

\* Only insert brings a removed connection back (ConnectionPool).
RemovedStaysRemoved == Pool!RemovedStaysRemoved
=============================================================================
