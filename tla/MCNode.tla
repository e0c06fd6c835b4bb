------------------------------- MODULE MCNode -------------------------------
(***************************************************************************)
(* Two processes and two identities; a pool for one connection that two    *)
(* tasks use.  In every behaviour one of the models moves and the others   *)
(* rest.                                                                   *)
(***************************************************************************)
EXTENDS Node, TLC

User == [key_path |-> "elsewhere", name |-> "user"]

VARIABLE part    \* the model that moves

allVars == <<vars, commandVars, poolVars, part>>

MCInit ==
    /\ part \in {"key store", "commands", "pool"}
    /\ Init
    /\ Commands!Init
    /\ Pool!Init
    /\ part # "commands" => files["config.toml"].state = "absent"

MCNext ==
    \/ part = "key store" /\ Next /\ UNCHANGED <<commandVars, poolVars, part>>
    \/ part = "commands" /\ Commands!Next /\ UNCHANGED <<vars, poolVars, part>>
    \/ part = "pool" /\ Pool!Next /\ UNCHANGED <<vars, commandVars, part>>

MCSpec == MCInit /\ [][MCNext]_allVars

\* The pool, without the others.
PoolSpec == MCInit /\ part = "pool" /\ [][MCNext]_allVars

Symmetry == Permutations(Procs) \cup Permutations(Keys) \cup Permutations(Inodes)
=============================================================================
