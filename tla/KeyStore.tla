------------------------------ MODULE KeyStore ------------------------------
(***************************************************************************)
(* FileKeyStore (crates/omnimesh-identity/src/keystore.rs) as the commands *)
(* of crates/omnimesh-node/src/main.rs use it: processes that store or     *)
(* delete the identity, each at the granularity of its file system calls,  *)
(* and that may be killed between any two of them.  Loading changes        *)
(* nothing.                                                                *)
(*                                                                         *)
(* A file is an inode with its content: the identity it holds encrypted,   *)
(* or "empty", "zeros" or "garbage".  The record's encryption is left out: *)
(* every command uses the same passphrase.                                 *)
(***************************************************************************)
EXTENDS Naturals, FiniteSets

CONSTANTS Procs, Keys, Inodes

ASSUME KeyStoreAssumption ==
    /\ IsFiniteSet(Procs) /\ IsFiniteSet(Inodes)
    /\ Cardinality(Inodes) > Cardinality(Procs) + 1
    /\ Keys \cap {"empty", "zeros", "garbage", "none"} = {}
    /\ "none" \notin Inodes

VARIABLES file, tmp,   \* the directory entries of the key file and its .tmp
          data,        \* content of each inode
          pc,          \* what each process is doing
          stored,      \* history: the identity whose store returned last
          overlapped   \* history: two commands have changed files at once

vars == <<file, tmp, data, pc, stored, overlapped>>

None == "none"
Idle == [at |-> "idle"]

Init ==
    /\ file = None /\ tmp = None
    /\ data = [i \in Inodes |-> "empty"]
    /\ pc = [p \in Procs |-> Idle]
    /\ stored = None
    /\ overlapped = FALSE

exists == file # None

\* Process p starts a command that changes files.
Starts(p) == overlapped' = (overlapped \/ \E q \in Procs \ {p} : pc[q] # Idle)

-----------------------------------------------------------------------------
(* store *)

\* Plausible bug: the record is written in place.
tmp_pathSame == file

\* The entry that the record is written to.
tmp_path == tmp

\* Inodes that no entry and no open file refers to.
Free == Inodes \ ({file, tmp} \cup {pc[p].fd : p \in {q \in Procs : pc[q].at = "writing"}})

\* fs::write, first part: the temporary file is created or truncated.
write_open(p) ==
    /\ pc[p].at = "storing"
    /\ \E i \in IF tmp_path = None THEN Free ELSE {tmp_path} :
           /\ tmp' = i
           /\ data' = [data EXCEPT ![i] = "empty"]
           /\ pc' = [pc EXCEPT ![p] = [at |-> "writing", cmd |-> pc[p].cmd,
                                       key |-> pc[p].key, fd |-> i]]
    /\ UNCHANGED <<file, stored, overlapped>>

\* fs::write, second part.  On top of a record of another process, which need
\* not have the same length, it may leave a mixture.
write_all(p) ==
    /\ pc[p].at = "writing"
    /\ \E d \in {pc[p].key} \cup
                (IF data[pc[p].fd] = "empty" THEN {} ELSE {"garbage"}) :
           data' = [data EXCEPT ![pc[p].fd] = d]
    /\ pc' = [pc EXCEPT ![p] = [at |-> "renaming", cmd |-> pc[p].cmd, key |-> pc[p].key]]
    /\ UNCHANGED <<file, tmp, stored, overlapped>>

\* fs::rename.  It fails when another process has renamed the temporary file away.
rename(p) ==
    /\ pc[p].at = "renaming"
    /\ IF tmp = None
       THEN UNCHANGED <<file, tmp, stored>>
       ELSE /\ file' = tmp
            /\ tmp' = None
            /\ stored' = pc[p].key
    /\ pc' = [pc EXCEPT ![p] = Idle]
    /\ UNCHANGED <<data, overlapped>>

-----------------------------------------------------------------------------
(* The commands *)

\* Plausible bug: init does not look whether there is an identity.
cmd_initForce(p, k) ==
    /\ pc[p] = Idle
    /\ Starts(p)
    /\ pc' = [pc EXCEPT ![p] = [at |-> "storing", cmd |-> "init", key |-> k]]
    /\ UNCHANGED <<file, tmp, data, stored>>

\* cmd_init generates a key pair k and stores it; when there is an identity it
\* only says so.
cmd_init(p, k) ==
    /\ pc[p] = Idle
    /\ ~exists
    /\ Starts(p)
    /\ pc' = [pc EXCEPT ![p] = [at |-> "storing", cmd |-> "init", key |-> k]]
    /\ UNCHANGED <<file, tmp, data, stored>>

\* cmd_identity_generate stores a new key pair over any other.
cmd_identity_generate(p, k) ==
    /\ pc[p] = Idle
    /\ Starts(p)
    /\ pc' = [pc EXCEPT ![p] = [at |-> "storing", cmd |-> "generate", key |-> k]]
    /\ UNCHANGED <<file, tmp, data, stored>>

\* delete, first part: the file is overwritten with zeros; an error of that
\* write is ignored.  A file that was cut short on the way counts as zeros.
delete_overwrite(p) ==
    /\ pc[p] = Idle
    /\ exists
    /\ \E d \in {data[file], "zeros"} : data' = [data EXCEPT ![file] = d]
    /\ pc' = [pc EXCEPT ![p] = [at |-> "removing"]]
    /\ Starts(p)
    /\ UNCHANGED <<file, tmp, stored>>

\* delete, second part: remove_file, an error when it is gone already.
delete_remove(p) ==
    /\ pc[p].at = "removing"
    /\ file' = None
    /\ stored' = None
    /\ pc' = [pc EXCEPT ![p] = Idle]
    /\ UNCHANGED <<tmp, data, overlapped>>

\* The process is killed, or its next file system call fails and it gives up;
\* files stay as they are.
crash(p) ==
    /\ pc[p] # Idle
    /\ pc' = [pc EXCEPT ![p] = Idle]
    /\ UNCHANGED <<file, tmp, data, stored, overlapped>>

Step(p) ==
    \/ write_open(p)
    \/ write_all(p)
    \/ rename(p)
    \/ delete_overwrite(p)
    \/ delete_remove(p)
    \/ crash(p)

Next ==
    \E p \in Procs : \/ Step(p)
                     \/ \E k \in Keys : cmd_init(p, k) \/ cmd_identity_generate(p, k)

Spec == Init /\ [][Next]_vars

-----------------------------------------------------------------------------
\* Types of the directory, the inodes and the processes.
TypeOK ==
    /\ file \in Inodes \cup {None}
    /\ tmp \in Inodes \cup {None}
    /\ data \in [Inodes -> Keys \cup {"empty", "zeros", "garbage"}]
    /\ pc \in [Procs ->
           {Idle}
           \cup [at : {"removing"}]
           \cup [at : {"storing", "renaming"}, cmd : {"init", "generate"}, key : Keys]
           \cup [at : {"writing"}, cmd : {"init", "generate"}, key : Keys, fd : Inodes]]
    /\ stored \in Keys \cup {None}
    /\ overlapped \in BOOLEAN

\* The key file is replaced atomically, whenever a process is killed: as long as
\* no two commands overlapped, it holds the identity of the last store that
\* returned, so that is what load gets, and a half written record is never seen
\* under its name (keystore.rs:116-123).  A delete that was killed leaves zeros.
KeyFileIsLastStored == exists /\ ~overlapped => data[file] \in {stored, "zeros"}

\* init never replaces an identity that can be loaded, as long as no two
\* commands overlapped (main.rs:99-106).
InitKeepsIdentity ==
    [][~overlapped /\ exists /\ data[file] \in Keys /\ file' \notin {file, None}
           => \E p \in Procs : pc[p].at = "renaming" /\ pc[p].cmd = "generate"]_vars
=============================================================================
