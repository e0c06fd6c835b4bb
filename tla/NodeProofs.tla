----------------------------- MODULE NodeProofs -----------------------------
(***************************************************************************)
(* The key file under crashes: proofs for any number of processes, keys    *)
(* and inodes.  The invariant follows one command through its file system  *)
(* calls: as long as no two overlapped, the temporary file is another      *)
(* inode than the key file and belongs to the command that is running.     *)
(* Then the commands with their configuration, and the connection pool.    *)
(***************************************************************************)
EXTENDS Node, FiniteSetTheorems, TLAPS

USE Zenon

\* At most one command changes files.
OneAtATime == \A p, q \in Procs : pc[p] # Idle /\ pc[q] # Idle => p = q

\* What the running command has done to the temporary file so far.
TmpIsOurs ==
    \A p \in Procs :
        /\ pc[p].at = "writing" => pc[p].fd = tmp /\ data[tmp] = "empty"
        /\ pc[p].at = "renaming" => tmp # None /\ data[tmp] = pc[p].key

\* init found no key file, and nobody has made one since.
InitFoundNone ==
    \A p \in Procs : pc[p].at \in {"storing", "writing", "renaming"}
                         => (pc[p].cmd = "init" => file = None)

IInv ==
    /\ TypeOK
    /\ file # None => file # tmp
    /\ KeyFileIsLastStored
    /\ ~overlapped => OneAtATime /\ TmpIsOurs /\ InitFoundNone

\* Nothing is stored and nothing runs at first.
LEMMA InitIInv == Init => IInv
  <1> SUFFICES ASSUME Init PROVE IInv
    OBVIOUS
  <1> USE DEF Init, Idle, None
  <1>1. TypeOK
    BY DEF TypeOK
  <1>2. KeyFileIsLastStored
    BY DEF KeyFileIsLastStored, exists
  <1>3. OneAtATime /\ TmpIsOurs /\ InitFoundNone
    BY DEF OneAtATime, TmpIsOurs, InitFoundNone
  <1> QED
    BY <1>1, <1>2, <1>3 DEF IInv

\* A process is in one of the states of a command.
LEMMA States ==
    ASSUME TypeOK, NEW p \in Procs
    PROVE  \/ pc[p] = Idle
           \/ pc[p] \in [at : {"removing"}]
           \/ pc[p] \in [at : {"storing", "renaming"}, cmd : {"init", "generate"}, key : Keys]
           \/ pc[p] \in [at : {"writing"}, cmd : {"init", "generate"}, key : Keys, fd : Inodes]
  BY DEF TypeOK

\* A running command is not idle.
LEMMA AtFacts ==
    ASSUME TypeOK, NEW p \in Procs
    PROVE  /\ pc[p] = Idle => pc[p].at = "idle"
           /\ pc[p].at = "idle" => pc[p] = Idle
           /\ pc[p].at \in {"storing", "renaming", "writing"} =>
                  pc[p].cmd \in {"init", "generate"} /\ pc[p].key \in Keys
           /\ pc[p].at = "writing" => pc[p].fd \in Inodes
  BY States, SMTT(30) DEF Idle

\* When nobody else is running, the others' program counters are Idle.
LEMMA Alone ==
    ASSUME IInv, ~overlapped, NEW p \in Procs, pc[p] # Idle,
           NEW q \in Procs, q # p
    PROVE  pc[q] = Idle /\ pc[q].at = "idle"
  BY AtFacts DEF IInv, OneAtATime

\* A process that takes a free inode or the temporary file does not get the key
\* file (keystore.rs:119-121).
LEMMA WriteOpenIInv ==
    ASSUME IInv, NEW p \in Procs, write_open(p)
    PROVE  IInv'
  <1>1. PICK i \in (IF tmp = None THEN Free ELSE {tmp}) :
            /\ tmp' = i
            /\ data' = [data EXCEPT ![i] = "empty"]
            /\ pc' = [pc EXCEPT ![p] = [at |-> "writing", cmd |-> pc[p].cmd,
                                        key |-> pc[p].key, fd |-> i]]
    BY DEF write_open, tmp_path
  <1>2. /\ pc[p].at = "storing" /\ pc[p] # Idle
        /\ pc[p].cmd \in {"init", "generate"} /\ pc[p].key \in Keys
        /\ UNCHANGED <<file, stored, overlapped>>
    BY AtFacts DEF write_open, IInv
  <1>3. i \in Inodes /\ i # None /\ (file # None => i # file)
    BY KeyStoreAssumption DEF Free, IInv, TypeOK, None
  <1>4. TypeOK'
    BY <1>1, <1>2, <1>3, SMTT(30) DEF IInv, TypeOK
  <1>5. KeyFileIsLastStored'
    BY <1>1, <1>2, <1>3 DEF IInv, TypeOK, KeyFileIsLastStored, exists
  <1>6. ASSUME ~overlapped PROVE OneAtATime' /\ TmpIsOurs' /\ InitFoundNone'
    <2>1. \A q \in Procs : q # p => pc'[q] = Idle /\ pc'[q].at = "idle"
      BY <1>1, <1>2, <1>6, Alone DEF IInv, TypeOK
    <2>2. /\ pc'[p].at = "writing" /\ pc'[p].fd = i
          /\ pc'[p].cmd = pc[p].cmd /\ data'[i] = "empty"
      BY <1>1, <1>3 DEF IInv, TypeOK
    <2>3. OneAtATime'
      BY <2>1 DEF OneAtATime
    <2>4. TmpIsOurs'
      BY <1>1, <2>1, <2>2 DEF TmpIsOurs
    <2>5. pc[p].cmd = "init" => file = None
      BY <1>2, <1>6 DEF IInv, InitFoundNone
    <2>6. InitFoundNone'
      BY <1>2, <2>1, <2>2, <2>5 DEF InitFoundNone
    <2> QED
      BY <2>3, <2>4, <2>6
  <1> QED
    BY <1>1, <1>2, <1>3, <1>4, <1>5, <1>6 DEF IInv

\* The record goes to the temporary file (keystore.rs:119-121).
LEMMA WriteAllIInv ==
    ASSUME IInv, NEW p \in Procs, write_all(p)
    PROVE  IInv'
  <1>1. PICK d \in {pc[p].key} \cup (IF data[pc[p].fd] = "empty" THEN {} ELSE {"garbage"}) :
            data' = [data EXCEPT ![pc[p].fd] = d]
    BY DEF write_all
  <1>2. /\ pc[p].at = "writing" /\ pc[p] # Idle
        /\ pc[p].cmd \in {"init", "generate"} /\ pc[p].key \in Keys /\ pc[p].fd \in Inodes
        /\ pc' = [pc EXCEPT ![p] = [at |-> "renaming", cmd |-> pc[p].cmd, key |-> pc[p].key]]
        /\ UNCHANGED <<file, tmp, stored, overlapped>>
    BY AtFacts DEF write_all, IInv
  <1>3. TypeOK'
    <2>1. d \in Keys \cup {"empty", "zeros", "garbage"}
      BY <1>1, <1>2
    <2> QED
      BY <1>1, <1>2, <2>1 DEF IInv, TypeOK
  <1>4. ASSUME ~overlapped
        PROVE  /\ pc[p].fd = tmp /\ data[tmp] = "empty" /\ tmp # None
               /\ d = pc[p].key
               /\ KeyFileIsLastStored'
               /\ OneAtATime' /\ TmpIsOurs' /\ InitFoundNone'
    <2>1. pc[p].fd = tmp /\ data[tmp] = "empty" /\ tmp # None
      BY <1>2, <1>4, KeyStoreAssumption DEF IInv, TmpIsOurs, None
    <2>2. d = pc[p].key
      BY <1>1, <2>1
    <2>3. KeyFileIsLastStored'
      BY <1>1, <1>2, <1>4, <2>1 DEF IInv, TypeOK, KeyFileIsLastStored, exists
    <2>4. \A q \in Procs : q # p => pc'[q] = Idle /\ pc'[q].at = "idle"
      BY <1>2, <1>4, Alone DEF IInv, TypeOK
    <2>5. /\ pc'[p].at = "renaming" /\ pc'[p].key = pc[p].key
          /\ pc'[p].cmd = pc[p].cmd
      BY <1>2 DEF IInv, TypeOK
    <2>6. data'[tmp] = pc[p].key
      BY <1>1, <1>2, <2>1, <2>2 DEF IInv, TypeOK
    <2>7. OneAtATime'
      BY <2>4 DEF OneAtATime
    <2>8. TmpIsOurs'
      BY <1>2, <2>1, <2>4, <2>5, <2>6 DEF TmpIsOurs
    <2>9. pc[p].cmd = "init" => file = None
      BY <1>2, <1>4 DEF IInv, InitFoundNone
    <2>10. InitFoundNone'
      BY <1>2, <2>4, <2>5, <2>9 DEF InitFoundNone
    <2> QED
      BY <2>1, <2>2, <2>3, <2>7, <2>8, <2>10
  <1>5. KeyFileIsLastStored'
    BY <1>2, <1>4 DEF KeyFileIsLastStored
  <1> QED
    BY <1>2, <1>3, <1>4, <1>5 DEF IInv

\* The temporary file becomes the key file, complete (keystore.rs:122-123).
LEMMA RenameIInv ==
    ASSUME IInv, NEW p \in Procs, rename(p)
    PROVE  IInv'
  <1>1. /\ pc[p].at = "renaming" /\ pc[p] # Idle /\ pc[p].key \in Keys
        /\ pc' = [pc EXCEPT ![p] = Idle]
        /\ UNCHANGED <<data, overlapped>>
    BY AtFacts DEF rename, IInv
  <1>2. \/ tmp = None /\ UNCHANGED <<file, tmp, stored>>
        \/ tmp # None /\ file' = tmp /\ tmp' = None /\ stored' = pc[p].key
    BY DEF rename
  <1>3. TypeOK'
    BY <1>1, <1>2 DEF IInv, TypeOK
  <1>4. file' # None => file' # tmp'
    BY <1>2 DEF IInv
  <1>5. ASSUME ~overlapped
        PROVE  KeyFileIsLastStored' /\ OneAtATime' /\ TmpIsOurs' /\ InitFoundNone'
    <2>1. tmp # None /\ data[tmp] = pc[p].key
      BY <1>1, <1>5 DEF IInv, TmpIsOurs
    <2>2. KeyFileIsLastStored'
      BY <1>1, <1>2, <2>1 DEF KeyFileIsLastStored
    <2>3. \A q \in Procs : pc'[q] = Idle /\ pc'[q].at = "idle"
      BY <1>1, <1>5, Alone DEF IInv, TypeOK, Idle
    <2> QED
      BY <2>2, <2>3 DEF OneAtATime, TmpIsOurs, InitFoundNone
  <1>6. KeyFileIsLastStored'
    BY <1>1, <1>5 DEF KeyFileIsLastStored
  <1> QED
    BY <1>1, <1>3, <1>4, <1>5, <1>6 DEF IInv

\* A command that starts alone is the only one (main.rs:98-109 and 153-154,
\* keystore.rs:176-187).
LEMMA StartsAlone ==
    ASSUME IInv, NEW p \in Procs, Starts(p), ~overlapped', NEW q \in Procs, q # p
    PROVE  ~overlapped /\ pc[q] = Idle /\ pc[q].at = "idle"
  BY AtFacts DEF Starts, IInv

\* init and generate start (main.rs:93-109 and 148-154).
LEMMA StartIInv ==
    ASSUME IInv, NEW p \in Procs, NEW k \in Keys,
           cmd_init(p, k) \/ cmd_identity_generate(p, k)
    PROVE  IInv'
  <1>1. PICK c \in {"init", "generate"} :
            /\ pc' = [pc EXCEPT ![p] = [at |-> "storing", cmd |-> c, key |-> k]]
            /\ c = "init" => file = None
    BY DEF cmd_init, cmd_identity_generate, exists
  <1>2. /\ Starts(p)
        /\ UNCHANGED <<file, tmp, data, stored>>
    BY DEF cmd_init, cmd_identity_generate
  <1>3. overlapped' \in BOOLEAN /\ (~overlapped' => ~overlapped)
    BY <1>2 DEF Starts
  <1>4. TypeOK'
    BY <1>1, <1>2, <1>3 DEF IInv, TypeOK
  <1>5. KeyFileIsLastStored'
    BY <1>2, <1>3 DEF IInv, KeyFileIsLastStored, exists
  <1>6. ASSUME ~overlapped' PROVE OneAtATime' /\ TmpIsOurs' /\ InitFoundNone'
    <2>1. \A q \in Procs : q # p => pc'[q] = Idle /\ pc'[q].at = "idle"
      BY <1>1, <1>2, <1>6, StartsAlone DEF IInv, TypeOK
    <2>2. pc'[p].at = "storing" /\ pc'[p].cmd = c
      BY <1>1 DEF IInv, TypeOK
    <2> QED
      BY <1>1, <1>2, <2>1, <2>2 DEF OneAtATime, TmpIsOurs, InitFoundNone
  <1> QED
    BY <1>2, <1>4, <1>5, <1>6 DEF IInv

\* The key file is overwritten before it is removed (keystore.rs:176-187).
LEMMA DeleteOverwriteIInv ==
    ASSUME IInv, NEW p \in Procs, delete_overwrite(p)
    PROVE  IInv'
  <1>1. PICK d \in {data[file], "zeros"} : data' = [data EXCEPT ![file] = d]
    BY DEF delete_overwrite
  <1>2. /\ file # None
        /\ pc' = [pc EXCEPT ![p] = [at |-> "removing"]]
        /\ Starts(p)
        /\ UNCHANGED <<file, tmp, stored>>
    BY DEF delete_overwrite, exists
  <1>3. overlapped' \in BOOLEAN /\ (~overlapped' => ~overlapped)
    BY <1>2 DEF Starts
  <1>4. file \in Inodes /\ data[file] \in Keys \cup {"empty", "zeros", "garbage"}
    BY <1>2 DEF IInv, TypeOK
  <1>5. TypeOK'
    BY <1>1, <1>2, <1>3, <1>4 DEF IInv, TypeOK
  <1>6. data'[file] \in {data[file], "zeros"}
    BY <1>1, <1>4 DEF IInv, TypeOK
  <1>7. KeyFileIsLastStored'
    BY <1>2, <1>3, <1>6 DEF IInv, KeyFileIsLastStored, exists
  <1>8. ASSUME ~overlapped' PROVE OneAtATime' /\ TmpIsOurs' /\ InitFoundNone'
    <2>1. \A q \in Procs : q # p => pc'[q] = Idle /\ pc'[q].at = "idle"
      BY <1>2, <1>8, StartsAlone DEF IInv, TypeOK
    <2>2. pc'[p].at = "removing"
      BY <1>2 DEF IInv, TypeOK
    <2> QED
      BY <2>1, <2>2 DEF OneAtATime, TmpIsOurs, InitFoundNone
  <1> QED
    BY <1>2, <1>5, <1>7, <1>8 DEF IInv

\* Removing the key file, or dying, leaves nothing of the command behind that
\* the next one would trust (keystore.rs:181-183).
LEMMA EndIInv ==
    ASSUME IInv, NEW p \in Procs, delete_remove(p) \/ crash(p)
    PROVE  IInv'
  <1>1. /\ pc[p] # Idle
        /\ pc' = [pc EXCEPT ![p] = Idle]
        /\ UNCHANGED <<tmp, data, overlapped>>
        /\ \/ file' = None /\ stored' = None
           \/ UNCHANGED <<file, stored>>
    BY AtFacts DEF delete_remove, crash, IInv
  <1>2. TypeOK'
    BY <1>1 DEF IInv, TypeOK
  <1>3. KeyFileIsLastStored'
    BY <1>1 DEF IInv, KeyFileIsLastStored, exists
  <1>4. ASSUME ~overlapped PROVE OneAtATime' /\ TmpIsOurs' /\ InitFoundNone'
    <2>1. \A q \in Procs : pc'[q] = Idle /\ pc'[q].at = "idle"
      BY <1>1, <1>4, Alone DEF IInv, TypeOK, Idle
    <2> QED
      BY <2>1 DEF OneAtATime, TmpIsOurs, InitFoundNone
  <1> QED
    BY <1>1, <1>2, <1>3, <1>4 DEF IInv

\* Every reachable state satisfies the inductive invariant.
THEOREM Invariance == Spec => []IInv
  <1>1. ASSUME IInv, [Next]_vars PROVE IInv'
    <2>1. CASE UNCHANGED vars
      BY <1>1, <2>1, SMTT(30) DEF vars, IInv, TypeOK, KeyFileIsLastStored, exists, OneAtATime,
                        TmpIsOurs, InitFoundNone
    <2>2. ASSUME NEW p \in Procs, Step(p) PROVE IInv'
      BY <1>1, <2>2, WriteOpenIInv, WriteAllIInv, RenameIInv, DeleteOverwriteIInv, EndIInv
         DEF Step
    <2>3. ASSUME NEW p \in Procs, NEW k \in Keys,
                 cmd_init(p, k) \/ cmd_identity_generate(p, k)
          PROVE  IInv'
      BY <1>1, <2>3, StartIInv
    <2> QED
      BY <1>1, <2>1, <2>2, <2>3 DEF Next
  <1> QED
    BY <1>1, InitIInv, PTL DEF Spec

\* The key file always holds the identity stored last, whenever processes are
\* killed, as long as commands do not overlap (keystore.rs:116-123).
THEOREM KeyFileIsSafe == Spec => []KeyFileIsLastStored
  <1>1. IInv => KeyFileIsLastStored
    BY DEF IInv
  <1> QED
    BY <1>1, Invariance, PTL

\* What InitKeepsIdentity demands of a step.
KeepStep ==
    ~overlapped /\ exists /\ data[file] \in Keys /\ file' \notin {file, None}
        => \E p \in Procs : pc[p].at = "renaming" /\ pc[p].cmd = "generate"

\* Only generate puts another identity in the place of one that can be loaded
\* (main.rs:99-106).
THEOREM InitKeepsIdentityHolds == Spec => InitKeepsIdentity
  <1>1. ASSUME IInv, [Next]_vars PROVE KeepStep
    <2> SUFFICES ASSUME ~overlapped, file # None, file' \notin {file, None}
                 PROVE  \E p \in Procs : pc[p].at = "renaming" /\ pc[p].cmd = "generate"
      BY DEF KeepStep, exists
    <2>1. PICK p \in Procs : rename(p)
      BY <1>1 DEF Next, Step, vars, write_open, write_all, delete_overwrite,
                  delete_remove, crash, cmd_init, cmd_identity_generate
    <2>2. pc[p].at = "renaming" /\ pc[p].cmd \in {"init", "generate"}
      BY <1>1, <2>1, AtFacts DEF rename, IInv
    <2>3. pc[p].cmd # "init"
      BY <1>1, <2>2 DEF IInv, InitFoundNone
    <2> QED
      BY <2>2, <2>3
  <1>2. InitKeepsIdentity <=> [][KeepStep]_vars
    BY DEF InitKeepsIdentity, KeepStep
  <1> QED
    BY <1>1, <1>2, Invariance, PTL DEF Spec

-----------------------------------------------------------------------------
(***************************************************************************)
(* NodeCommands.  While no two commands overlapped, one at most changes    *)
(* files, and the history variable node is what the disk says: config.toml *)
(* holds the node's configuration and the key file that it names the       *)
(* node's identity.  A command that read config.toml still has its content *)
(* when it reads the key file.                                             *)
(***************************************************************************)
Configs == [key_path : KeyPaths, name : Names \cup {UserConfig.name, "env"}]
SetUps == [at : {"set up"}, config : Configs, key : Keys]
Files == {Commands!Absent} \cup [state : {"whole", "torn"}, config : Configs]

Loaded == [at : {"loaded"}, cmd : {"init", "generate", "run"},
           file : {"config.toml", "user.toml"}, env : {"unset", "env"},
           config : Configs, node : SetUps \cup {Commands!None}]
Storing == [at : {"storing"}, cmd : {"init", "generate"}, config : Configs]
Writing == [at : {"opening", "writing"}, config : Configs, key : Keys]
Running == [at : {"running"}, file : {"config.toml", "user.toml"}, env : {"unset", "env"},
            config : Configs, node : SetUps \cup {Commands!None}, key : Keys]

CommandsTypeOK ==
    /\ files \in [{"config.toml", "user.toml"} -> Files]
    /\ key \in [KeyPaths -> Keys \cup {Commands!NoKey}]
    /\ cmds \in [Procs -> {Commands!Idle} \cup Loaded \cup Storing \cup Writing \cup Running]
    /\ node \in SetUps \cup {Commands!None}
    /\ mixed \in BOOLEAN

\* At most one command changes files.
OneCommand == \A p, q \in Procs : Commands!Busy(p) /\ Commands!Busy(q) => p = q

\* The disk has what init set up.
NodeIsOnDisk ==
    node # Commands!None =>
        /\ files["config.toml"] = Commands!Whole(node.config)
        /\ key[node.config.key_path] = node.key

\* init has stored the identity it is about to write a configuration for.
StoredFirst ==
    \A p \in Procs : cmds[p].at \in {"opening", "writing"} =>
                         key[cmds[p].config.key_path] = cmds[p].key

\* What a command has read is still so.
ReadsAreFresh ==
    \A p \in Procs :
        cmds[p].at = "loaded" /\ cmds[p].file = "config.toml" /\ cmds[p].node # Commands!None =>
            /\ node = cmds[p].node
            /\ cmds[p].config = Commands!apply_env_overrides(node.config, cmds[p].env)

CommandsIInv ==
    /\ CommandsTypeOK
    /\ RunsAsInitialized
    /\ ~mixed => OneCommand /\ NodeIsOnDisk /\ StoredFirst /\ ReadsAreFresh

\* Nothing is set up and nothing runs at first.
LEMMA CommandsInit == Commands!Init => CommandsIInv
  <1> SUFFICES ASSUME Commands!Init PROVE CommandsIInv
    OBVIOUS
  <1> USE DEF Commands!Init, Commands!Idle, Commands!None
  <1>conf. UserConfig \in Configs
    BY NodeAssumption DEF Configs
  <1>type. CommandsTypeOK
    <2>1. PICK f \in {Commands!Absent, Commands!Whole(UserConfig)} :
              files = [t \in {"config.toml", "user.toml"} |->
                          IF t = "config.toml" THEN f ELSE Commands!Whole(UserConfig)]
      OBVIOUS
    <2>2. f \in Files /\ Commands!Whole(UserConfig) \in Files
      BY <1>conf, SMTT(30) DEF Files, Commands!Whole, Commands!Absent
    <2> QED
      BY <2>1, <2>2 DEF CommandsTypeOK
  <1>runs. RunsAsInitialized
    BY DEF RunsAsInitialized, Commands!RunsAsInitialized
  <1>rest. OneCommand /\ NodeIsOnDisk /\ StoredFirst /\ ReadsAreFresh
    BY DEF OneCommand, Commands!Busy, NodeIsOnDisk, StoredFirst, ReadsAreFresh
  <1> QED
    BY <1>type, <1>runs, <1>rest DEF CommandsIInv

\* A command is in one of its states.
LEMMA CommandStates ==
    ASSUME CommandsTypeOK, NEW p \in Procs
    PROVE  \/ cmds[p] = Commands!Idle
           \/ cmds[p] \in Loaded
           \/ cmds[p] \in Storing
           \/ cmds[p] \in Writing
           \/ cmds[p] \in Running
  BY DEF CommandsTypeOK

\* What a command carries in each of its states.
LEMMA CommandFacts ==
    ASSUME CommandsTypeOK, NEW p \in Procs
    PROVE  /\ cmds[p] = Commands!Idle => cmds[p].at = "idle"
           /\ cmds[p].at = "loaded" => cmds[p] \in Loaded
           /\ cmds[p].at = "storing" => cmds[p] \in Storing
           /\ cmds[p].at \in {"opening", "writing"} => cmds[p] \in Writing
           /\ cmds[p].at = "running" => cmds[p] \in Running
  BY CommandStates, SMTT(30) DEF Loaded, Storing, Writing, Running, Commands!Idle

\* The environment leaves the place of the key alone.
LEMMA Override ==
    ASSUME NEW c \in Configs, NEW env \in {"unset", "env"}
    PROVE  LET d == Commands!apply_env_overrides(c, env)
           IN  /\ d \in Configs
               /\ d.key_path = c.key_path
               /\ d.name = IF env = "unset" THEN c.name ELSE env
  BY DEF Configs, Commands!apply_env_overrides

\* Config::load: a configuration, and from a whole file the one in it.
LEMMA LoadFacts ==
    ASSUME NEW f \in Files, NEW env \in {"unset", "env"}, NEW c \in Commands!load(f, env)
    PROVE  /\ c \in Configs
           /\ \A d \in Configs : f = Commands!Whole(d) => c = Commands!apply_env_overrides(d, env)
  <1>defaults. Commands!defaults \subseteq Configs
    BY NodeAssumption DEF Commands!defaults, Configs
  <1>1. CASE f = Commands!Absent
    <2>1. PICK d \in Commands!defaults : c = Commands!apply_env_overrides(d, env)
      BY <1>1 DEF Commands!load, Commands!Absent
    <2> QED
      BY <1>1, <2>1, <1>defaults, Override DEF Commands!Absent, Commands!Whole
  <1>2. CASE f \in [state : {"whole"}, config : Configs]
    <2>1. c = Commands!apply_env_overrides(f.config, env) /\ f.config \in Configs
      BY <1>2 DEF Commands!load
    <2> QED
      BY <2>1, Override, SMTT(30) DEF Commands!Whole
  <1>3. CASE f \in [state : {"torn"}, config : Configs]
    <2>1. Commands!from_part(f.config) \subseteq Configs
      <3>1. f.config \in Configs
        BY <1>3
      <3>2. ASSUME NEW d \in Commands!defaults
            PROVE  [d EXCEPT !.name = f.config.name] \in Configs
        BY <3>1, <1>defaults DEF Configs
      <3> QED
        BY <3>1, <3>2, <1>defaults DEF Commands!from_part
    <2>2. \/ c \in Commands!defaults
          \/ \E d \in Commands!from_part(f.config) : c = Commands!apply_env_overrides(d, env)
      BY <1>3 DEF Commands!load
    <2>3. c \in Configs
      BY <2>1, <2>2, <1>defaults, Override
    <2> QED
      BY <1>3, <2>3, SMTT(30) DEF Commands!Whole
  <1> QED
    BY <1>1, <1>2, <1>3 DEF Files

\* A node that runs stays the node it is.
LEMMA RunsKept ==
    ASSUME RunsAsInitialized, ~mixed' => ~mixed,
           \A q \in Procs : cmds'[q].at = "running" => cmds'[q] = cmds[q]
    PROVE  RunsAsInitialized'
  <1> SUFFICES ASSUME NEW q \in Procs, cmds'[q].at = "running", cmds'[q].file = "config.toml",
                      cmds'[q].node # Commands!None, ~mixed'
               PROVE  LET r == cmds'[q]
                      IN  /\ r.key = r.node.key
                          /\ r.config.key_path = r.node.config.key_path
                          /\ r.config.name = IF r.env = "unset" THEN r.node.config.name ELSE r.env
    BY DEF RunsAsInitialized, Commands!RunsAsInitialized, Commands!None
  <1> QED
    BY SMTT(30) DEF RunsAsInitialized, Commands!RunsAsInitialized

\* A process starts.  What it reads of a node that is set up is that node.
LEMMA CommandsMain ==
    ASSUME CommandsIInv, NEW p \in Procs, NEW cmd \in {"init", "generate", "run"},
           NEW f \in DOMAIN files, NEW env \in {"unset", "env"}, Commands!main(p, cmd, f, env)
    PROVE  CommandsIInv'
  <1>type. CommandsTypeOK
    BY DEF CommandsIInv
  <1>f. f \in {"config.toml", "user.toml"} /\ files[f] \in Files
    BY <1>type DEF CommandsTypeOK
  <1>1. PICK c \in Commands!load(files[f], env) :
            cmds' = [cmds EXCEPT ![p] = [at |-> "loaded", cmd |-> cmd, file |-> f, env |-> env,
                                         config |-> c, node |-> node]]
    BY DEF Commands!main
  <1>2. UNCHANGED <<files, key, node>> /\ cmds[p] = Commands!Idle
    BY DEF Commands!main
  <1>3. mixed' = (mixed \/ \E q \in Procs : Commands!Busy(q))
    BY DEF Commands!main
  <1>c. /\ c \in Configs
        /\ \A d \in Configs : files[f] = Commands!Whole(d)
                                  => c = Commands!apply_env_overrides(d, env)
    BY <1>f, LoadFacts
  <1> DEFINE l == [at |-> "loaded", cmd |-> cmd, file |-> f, env |-> env,
                   config |-> c, node |-> node]
  <1>l. l \in Loaded
    BY <1>f, <1>c, <1>type DEF Loaded, CommandsTypeOK
  <1>4. /\ cmds' \in [Procs -> {Commands!Idle} \cup Loaded \cup Storing \cup Writing \cup Running]
        /\ cmds'[p] = l
        /\ \A q \in Procs \ {p} : cmds'[q] = cmds[q]
    BY <1>1, <1>l, <1>type DEF CommandsTypeOK
  <1>5. CommandsTypeOK'
    BY <1>2, <1>3, <1>4, <1>type DEF CommandsTypeOK, Commands!None, Commands!NoKey, Commands!Idle
  <1>6. RunsAsInitialized'
    <2>1. ~mixed' => ~mixed
      BY <1>3
    <2>2. \A q \in Procs : cmds'[q].at = "running" => cmds'[q] = cmds[q]
      BY <1>4, SMTT(30)
    <2> QED
      BY <2>1, <2>2, RunsKept DEF CommandsIInv
  <1>7. ASSUME ~mixed'
        PROVE  OneCommand' /\ NodeIsOnDisk' /\ StoredFirst' /\ ReadsAreFresh'
    <2>1. ~mixed /\ \A q \in Procs : ~ Commands!Busy(q)
      BY <1>3, <1>7
    <2>2. NodeIsOnDisk /\ StoredFirst /\ ReadsAreFresh
      BY <2>1 DEF CommandsIInv
    <2>3. \A q \in Procs \ {p} : cmds'[q].at \in {"idle", "running"}
      BY <2>1, <1>4 DEF Commands!Busy
    <2>4. OneCommand'
      BY <2>3 DEF OneCommand, Commands!Busy
    <2>5. NodeIsOnDisk'
      BY <2>2, <1>2 DEF NodeIsOnDisk, Commands!None, Commands!Whole
    <2>6. StoredFirst'
      BY <2>3, <1>4, SMTT(30) DEF StoredFirst
    <2>7. ReadsAreFresh'
      <3>1. ASSUME f = "config.toml", node # Commands!None
            PROVE  c = Commands!apply_env_overrides(node.config, env)
        <4>1. node.config \in Configs
          BY <3>1, <1>type DEF CommandsTypeOK, SetUps
        <4> QED
          BY <3>1, <4>1, <2>2, <1>c DEF NodeIsOnDisk
      <3> QED
        BY <3>1, <2>3, <1>4, <1>2, SMTT(30)
        DEF ReadsAreFresh, Commands!None, Commands!apply_env_overrides
    <2> QED
      BY <2>4, <2>5, <2>6, <2>7
  <1> QED
    BY <1>5, <1>6, <1>7 DEF CommandsIInv

\* cmd_init finds an identity and ends, or goes on to store one; generate always
\* does.
LEMMA CommandsStoring ==
    ASSUME CommandsIInv, NEW p \in Procs,
           Commands!cmd_init(p) \/ Commands!cmd_identity_generate(p) \/ Commands!stop(p)
    PROVE  CommandsIInv'
  <1>type. CommandsTypeOK
    BY DEF CommandsIInv
  <1>1. PICK v : /\ v = Commands!Idle \/ (v \in Storing /\ Commands!Busy(p))
                 /\ cmds' = [cmds EXCEPT ![p] = v]
    <2>1. CASE Commands!cmd_init(p)
      <3>1. [at |-> "storing", cmd |-> "init", config |-> cmds[p].config] \in Storing
        BY <2>1, <1>type, CommandFacts DEF Commands!cmd_init, Loaded, Storing
      <3> QED
        BY <2>1, <3>1 DEF Commands!cmd_init, Commands!Busy
    <2>2. CASE Commands!cmd_identity_generate(p)
      <3>1. [at |-> "storing", cmd |-> "generate", config |-> cmds[p].config] \in Storing
        BY <2>2, <1>type, CommandFacts DEF Commands!cmd_identity_generate, Loaded, Storing
      <3> QED
        BY <2>2, <3>1 DEF Commands!cmd_identity_generate, Commands!Busy
    <2>3. CASE Commands!stop(p)
      BY <2>3 DEF Commands!stop
    <2> QED
      BY <2>1, <2>2, <2>3
  <1>2. UNCHANGED <<files, key, node, mixed>>
    BY DEF Commands!cmd_init, Commands!cmd_identity_generate, Commands!stop
  <1>v. v.at \in {"idle", "storing"} /\ (v.at = "storing" => Commands!Busy(p))
    BY <1>1, SMTT(30) DEF Storing, Commands!Idle
  <1>4. /\ cmds' \in [Procs -> {Commands!Idle} \cup Loaded \cup Storing \cup Writing \cup Running]
        /\ cmds'[p] = v
        /\ \A q \in Procs \ {p} : cmds'[q] = cmds[q]
    BY <1>1, <1>type DEF CommandsTypeOK
  <1>5. CommandsTypeOK'
    BY <1>2, <1>4, <1>type DEF CommandsTypeOK, Commands!None, Commands!NoKey, Commands!Idle
  <1>6. RunsAsInitialized'
    BY <1>2, <1>4, <1>v, RunsKept, SMTT(30) DEF CommandsIInv
  <1>7. ASSUME ~mixed'
        PROVE  OneCommand' /\ NodeIsOnDisk' /\ StoredFirst' /\ ReadsAreFresh'
    <2>1. ~mixed
      BY <1>7, <1>2
    <2>2. OneCommand /\ NodeIsOnDisk /\ StoredFirst /\ ReadsAreFresh
      BY <2>1 DEF CommandsIInv
    <2>4. OneCommand'
      BY <2>2, <1>4, <1>v DEF OneCommand, Commands!Busy
    <2>5. NodeIsOnDisk'
      BY <2>2, <1>2 DEF NodeIsOnDisk, Commands!None, Commands!Whole
    <2>6. StoredFirst'
      BY <2>2, <1>2, <1>4, <1>v, SMTT(30) DEF StoredFirst
    <2>7. ReadsAreFresh'
      BY <2>2, <1>2, <1>4, <1>v, SMTT(30)
      DEF ReadsAreFresh, Commands!None, Commands!apply_env_overrides
    <2> QED
      BY <2>4, <2>5, <2>6, <2>7
  <1> QED
    BY <1>5, <1>6, <1>7 DEF CommandsIInv

\* cmd_run: the identity it loads is the node's, because nothing has changed
\* since it read the configuration.
LEMMA CommandsRun ==
    ASSUME CommandsIInv, NEW p \in Procs, Commands!cmd_run(p)
    PROVE  CommandsIInv'
  <1>type. CommandsTypeOK
    BY DEF CommandsIInv
  <1> DEFINE k == key[cmds[p].config.key_path]
             r == [at |-> "running", file |-> cmds[p].file, env |-> cmds[p].env,
                   config |-> cmds[p].config, node |-> cmds[p].node, key |-> k]
  <1>1. cmds[p].at = "loaded" /\ cmds[p] \in Loaded
    BY <1>type, CommandFacts DEF Commands!cmd_run
  <1>2. UNCHANGED <<files, key, node, mixed>>
    BY DEF Commands!cmd_run
  <1>k. k # Commands!NoKey => k \in Keys
    BY <1>1, <1>type DEF CommandsTypeOK, Loaded, Configs
  <1>r. k # Commands!NoKey => r \in Running
    BY <1>1, <1>k DEF Loaded, Running
  <1>3. cmds' = [cmds EXCEPT ![p] = IF k = Commands!NoKey THEN Commands!Idle ELSE r]
    BY <1>1, <1>type DEF Commands!cmd_run, CommandsTypeOK
  <1>4. /\ cmds' \in [Procs -> {Commands!Idle} \cup Loaded \cup Storing \cup Writing \cup Running]
        /\ cmds'[p] = Commands!Idle \/ cmds'[p] = r
        /\ cmds'[p].at \in {"idle", "running"}
        /\ \A q \in Procs \ {p} : cmds'[q] = cmds[q]
    BY <1>3, <1>r, <1>type DEF CommandsTypeOK, Commands!Idle
  <1>5. CommandsTypeOK'
    BY <1>2, <1>4, <1>type DEF CommandsTypeOK, Commands!None, Commands!NoKey, Commands!Idle
  <1>fresh. ASSUME ~mixed, cmds[p].file = "config.toml", cmds[p].node # Commands!None
            PROVE  /\ k = cmds[p].node.key
                   /\ cmds[p].config.key_path = cmds[p].node.config.key_path
                   /\ cmds[p].config.name = IF cmds[p].env = "unset"
                                            THEN cmds[p].node.config.name ELSE cmds[p].env
    <2>1. /\ node = cmds[p].node
          /\ cmds[p].config = Commands!apply_env_overrides(node.config, cmds[p].env)
      BY <1>fresh, <1>1 DEF CommandsIInv, ReadsAreFresh
    <2>2. node.config \in Configs /\ cmds[p].env \in {"unset", "env"}
      BY <1>fresh, <1>1, <2>1 DEF Loaded, SetUps
    <2>3. key[node.config.key_path] = node.key
      BY <1>fresh, <2>1 DEF CommandsIInv, NodeIsOnDisk
    <2> QED
      BY <2>1, <2>2, <2>3, Override, SMTT(30)
  <1>6. RunsAsInitialized'
    <2> SUFFICES ASSUME NEW q \in Procs, cmds'[q].at = "running",
                        cmds'[q].file = "config.toml", cmds'[q].node # Commands!None, ~mixed'
                 PROVE  LET r2 == cmds'[q]
                        IN  /\ r2.key = r2.node.key
                            /\ r2.config.key_path = r2.node.config.key_path
                            /\ r2.config.name = IF r2.env = "unset" THEN r2.node.config.name
                                                ELSE r2.env
      BY DEF RunsAsInitialized, Commands!RunsAsInitialized, Commands!None
    <2>0. ~mixed
      BY <1>2
    <2>1. CASE q # p
      BY <2>0, <2>1, <1>4, SMTT(30) DEF CommandsIInv, RunsAsInitialized, Commands!RunsAsInitialized
    <2>2. CASE q = p
      <3>1. cmds'[p] = r
        BY <2>2, <1>4, SMTT(30) DEF Commands!Idle
      <3>2. cmds[p].file = "config.toml" /\ cmds[p].node # Commands!None
        BY <2>2, <3>1, SMTT(30)
      <3> QED
        BY <2>0, <2>2, <3>1, <3>2, <1>fresh, SMTT(30)
    <2> QED
      BY <2>1, <2>2
  <1>7. ASSUME ~mixed'
        PROVE  OneCommand' /\ NodeIsOnDisk' /\ StoredFirst' /\ ReadsAreFresh'
    <2>1. ~mixed
      BY <1>7, <1>2
    <2>2. OneCommand /\ NodeIsOnDisk /\ StoredFirst /\ ReadsAreFresh
      BY <2>1 DEF CommandsIInv
    <2>4. OneCommand'
      BY <2>2, <1>4 DEF OneCommand, Commands!Busy
    <2>5. NodeIsOnDisk'
      BY <2>2, <1>2 DEF NodeIsOnDisk, Commands!None, Commands!Whole
    <2>6. StoredFirst'
      BY <2>2, <1>2, <1>4, SMTT(30) DEF StoredFirst
    <2>7. ReadsAreFresh'
      BY <2>2, <1>2, <1>4, SMTT(30)
      DEF ReadsAreFresh, Commands!None, Commands!apply_env_overrides
    <2> QED
      BY <2>4, <2>5, <2>6, <2>7
  <1> QED
    BY <1>5, <1>6, <1>7 DEF CommandsIInv

\* store: the identity of the node changes with the key file.
LEMMA CommandsStore ==
    ASSUME CommandsIInv, NEW p \in Procs, NEW k \in Keys, Commands!store(p, k)
    PROVE  CommandsIInv'
  <1>type. CommandsTypeOK
    BY DEF CommandsIInv
  <1> DEFINE c == cmds[p].config
             o == [at |-> "opening", config |-> c, key |-> k]
  <1>1. cmds[p].at = "storing" /\ c \in Configs
    BY <1>type, CommandFacts DEF Commands!store, Storing
  <1>p. c.key_path \in KeyPaths
    BY <1>1 DEF Configs
  <1>2. UNCHANGED <<files, mixed>> /\ key' = [key EXCEPT ![c.key_path] = k]
    BY DEF Commands!store
  <1>3. /\ key' \in [KeyPaths -> Keys \cup {Commands!NoKey}]
        /\ key'[c.key_path] = k
        /\ \A path \in KeyPaths : path # c.key_path => key'[path] = key[path]
    BY <1>2, <1>p, <1>type DEF CommandsTypeOK
  <1>o. o \in Writing
    BY <1>1 DEF Writing
  <1>4. /\ cmds' \in [Procs -> {Commands!Idle} \cup Loaded \cup Storing \cup Writing \cup Running]
        /\ cmds'[p] = Commands!Idle \/ cmds'[p] = o
        /\ cmds'[p].at \in {"idle", "opening"}
        /\ \A q \in Procs \ {p} : cmds'[q] = cmds[q]
    BY <1>o, <1>type DEF Commands!store, CommandsTypeOK, Commands!Idle
  <1>n. CASE node = Commands!None
    <2>1. node' = Commands!None
      BY <1>n DEF Commands!store
    <2>5. CommandsTypeOK'
      BY <2>1, <1>2, <1>3, <1>4, <1>type, SMTT(30)
      DEF CommandsTypeOK, Commands!None, Commands!NoKey, Commands!Idle
    <2>6. RunsAsInitialized'
      BY <1>2, <1>4, RunsKept DEF CommandsIInv
    <2>7. ASSUME ~mixed'
          PROVE  OneCommand' /\ NodeIsOnDisk' /\ StoredFirst' /\ ReadsAreFresh'
      <3>1. OneCommand
        BY <2>7, <1>2 DEF CommandsIInv
      <3>2. \A q \in Procs \ {p} : cmds'[q].at \in {"idle", "running"}
        BY <3>1, <1>1, <1>4 DEF OneCommand, Commands!Busy
      <3>3. OneCommand'
        BY <3>2 DEF OneCommand, Commands!Busy
      <3>4. NodeIsOnDisk'
        BY <2>1 DEF NodeIsOnDisk, Commands!None
      <3>5. StoredFirst'
        BY <3>2, <1>3, <1>4, SMTT(30) DEF StoredFirst, Commands!Idle
      <3>6. ReadsAreFresh'
        BY <3>2, <1>4 DEF ReadsAreFresh
      <3> QED
        BY <3>3, <3>4, <3>5, <3>6
    <2> QED
      BY <2>5, <2>6, <2>7 DEF CommandsIInv
  <1>s. CASE node \in SetUps
    <2> DEFINE k2 == IF node.config.key_path = c.key_path THEN k ELSE node.key
    <2>0. node # Commands!None /\ node.config \in Configs /\ node.config.key_path \in KeyPaths
      <3>1. node.at = "set up" /\ node.config \in Configs
        BY <1>s DEF SetUps
      <3>2. node # Commands!None
        <4>1. Commands!None.at = "none"
          BY DEF Commands!None
        <4> QED
          BY <3>1, <4>1
      <3> QED
        BY <3>1, <3>2 DEF Configs
    <2>1. /\ node' \in SetUps /\ node'.config = node.config
          /\ node'.key = k2
      BY <1>s, <2>0 DEF Commands!store, SetUps
    <2>5. CommandsTypeOK'
      BY <2>1, <1>2, <1>3, <1>4, <1>type, SMTT(30)
      DEF CommandsTypeOK, Commands!None, Commands!NoKey, Commands!Idle
    <2>6. RunsAsInitialized'
      BY <1>2, <1>4, RunsKept DEF CommandsIInv
    <2>7. ASSUME ~mixed'
          PROVE  OneCommand' /\ NodeIsOnDisk' /\ StoredFirst' /\ ReadsAreFresh'
      <3>1. OneCommand /\ NodeIsOnDisk
        BY <2>7, <1>2 DEF CommandsIInv
      <3>2. \A q \in Procs \ {p} : cmds'[q].at \in {"idle", "running"}
        BY <3>1, <1>1, <1>4 DEF OneCommand, Commands!Busy
      <3>3. OneCommand'
        BY <3>2 DEF OneCommand, Commands!Busy
      <3>4. NodeIsOnDisk'
        BY <2>0, <2>1, <3>1, <1>2, <1>3 DEF NodeIsOnDisk, Commands!Whole
      <3>5. StoredFirst'
        BY <3>2, <1>3, <1>4, SMTT(30) DEF StoredFirst, Commands!Idle
      <3>6. ReadsAreFresh'
        BY <3>2, <1>4 DEF ReadsAreFresh
      <3> QED
        BY <3>3, <3>4, <3>5, <3>6
    <2> QED
      BY <2>5, <2>6, <2>7 DEF CommandsIInv
  <1> QED
    BY <1>n, <1>s, <1>type DEF CommandsTypeOK

\* fs::write of config.toml, both parts: no node is set up in between, and then
\* the one whose identity was stored before.
LEMMA CommandsWrite ==
    ASSUME CommandsIInv, NEW p \in Procs, Commands!write_open(p) \/ Commands!write_all(p)
    PROVE  CommandsIInv'
  <1>type. CommandsTypeOK
    BY DEF CommandsIInv
  <1> DEFINE c == cmds[p].config
  <1>1. /\ cmds[p].at \in {"opening", "writing"} /\ cmds[p] \in Writing
        /\ c \in Configs /\ cmds[p].key \in Keys
    BY <1>type, CommandFacts DEF Commands!write_open, Commands!write_all, Writing
  <1>2. UNCHANGED <<key, mixed>>
    BY DEF Commands!write_open, Commands!write_all
  <1>3. \A q \in Procs \ {p} : cmds'[q] = cmds[q]
    BY <1>type DEF Commands!write_open, Commands!write_all, CommandsTypeOK
  <1>4. /\ cmds' \in [Procs -> {Commands!Idle} \cup Loaded \cup Storing \cup Writing \cup Running]
        /\ \/ cmds'[p] = Commands!Idle
           \/ /\ cmds'[p].at = "writing" /\ cmds'[p].key = cmds[p].key
              /\ cmds'[p].config = c
        /\ cmds'[p].at \in {"idle", "writing"}
    <2>1. CASE Commands!write_open(p)
      <3>1. cmds' = [cmds EXCEPT ![p] = [cmds[p] EXCEPT !.at = "writing"]]
        BY <2>1 DEF Commands!write_open
      <3>2. [cmds[p] EXCEPT !.at = "writing"] \in Writing
        BY <1>1 DEF Writing
      <3> QED
        BY <3>1, <3>2, <1>1, <1>type DEF CommandsTypeOK, Writing
    <2>2. CASE Commands!write_all(p)
      BY <2>2, <1>type DEF Commands!write_all, CommandsTypeOK, Commands!Idle
    <2> QED
      BY <2>1, <2>2
  <1>5. /\ files' \in [{"config.toml", "user.toml"} -> Files]
        /\ \/ node' = Commands!None
           \/ /\ node' = [at |-> "set up", config |-> c, key |-> cmds[p].key]
              /\ files'["config.toml"] = Commands!Whole(c)
    <2>1. Commands!Whole(c) \in Files /\ Commands!Torn(c) \in Files
      BY <1>1 DEF Files, Commands!Whole, Commands!Torn
    <2> QED
      BY <2>1, <1>type DEF Commands!write_open, Commands!write_all, Commands!to_toml, CommandsTypeOK
  <1>6. [at |-> "set up", config |-> c, key |-> cmds[p].key] \in SetUps
    BY <1>1 DEF SetUps
  <1>7. CommandsTypeOK'
    BY <1>2, <1>4, <1>5, <1>6, <1>type
    DEF CommandsTypeOK, Commands!None, Commands!NoKey, Commands!Idle
  <1>8. RunsAsInitialized'
    BY <1>2, <1>3, <1>4, RunsKept DEF CommandsIInv
  <1>9. ASSUME ~mixed'
        PROVE  OneCommand' /\ NodeIsOnDisk' /\ StoredFirst' /\ ReadsAreFresh'
    <2>1. OneCommand /\ StoredFirst
      BY <1>9, <1>2 DEF CommandsIInv
    <2>2. \A q \in Procs \ {p} : cmds'[q].at \in {"idle", "running"}
      BY <2>1, <1>1, <1>3 DEF OneCommand, Commands!Busy
    <2>3. OneCommand'
      BY <2>2 DEF OneCommand, Commands!Busy
    <2>k. key'[c.key_path] = cmds[p].key
      BY <2>1, <1>1, <1>2 DEF StoredFirst
    <2>4. NodeIsOnDisk'
      <3>1. CASE node' = Commands!None
        BY <3>1 DEF NodeIsOnDisk, Commands!None
      <3>2. CASE /\ node' = [at |-> "set up", config |-> c, key |-> cmds[p].key]
                 /\ files'["config.toml"] = Commands!Whole(c)
        <4>1. node'.config = c /\ node'.key = cmds[p].key
          BY <3>2
        <4> QED
          BY <3>2, <4>1, <2>k DEF NodeIsOnDisk, Commands!Whole
      <3> QED
        BY <3>1, <3>2, <1>5
    <2>5. StoredFirst'
      BY <2>k, <2>2, <1>4, SMTT(30) DEF StoredFirst, Commands!Idle
    <2>6. ReadsAreFresh'
      BY <2>2, <1>4 DEF ReadsAreFresh
    <2> QED
      BY <2>3, <2>4, <2>5, <2>6
  <1> QED
    BY <1>7, <1>8, <1>9 DEF CommandsIInv

\* Every step of a command keeps the invariant.
LEMMA CommandsNext == CommandsIInv /\ [Commands!Next]_Commands!vars => CommandsIInv'
  <1> SUFFICES ASSUME CommandsIInv, [Commands!Next]_Commands!vars PROVE CommandsIInv'
    OBVIOUS
  <1>1. CASE UNCHANGED Commands!vars
    <2>1. UNCHANGED <<files, key, cmds, node, mixed>>
      BY <1>1 DEF Commands!vars
    <2>2. CommandsTypeOK'
      BY <2>1 DEF CommandsIInv, CommandsTypeOK, Commands!None, Commands!NoKey, Commands!Idle
    <2>3. RunsAsInitialized'
      BY <2>1, RunsKept DEF CommandsIInv
    <2>4. ~mixed' => OneCommand' /\ NodeIsOnDisk' /\ StoredFirst' /\ ReadsAreFresh'
      BY <2>1 DEF CommandsIInv, OneCommand, NodeIsOnDisk, StoredFirst, ReadsAreFresh,
                  Commands!Busy, Commands!None, Commands!Whole, Commands!apply_env_overrides
    <2> QED
      BY <2>2, <2>3, <2>4 DEF CommandsIInv
  <1>2. CASE Commands!Next
    BY <1>2, CommandsMain, CommandsStoring, CommandsRun, CommandsStore, CommandsWrite, SMTT(30)
    DEF Commands!Next
  <1> QED
    BY <1>1, <1>2

\* A plain run is the node that init set up, whatever was killed in between and
\* however many processes there were (main.rs:98-119, 172-178).
THEOREM RunsAsInitializedHolds == Commands!Spec => []RunsAsInitialized
  <1>1. CommandsIInv => RunsAsInitialized
    BY DEF CommandsIInv
  <1> QED
    BY <1>1, CommandsInit, CommandsNext, PTL DEF Commands!Spec

-----------------------------------------------------------------------------
(* ConnectionPool *)

Inserts ==
    [Tasks -> {Pool!Idle} \cup [at : {"inserting"}, peer : Peers, state : Pool!States]]

Inserting == {t \in Tasks : inserts[t].at = "inserting"}

\* What the check bounds is the number of entries together with the inserts under
\* way: an insert adds its entry long after its check.
PoolIInv ==
    /\ inserts \in Inserts
    /\ IsFiniteSet(DOMAIN connections)
    /\ Pool!len + Cardinality(Inserting) < max_connections + Cardinality(Tasks)

-----------------------------------------------------------------------------
\* The size that insert compares with the limit.
LEMMA PoolLen ==
    /\ Pool!len = Cardinality(DOMAIN connections)
    /\ Pool!len' = Cardinality(DOMAIN connections')
    /\ Pool!Cardinality(Tasks) = Cardinality(Tasks)
  BY DEF Pool!len, Pool!Cardinality, Cardinality

\* The inserts under way are finitely many, and no more than the tasks.
LEMMA InsertingFinite ==
    /\ IsFiniteSet(Inserting)
    /\ Cardinality(Inserting) \in Nat
    /\ Cardinality(Tasks) \in Nat
    /\ Cardinality(Inserting) <= Cardinality(Tasks)
  <1>1. Inserting \subseteq Tasks
    BY DEF Inserting
  <1>2. IsFiniteSet(Tasks)
    BY PoolAssumption
  <1> QED
    BY <1>1, <1>2, FS_Subset, FS_CardinalityType

\* The check of insert (connection.rs:54) keeps the invariant: when it passes
\* there is room for one entry, and each task has at most one insert.
LEMMA CheckKeepsPoolIInv ==
    ASSUME PoolIInv, NEW t \in Tasks, NEW p \in Peers, NEW s \in Pool!States,
           Pool!insert_check(t, p, s)
    PROVE  PoolIInv'
  <1>1. inserts' \in Inserts
    BY DEF PoolIInv, Pool!insert_check, Inserts
  <1>2. IsFiniteSet(DOMAIN connections)'
    BY DEF PoolIInv, Pool!insert_check
  <1>3. Pool!len < max_connections
    <2>1. Pool!len \in Nat
      BY FS_CardinalityType, PoolLen DEF PoolIInv
    <2> QED
      BY <2>1, PoolAssumption, SMTT(30) DEF Pool!insert_check, Pool!full
  <1>4. Pool!len' = Pool!len /\ Pool!len \in Nat
    BY FS_CardinalityType, PoolLen DEF PoolIInv, Pool!insert_check
  <1>5. /\ Cardinality(Inserting') \in Nat /\ Cardinality(Tasks) \in Nat
        /\ Cardinality(Inserting') <= Cardinality(Tasks)
    <2>1. Inserting' \subseteq Tasks
      BY DEF Inserting
    <2> QED
      BY <2>1, PoolAssumption, FS_Subset, FS_CardinalityType
  <1>6. Pool!len' + Cardinality(Inserting') < max_connections + Cardinality(Tasks)
    BY <1>3, <1>4, <1>5, PoolAssumption, SMTT(30)
  <1> QED
    BY <1>1, <1>2, <1>6 DEF PoolIInv

\* The insert itself (connection.rs:62) adds at most the entry it stood for.
LEMMA InsertKeepsPoolIInv ==
    ASSUME PoolIInv, NEW t \in Tasks, Pool!insert(t)
    PROVE  PoolIInv'
  <1>1. inserts' \in Inserts
    BY DEF PoolIInv, Pool!insert, Inserts
  <1>2. DOMAIN connections' = DOMAIN connections \cup {inserts[t].peer}
    BY DEF Pool!insert
  <1>3. IsFiniteSet(DOMAIN connections) /\ IsFiniteSet(DOMAIN connections')
    BY <1>2, FS_AddElement DEF PoolIInv
  <1>4. Pool!len \in Nat /\ Pool!len' \in Nat /\ Pool!len' <= Pool!len + 1
    <2>1. Pool!len \in Nat /\ Pool!len' \in Nat
      BY <1>3, FS_CardinalityType, PoolLen
    <2>2. PICK D : D = DOMAIN connections /\ IsFiniteSet(D)
      BY <1>3
    <2>3. Cardinality(D \cup {inserts[t].peer})
              = IF inserts[t].peer \in D THEN Cardinality(D) ELSE Cardinality(D) + 1
      BY <2>2, FS_AddElement
    <2>4. Pool!len = Cardinality(D) /\ Pool!len' = Cardinality(D \cup {inserts[t].peer})
      BY <1>2, <2>2, PoolLen
    <2> QED
      BY <2>1, <2>3, <2>4, SMTT(30)
  <1>5. t \in Inserting
    BY DEF Pool!insert, Inserting
  <1>6. Inserting' = Inserting \ {t}
    BY DEF PoolIInv, Pool!insert, Inserting, Inserts, Pool!Idle
  <1>7. Cardinality(Inserting') = Cardinality(Inserting) - 1
    BY <1>5, <1>6, InsertingFinite, FS_RemoveElement
  <1>8. Pool!len' + Cardinality(Inserting') < max_connections + Cardinality(Tasks)
    BY <1>4, <1>7, InsertingFinite, PoolAssumption, SMTT(30) DEF PoolIInv
  <1> QED
    BY <1>1, <1>3, <1>8 DEF PoolIInv

\* A step that starts and ends no insert and adds no entry keeps the invariant.
LEMMA ShrinkKeepsPoolIInv ==
    ASSUME PoolIInv, inserts' = inserts, DOMAIN connections' \subseteq DOMAIN connections
    PROVE  PoolIInv'
  <1>1. /\ IsFiniteSet(DOMAIN connections')
        /\ Pool!len' <= Pool!len /\ Pool!len \in Nat /\ Pool!len' \in Nat
    BY FS_Subset, FS_CardinalityType, PoolLen DEF PoolIInv
  <1>2. Inserting' = Inserting
    BY DEF Inserting
  <1>3. Pool!len' + Cardinality(Inserting') < max_connections + Cardinality(Tasks)
    BY <1>1, <1>2, InsertingFinite, PoolAssumption, SMTT(30) DEF PoolIInv
  <1> QED
    BY <1>1, <1>3 DEF PoolIInv

\* Every reachable state satisfies the inductive invariant.
THEOREM PoolInvariance == Pool!Spec => []PoolIInv
  <1>1. Pool!Init => PoolIInv
    <2> SUFFICES ASSUME Pool!Init PROVE PoolIInv
      OBVIOUS
    <2>1. DOMAIN connections = {} /\ Inserting = {}
      BY DEF Pool!Init, Inserting, Pool!Idle
    <2>2. Pool!len = 0 /\ Cardinality(Inserting) = 0 /\ IsFiniteSet(DOMAIN connections)
      BY <2>1, FS_EmptySet, PoolLen
    <2>3. Cardinality(Tasks) \in Nat /\ Cardinality(Tasks) # 0
      BY PoolAssumption, FS_EmptySet, FS_CardinalityType
    <2>4. inserts \in Inserts
      BY DEF Pool!Init, Inserts
    <2> QED
      BY <2>2, <2>3, <2>4, PoolAssumption, SMTT(30) DEF PoolIInv
  <1>2. PoolIInv /\ [Pool!Next]_Pool!vars => PoolIInv'
    <2> SUFFICES ASSUME PoolIInv, [Pool!Next]_Pool!vars PROVE PoolIInv'
      OBVIOUS
    <2>1. ASSUME NEW t \in Tasks, NEW p \in Peers, NEW s \in Pool!States,
                 Pool!insert_check(t, p, s)
          PROVE  PoolIInv'
      BY <2>1, CheckKeepsPoolIInv
    <2>2. ASSUME NEW t \in Tasks, Pool!insert(t) PROVE PoolIInv'
      BY <2>2, InsertKeepsPoolIInv
    <2>3. ASSUME NEW p \in Peers, Pool!remove(p) PROVE PoolIInv'
      <3>1. inserts' = inserts /\ DOMAIN connections' \subseteq DOMAIN connections
        BY <2>3 DEF Pool!remove
      <3> QED
        BY <3>1, ShrinkKeepsPoolIInv
    <2>4. ASSUME NEW p \in Peers, NEW s \in Pool!States,
                 Pool!update_state(p, s)
          PROVE  PoolIInv'
      <3>1. inserts' = inserts /\ DOMAIN connections' \subseteq DOMAIN connections
        BY <2>4 DEF Pool!update_state
      <3> QED
        BY <3>1, ShrinkKeepsPoolIInv
    <2>5. ASSUME NEW p \in Peers, Pool!record_bytes_sent(p) PROVE PoolIInv'
      <3>1. inserts' = inserts /\ DOMAIN connections' \subseteq DOMAIN connections
        BY <2>5 DEF Pool!record_bytes_sent
      <3> QED
        BY <3>1, ShrinkKeepsPoolIInv
    <2>6. ASSUME NEW p \in Peers, Pool!record_bytes_received(p) PROVE PoolIInv'
      <3>1. inserts' = inserts /\ DOMAIN connections' \subseteq DOMAIN connections
        BY <2>6 DEF Pool!record_bytes_received
      <3> QED
        BY <3>1, ShrinkKeepsPoolIInv
    <2>7. CASE UNCHANGED Pool!vars
      <3>1. inserts' = inserts /\ DOMAIN connections' \subseteq DOMAIN connections
        BY <2>7 DEF Pool!vars
      <3> QED
        BY <3>1, ShrinkKeepsPoolIInv
    <2> QED
      BY <2>1, <2>2, <2>3, <2>4, <2>5, <2>6, <2>7, SMTT(30) DEF Pool!Next
  <1> QED
    BY <1>1, <1>2, PTL DEF Pool!Spec

\* The limit of the pool is exceeded by fewer entries than there are tasks that
\* call insert (connection.rs:53-65); with one task it is never exceeded.
THEOREM OverrunIsBounded == Pool!Spec => []OverrunBounded
  <1>1. PoolIInv => OverrunBounded
    <2> SUFFICES ASSUME PoolIInv PROVE OverrunBounded
      OBVIOUS
    <2>1. Pool!len \in Nat
      BY FS_CardinalityType, PoolLen DEF PoolIInv
    <2> QED
      BY <2>1, InsertingFinite, PoolAssumption, PoolLen, SMTT(30)
         DEF PoolIInv, OverrunBounded, Pool!OverrunBounded
  <1> QED
    BY <1>1, PoolInvariance, PTL

\* A removed connection comes back by insert only (connection.rs:68-74, 109-127).
THEOREM RemovedStaysOut == Pool!Spec => []RemovedStaysRemoved
  <1>1. Pool!Init => Pool!RemovedStaysRemoved
    BY DEF Pool!Init, Pool!RemovedStaysRemoved
  <1>2. Pool!RemovedStaysRemoved /\ [Pool!Next]_Pool!vars => Pool!RemovedStaysRemoved'
    <2> SUFFICES ASSUME Pool!RemovedStaysRemoved, [Pool!Next]_Pool!vars
                 PROVE  Pool!RemovedStaysRemoved'
      OBVIOUS
    <2> USE DEF Pool!RemovedStaysRemoved
    <2>1. ASSUME NEW t \in Tasks, NEW p \in Peers, NEW s \in Pool!States, Pool!insert_check(t, p, s)
          PROVE  Pool!RemovedStaysRemoved'
      BY <2>1 DEF Pool!insert_check
    <2>2. ASSUME NEW t \in Tasks, Pool!insert(t) PROVE Pool!RemovedStaysRemoved'
      BY <2>2 DEF Pool!insert
    <2>3. ASSUME NEW p \in Peers, Pool!remove(p) PROVE Pool!RemovedStaysRemoved'
      BY <2>3 DEF Pool!remove
    <2>4. ASSUME NEW p \in Peers, NEW s \in Pool!States,
                 Pool!update_state(p, s)
          PROVE  Pool!RemovedStaysRemoved'
      BY <2>4 DEF Pool!update_state
    <2>5. ASSUME NEW p \in Peers, Pool!record_bytes_sent(p) PROVE Pool!RemovedStaysRemoved'
      BY <2>5 DEF Pool!record_bytes_sent
    <2>6. ASSUME NEW p \in Peers,
                 Pool!record_bytes_received(p)
          PROVE  Pool!RemovedStaysRemoved'
      BY <2>6 DEF Pool!record_bytes_received
    <2>7. CASE UNCHANGED Pool!vars
      BY <2>7 DEF Pool!vars
    <2> QED
      BY <2>1, <2>2, <2>3, <2>4, <2>5, <2>6, <2>7, SMTT(30) DEF Pool!Next
  <1> QED
    BY <1>1, <1>2, PTL DEF Pool!Spec, RemovedStaysRemoved
=============================================================================
