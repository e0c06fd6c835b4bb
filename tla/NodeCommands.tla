---------------------------- MODULE NodeCommands ----------------------------
(***************************************************************************)
(* The omnimesh commands (crates/omnimesh-node/src/main.rs) and Config     *)
(* (crates/omnimesh-core/src/config.rs) as processes that share the        *)
(* configuration files and the key files these name.  Each may be killed   *)
(* at any point.  A key file is replaced in one step, which is what        *)
(* KeyStore shows of FileKeyStore; config.toml is written with fs::write,  *)
(* which truncates first, and not through a temporary file.                *)
(*                                                                         *)
(* Of Config two settings are kept: key_path, for those that only a file   *)
(* can change, and name, for the four that the environment can.            *)
(***************************************************************************)
EXTENDS Naturals

CONSTANTS Procs, Keys,
          KeyPaths,      \* where key files may be; one is "default"
          UserConfig,    \* the configuration file that the user wrote
          Names          \* names that default_node_name makes up

VARIABLES files,        \* the configuration files
          key,          \* key[path]: the identity in the key file there
          pc,           \* what each process is doing
          node,         \* history: what the last init to return has set up
          overlapped    \* history: a command ran while another changed files

vars == <<files, key, pc, node, overlapped>>

None == [at |-> "none"]
Idle == [at |-> "idle"]
NoKey == "none"

Absent == [state |-> "absent"]
Whole(c) == [state |-> "whole", config |-> c]
Torn(c) == [state |-> "torn", config |-> c]

Init ==
    /\ \E f \in {Absent, Whole(UserConfig)} :
           files = [t \in {"config.toml", "user.toml"} |->
                       IF t = "config.toml" THEN f ELSE Whole(UserConfig)]
    /\ key = [path \in KeyPaths |-> NoKey]
    /\ pc = [p \in Procs |-> Idle]
    /\ node = None
    /\ overlapped = FALSE

-----------------------------------------------------------------------------
(* Config *)

\* Config::default: the name is a new one every time.
defaults == [key_path : {"default"}, name : Names]

\* env is the name in the environment, or "unset".
apply_env_overrides(c, env) == [c EXCEPT !.name = IF env = "unset" THEN @ ELSE env]

\* What toml::from_str makes of a file that was cut short while c was written to
\* it: a part of c, in the order of the file, if the part happens to be TOML.
from_part(c) == defaults \cup {[d EXCEPT !.name = c.name] : d \in defaults} \cup {c}

\* Config::load(..).unwrap_or_default(): the configurations that file f may give.
\* An error leaves the defaults, without the overrides.
load(f, env) ==
    CASE f.state = "absent" -> {apply_env_overrides(d, env) : d \in defaults}
      [] f.state = "whole" -> {apply_env_overrides(f.config, env)}
      [] f.state = "torn" -> defaults \cup {apply_env_overrides(c, env) : c \in from_part(f.config)}

\* Plausible bug: init writes the default configuration.
to_tomlDefault(c) == [c EXCEPT !.key_path = "default"]

to_toml(c) == c

-----------------------------------------------------------------------------
(* The commands *)

Busy(p) == pc[p].at \notin {"idle", "running"}

\* A process starts: it reads the file of --config and the environment.
main(p, cmd, f, env) ==
    /\ pc[p] = Idle
    /\ \E c \in load(files[f], env) :
           pc' = [pc EXCEPT ![p] = [at |-> "loaded", cmd |-> cmd, file |-> f, env |-> env,
                                    config |-> c, node |-> node]]
    /\ overlapped' = (overlapped \/ \E q \in Procs : Busy(q))
    /\ UNCHANGED <<files, key, node>>

\* cmd_init up to the check: it stops when there is an identity.
cmd_init(p) ==
    /\ pc[p].at = "loaded" /\ pc[p].cmd = "init"
    /\ pc' = [pc EXCEPT ![p] = IF key[pc[p].config.key_path] = NoKey
                               THEN [at |-> "storing", cmd |-> "init", config |-> pc[p].config]
                               ELSE Idle]
    /\ UNCHANGED <<files, key, node, overlapped>>

cmd_identity_generate(p) ==
    /\ pc[p].at = "loaded" /\ pc[p].cmd = "generate"
    /\ pc' = [pc EXCEPT ![p] = [at |-> "storing", cmd |-> "generate", config |-> pc[p].config]]
    /\ UNCHANGED <<files, key, node, overlapped>>

\* store.store: a new identity takes the place of any other.  generate is done;
\* if it was the identity of the node, the node has a new one.
store(p, k) ==
    LET c == pc[p].config
    IN  /\ pc[p].at = "storing"
        /\ key' = [key EXCEPT ![c.key_path] = k]
        /\ pc' = [pc EXCEPT ![p] = IF pc[p].cmd = "generate" THEN Idle
                                   ELSE [at |-> "opening", config |-> c, key |-> k]]
        /\ node' = IF node # None /\ node.config.key_path = c.key_path
                   THEN [node EXCEPT !.key = k] ELSE node
        /\ UNCHANGED <<files, overlapped>>

\* cmd_init: fs::write of "config.toml", whatever --config was.  It is cut to
\* nothing and then written.
write_open(p) ==
    /\ pc[p].at = "opening"
    /\ files' = [files EXCEPT !["config.toml"] = Torn(to_toml(pc[p].config))]
    /\ node' = None
    /\ pc' = [pc EXCEPT ![p].at = "writing"]
    /\ UNCHANGED <<key, overlapped>>

write_all(p) ==
    /\ pc[p].at = "writing"
    /\ files' = [files EXCEPT !["config.toml"] = Whole(to_toml(pc[p].config))]
    /\ node' = [at |-> "set up", config |-> pc[p].config, key |-> pc[p].key]
    /\ pc' = [pc EXCEPT ![p] = Idle]
    /\ UNCHANGED <<key, overlapped>>

\* cmd_run: it loads the identity, or says that there is none and ends.
cmd_run(p) ==
    LET k == key[pc[p].config.key_path]
    IN  /\ pc[p].at = "loaded" /\ pc[p].cmd = "run"
        /\ pc' = [pc EXCEPT ![p] =
               IF k = NoKey THEN Idle
               ELSE [at |-> "running", file |-> @.file, env |-> @.env, config |-> @.config,
                     node |-> @.node, key |-> k]]
        /\ UNCHANGED <<files, key, node, overlapped>>

\* A process ends or is killed; the files stay as they are.
stop(p) ==
    /\ pc[p] # Idle
    /\ pc' = [pc EXCEPT ![p] = Idle]
    /\ UNCHANGED <<files, key, node, overlapped>>

Next ==
    \E p \in Procs :
        \/ \E cmd \in {"init", "generate", "run"}, f \in DOMAIN files, env \in {"unset", "env"} :
               main(p, cmd, f, env)
        \/ cmd_init(p) \/ cmd_identity_generate(p) \/ cmd_run(p)
        \/ \E k \in Keys : store(p, k)
        \/ write_open(p) \/ write_all(p)
        \/ stop(p)

Spec == Init /\ [][Next]_vars

-----------------------------------------------------------------------------
\* The node that init has set up is the node that runs: a plain run loads the
\* identity that init stored, or generate after it, and keeps its name unless
\* the environment gives another, whatever configuration init was called with
\* and whatever was killed in between.  Only a config.toml that was cut short,
\* and commands that ran while others changed files, are left out
\* (main.rs:64, 98-119, 172-178, config.rs:266-293).
RunsAsInitialized ==
    \A p \in Procs :
        LET r == pc[p]
        IN  r.at = "running" /\ r.file = "config.toml" /\ r.node # None /\ ~overlapped =>
                /\ r.key = r.node.key
                /\ r.config.key_path = r.node.config.key_path
                /\ r.config.name = IF r.env = "unset" THEN r.node.config.name ELSE r.env
=============================================================================
