----------------------------- MODULE ManageMode -----------------------------
(***************************************************************************)
(* circuitforge_core/manage: cli.py and docker_mode.py. Every command of   *)
(* "manage" first decides between Docker Compose and native processes,     *)
(* anew each time, from what it finds on the machine, and then acts on     *)
(* what it takes to be running there. What a command does to the processes *)
(* of one service in native mode is NativeManager's; here it is one step.  *)
(***************************************************************************)
EXTENDS FiniteSets

CONSTANTS
  Services,       \* the services of the compose file
  NativeServices  \* those that manage.toml defines as native services

ConstantsOK == NativeServices \subseteq Services

VARIABLES
  docker,      \* the docker CLI is installed
  plugin,      \* it has the compose plugin
  standalone,  \* docker-compose is installed
  daemon,      \* the Docker daemon answers
  compose,     \* the product has its compose file
  cmd,         \* the command under way, or NoCommand
  manager,     \* what it has resolved to: "docker" or "native"
  containers,  \* service -> "none", "stopped" or "running"
  natives,     \* the native services that run
  steady       \* history: no --mode given, docker and compose file where they
               \* were, and `docker info` never longer than 5 s

vars == <<docker, plugin, standalone, daemon, compose, cmd, manager, containers, natives, steady>>
machine == <<docker, plugin, standalone, daemon, compose>>

NoCommand == [name |-> "none", targets |-> {}, mode |-> "auto"]

(* manage.toml, or a configuration inferred without one, has been read:    *)
(* it changes nothing that the commands do but which services are native.  *)
Init ==
  /\ docker \in BOOLEAN /\ plugin \in BOOLEAN /\ standalone \in BOOLEAN
  /\ daemon \in BOOLEAN /\ compose \in BOOLEAN
  /\ cmd = NoCommand
  /\ manager = "native"
  /\ containers = [s \in Services |-> "none"]
  /\ natives = {}
  /\ steady = TRUE

\* Mutant: the exit status of `docker info` is looked at.
AvailableIfDaemon(slow) == docker /\ daemon /\ ~slow
(* docker_available(): any outcome of `docker info` but a missing binary   *)
(* and a timeout.                                                          *)
DockerAvailable(slow) == docker /\ ~slow

(* _resolve(). *)
Resolved(mode, slow) ==
  IF mode = "docker" \/ (mode = "auto" /\ DockerAvailable(slow) /\ compose)
  THEN "docker" ELSE "native"

(* _compose_bin() takes `docker` if there is one, with or without its      *)
(* plugin. The command exits with 0 if the daemon and the file are there.  *)
ComposeWorks == (IF docker THEN plugin ELSE standalone) /\ daemon /\ compose

-----------------------------------------------------------------------------
(* A command is given, for one service or for all, and resolves its mode.  *)
Command ==
  /\ cmd = NoCommand
  /\ \E name \in {"start", "stop", "restart", "status", "logs", "build"},
        targets \in {{s} : s \in Services} \cup {Services},
        mode \in {"auto", "docker", "native"}, slow \in BOOLEAN :
       /\ cmd' = [name |-> name, targets |-> targets, mode |-> mode]
       /\ manager' = Resolved(mode, slow)
       /\ steady' = (steady /\ mode = "auto" /\ ~slow)
  /\ UNCHANGED <<machine, containers, natives>>

Done == cmd' = NoCommand /\ manager' = "native" /\ UNCHANGED <<machine, steady>>
All == cmd.targets = Services
Via(m, name) == cmd.name = name /\ manager = m
Set(s, state) == containers' = [t \in Services |-> IF t \in s THEN state ELSE containers[t]]

(* DockerManager.start(): `up -d --build`, which may get part of the way.  *)
ComposeUp ==
  /\ Via("docker", "start") /\ ComposeWorks
  /\ \E up \in SUBSET cmd.targets : Set(up, "running")
  /\ Done /\ UNCHANGED natives

(* stop(): `stop service` leaves its container, `down` removes them all.   *)
ComposeStop ==
  /\ Via("docker", "stop") /\ ComposeWorks
  /\ IF All THEN Set(Services, "none")
     ELSE Set({s \in cmd.targets : containers[s] = "running"}, "stopped")
  /\ Done /\ UNCHANGED natives

(* restart() starts the containers there are, those that stood still too.  *)
ComposeRestart ==
  /\ Via("docker", "restart") /\ ComposeWorks
  /\ Set({s \in cmd.targets : containers[s] # "none"}, "running")
  /\ Done /\ UNCHANGED natives

(* `ps`, `logs` and `build` change no container; and every command raises  *)
(* when there is no compose to run or it fails (`ps` does not check).      *)
ComposeOther ==
  /\ manager = "docker" /\ cmd # NoCommand
  /\ cmd.name \in {"status", "logs", "build"} \/ ~ComposeWorks
  /\ Done /\ UNCHANGED <<containers, natives>>

(* NativeManager.start(): an unknown service raises; with `all`, services  *)
(* are started one by one until Popen raises.                              *)
NativeStart ==
  /\ Via("native", "start")
  /\ \E up \in SUBSET (cmd.targets \cap NativeServices) : natives' = natives \cup up
  /\ Done /\ UNCHANGED containers

NativeStop ==
  /\ Via("native", "stop")
  /\ natives' = natives \ cmd.targets
  /\ Done /\ UNCHANGED containers

(* restart: the manager's stop(), then its start().                        *)
NativeRestart ==
  /\ Via("native", "restart")
  /\ \E up \in SUBSET (cmd.targets \cap NativeServices) : natives' = (natives \ cmd.targets) \cup up
  /\ Done /\ UNCHANGED containers

(* status and logs read; build exits with 1, it is for Docker mode only.   *)
NativeOther ==
  /\ manager = "native" /\ cmd.name \in {"status", "logs", "build"}
  /\ Done /\ UNCHANGED <<containers, natives>>

(* The administrator's machine: the daemon goes, with all the containers,  *)
(* and comes; what its restart policies would bring back is left stopped.  *)
Daemon ==
  /\ daemon' = ~daemon
  /\ containers' = IF daemon
                   THEN [s \in Services |-> IF containers[s] = "running" THEN "stopped" ELSE containers[s]]
                   ELSE containers
  /\ UNCHANGED <<docker, plugin, standalone, compose, cmd, manager, natives, steady>>

Exit ==
  /\ \E s \in Services :
       \/ containers[s] = "running" /\ Set({s}, "stopped") /\ UNCHANGED natives
       \/ s \in natives /\ natives' = natives \ {s} /\ UNCHANGED containers
  /\ UNCHANGED <<machine, cmd, manager, steady>>

Install ==
  /\ \/ docker' = ~docker /\ UNCHANGED <<plugin, compose>>
     \/ plugin' = ~plugin /\ UNCHANGED <<docker, compose>>
     \/ compose' = ~compose /\ UNCHANGED <<docker, plugin>>
  /\ steady' = (steady /\ UNCHANGED <<docker, compose>>)
  /\ UNCHANGED <<standalone, daemon, cmd, manager, containers, natives>>

Next ==
  \/ Command
  \/ ComposeUp \/ ComposeStop \/ ComposeRestart \/ ComposeOther
  \/ NativeStart \/ NativeStop \/ NativeRestart \/ NativeOther
  \/ Daemon \/ Exit \/ Install

Spec == Init /\ [][Next]_vars

-----------------------------------------------------------------------------
(* cli.py:44, "based on mode flag and environment": commands without a     *)
(* --mode never run a product in both runtimes, so that stop finds what    *)
(* start started, whenever the daemon is up or down, or the plugin there.  *)
OneRuntime ==
  steady => natives = {} \/ \A s \in Services : containers[s] # "running"

(* docs/modules/manage.md:31, "auto-detects whether Docker is available    *)
(* and falls back to native mode if not".                                  *)
FallsBack ==
  [][Command /\ cmd'.mode = "auto" /\ ~(docker /\ daemon) => manager' = "native"]_vars

(* docker_mode.py:5, "Falls back to `docker-compose` (v1 standalone) if    *)
(* the plugin is unavailable".                                             *)
UsesWhatIsThere == ((docker /\ plugin) \/ standalone) /\ daemon /\ compose => ComposeWorks
=============================================================================
