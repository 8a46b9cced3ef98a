--------------------------- MODULE NativeManager ----------------------------
(***************************************************************************)
(* circuitforge_core/manage/native_mode.py: `manage start` and `manage     *)
(* stop`, which know a service's process by the PID in its file. Processes *)
(* die and the system reuses PIDs; a command may be killed halfway.        *)
(***************************************************************************)
EXTENDS Naturals, FiniteSets, FiniteSetsExt

CONSTANTS
  Services,
  Pids,       \* the PIDs the system gives out
  MaxCrashes  \* bound on the commands that are killed

ConstantsOK ==
  /\ MaxCrashes \in Nat
  /\ {"free", "other"} \cap Services = {}
  /\ {"none", "torn"} \cap Pids = {} /\ IsFiniteSet(Pids)

VARIABLES
  procs,     \* per PID the service that runs under it, "other" program or "free"
  pidfile,   \* per service its PID file: a PID, "none", or "torn" (no number in it)
  pc,        \* where the command is: "idle", "spawn", "open", "write",
             \* "term", "wait", "force", "unlink"
  svc, pid,  \* its locals
  crashes,   \* commands killed so far
  signalled  \* history: pairs <<service to stop, what ran under the PID>>

vars == <<procs, pidfile, pc, svc, pid, crashes, signalled>>

Init ==
  /\ procs = [p \in Pids |-> "free"]
  /\ pidfile = [s \in Services |-> "none"]
  /\ pc = "idle"
  /\ svc \in Services
  /\ pid \in Pids
  /\ crashes = 0
  /\ signalled = {}

Alive(p) == p \in Pids /\ procs[p] # "free"

IsRunning(s) == Alive(pidfile[s])

\* Mutant: the PID file is not looked at.
StartAgain(s) ==
  /\ pc = "idle"
  /\ svc' = s
  /\ pc' = "spawn"
  /\ UNCHANGED <<procs, pidfile, pid, crashes, signalled>>

(* start(): skipped when the recorded PID is alive. *)
Start(s) ==
  /\ pc = "idle"
  /\ ~IsRunning(s)
  /\ svc' = s
  /\ pc' = "spawn"
  /\ UNCHANGED <<procs, pidfile, pid, crashes, signalled>>

(* Popen. *)
Spawn ==
  /\ pc = "spawn"
  /\ \E p \in {q \in Pids : procs[q] = "free"} :
       /\ procs' = [procs EXCEPT ![p] = svc]
       /\ pid' = p
  /\ pc' = "open"
  /\ UNCHANGED <<pidfile, svc, crashes, signalled>>

(* _write_pid(): the file is truncated, then written. *)
TruncatePid ==
  /\ pc = "open"
  /\ pidfile' = [pidfile EXCEPT ![svc] = "torn"]
  /\ pc' = "write"
  /\ UNCHANGED <<procs, svc, pid, crashes, signalled>>

WritePid ==
  /\ pc = "write"
  /\ pidfile' = [pidfile EXCEPT ![svc] = pid]
  /\ pc' = "idle"
  /\ UNCHANGED <<procs, svc, pid, crashes, signalled>>

(* stop(): read the PID; only a live one is killed. *)
Stop(s) ==
  /\ pc = "idle"
  /\ svc' = s
  /\ IF IsRunning(s) THEN pid' = pidfile[s] /\ pc' = "term"
     ELSE pc' = "unlink" /\ UNCHANGED pid
  /\ UNCHANGED <<procs, pidfile, crashes, signalled>>

(* Popen raises: no such command, or no PID left. *)
SpawnRaises ==
  /\ pc = "spawn"
  /\ pc' = "idle"
  /\ UNCHANGED <<procs, pidfile, svc, pid, crashes, signalled>>

(* SIGTERM: obeyed or not; a PID that is gone by now ends _kill(). *)
Terminate ==
  /\ pc = "term"
  /\ IF Alive(pid) THEN
       /\ signalled' = signalled \cup {<<svc, procs[pid]>>}
       /\ procs' \in {procs, [procs EXCEPT ![pid] = "free"]}
       /\ pc' = "wait"
     ELSE pc' = "unlink" /\ UNCHANGED <<procs, signalled>>
  /\ UNCHANGED <<pidfile, svc, pid, crashes>>

(* The 30 polls: the PID is gone, or 3 s have passed. *)
\* Mutant: it gives up after 3 s.
WaitThenGiveUp ==
  /\ pc = "wait"
  /\ pc' = "unlink"
  /\ UNCHANGED <<procs, pidfile, svc, pid, crashes, signalled>>

Wait ==
  /\ pc = "wait"
  /\ pc' = IF Alive(pid) THEN "force" ELSE "unlink"
  /\ UNCHANGED <<procs, pidfile, svc, pid, crashes, signalled>>

(* SIGKILL. *)
Force ==
  /\ pc = "force"
  /\ signalled' = IF Alive(pid) THEN signalled \cup {<<svc, procs[pid]>>} ELSE signalled
  /\ procs' = [procs EXCEPT ![pid] = "free"]
  /\ pc' = "unlink"
  /\ UNCHANGED <<pidfile, svc, pid, crashes>>

Unlink ==
  /\ pc = "unlink"
  /\ pidfile' = [pidfile EXCEPT ![svc] = "none"]
  /\ pc' = "idle"
  /\ UNCHANGED <<procs, svc, pid, crashes, signalled>>

(* The command is killed halfway. *)
Crash ==
  /\ pc # "idle"
  /\ crashes < MaxCrashes
  /\ crashes' = crashes + 1
  /\ pc' = "idle"
  /\ UNCHANGED <<procs, pidfile, svc, pid, signalled>>

(* Outside the program: a process exits, another program gets a free PID. *)
Die(p) ==
  /\ Alive(p)
  /\ procs' = [procs EXCEPT ![p] = "free"]
  /\ UNCHANGED <<pidfile, pc, svc, pid, crashes, signalled>>

Recycle(p) ==
  /\ procs[p] = "free"
  /\ procs' = [procs EXCEPT ![p] = "other"]
  /\ UNCHANGED <<pidfile, pc, svc, pid, crashes, signalled>>

Step ==
  \/ Spawn \/ SpawnRaises \/ TruncatePid \/ WritePid
  \/ Terminate \/ Wait \/ Force \/ Unlink

Next ==
  \/ \E s \in Services : Start(s) \/ Stop(s)
  \/ Step
  \/ Crash
  \/ \E p \in Pids : Die(p) \/ Recycle(p)

(* A command under way goes on. *)
Fairness == WF_vars(Step)

Spec == Init /\ [][Next]_vars
FairSpec == Spec /\ Fairness

-----------------------------------------------------------------------------
Instances(s) == {p \in Pids : procs[p] = s}

TypeOK ==
  /\ procs \in [Pids -> Services \cup {"free", "other"}]
  /\ pidfile \in [Services -> Pids \cup {"none", "torn"}]
  /\ pc \in {"idle", "spawn", "open", "write", "term", "wait", "force", "unlink"}
  /\ svc \in Services /\ pid \in Pids
  /\ crashes \in 0..MaxCrashes

(* Commands run one after the other never start a service twice: every     *)
(* instance beyond the first was left by a command that was killed, PIDs   *)
(* reused by other services included.                                      *)
InstancesBounded == \A s \in Services : Cardinality(Instances(s)) <= 1 + crashes

(* When stop() is through, the service does not run, whether or not it     *)
(* obeyed SIGTERM, unless a killed start left an instance nobody recorded. *)
StoppedMeansGone ==
  [][pc = "unlink" /\ pidfile'[svc] = "none" /\ crashes' = crashes
       => Cardinality(Instances(svc)) <= crashes]_vars

(* Every command comes to its end. *)
CommandRuns == pc # "idle"
EveryCommandEnds == CommandRuns ~> ~CommandRuns

(* native_mode.py:13-14, the PID is checked to be the service's and not a  *)
(* reused one: stop() signals no other process.                            *)
SignalsItsOwn == \A x \in signalled : x[1] = x[2]
=============================================================================
