----------------------------- MODULE MCServices ------------------------------
(* The long-running processes: the services that "manage" starts and stops   *)
(* in native mode, its choice between native mode and Docker, cf-text over   *)
(* the vLLM process it started (by itself, and with the calls that pass      *)
(* through it), and the requests of a service between its event loop and its *)
(* threads. They share nothing, so a behaviour runs the part that `part`     *)
(* names. The fairness of a part asks nothing of the parts that a behaviour   *)
(* leaves at their initial state: no fair action is enabled there.           *)
EXTENDS Integers, Sequences, FiniteSetTheorems, TLAPS

CONSTANTS Services, Pids, MaxCrashes, NativeServices,
          MaxRuns, MaxKills, Calls, Models,
          Requests, Nobody

VARIABLES part,
          procs, pidfile, nativePc, svc, pid, crashes, signalled,
          textRun, text, child, bound, answered, kills,
          model, callPc, host, server,
          docker, plugin, standalone, daemon, compose, cmd, manager, containers, natives, steady,
          service, pc, endpoint, faults, loop, status, files

Native == INSTANCE NativeManager WITH pc <- nativePc
Text == INSTANCE VllmSupervisor WITH run <- textRun, pc <- callPc
Manage == INSTANCE ManageMode
Http == INSTANCE ModelService WITH Threads <- 1, Executor <- 1

ASSUME ServicesAssumption ==
  Native!ConstantsOK /\ Text!ConstantsOK /\ Http!ConstantsOK /\ Manage!ConstantsOK

nativeVars == <<procs, pidfile, nativePc, svc, pid, crashes, signalled>>
textVars == <<textRun, text, child, bound, answered, kills, model, callPc, host, server>>
httpVars == <<service, pc, endpoint, faults, loop, status, files>>
manageVars == <<docker, plugin, standalone, daemon, compose, cmd, manager, containers, natives, steady>>
vars == <<part, nativeVars, textVars, manageVars, httpVars>>

NativeSteps ==
  /\ part = "native" /\ Native!Next
  /\ UNCHANGED <<part, textVars, manageVars, httpVars>>
TextSteps ==
  /\ part = "text" /\ Text!Next
  /\ UNCHANGED <<part, nativeVars, manageVars, httpVars>>
ManageSteps ==
  /\ part = "manage" /\ Manage!Next
  /\ UNCHANGED <<part, nativeVars, textVars, httpVars>>
HttpSteps ==
  /\ part = "http" /\ Http!Next
  /\ UNCHANGED <<part, nativeVars, textVars, manageVars>>

HttpInit == /\ Http!Init
            /\ part # "http" => service = "tts" /\ \A r \in Requests : endpoint[r] = "health"
ManageInit == /\ Manage!Init
              /\ part # "manage" => docker /\ plugin /\ standalone /\ daemon /\ compose
TextInit == /\ Text!Init
            /\ part # "text" => \A r \in Text!Runs : model[r] = CHOOSE m \in Models : TRUE
Init == /\ part \in {"native", "text", "manage", "http"}
        /\ Native!Init /\ TextInit /\ ManageInit /\ HttpInit
Next == NativeSteps \/ TextSteps \/ ManageSteps \/ HttpSteps
Spec == /\ Init /\ [][Next]_vars
        /\ Native!Fairness /\ Text!Fairness /\ Http!Fairness

(* The properties of the parts. *)
StoppedMeansGone == Native!StoppedMeansGone
OrphansOnlyFromKills == Text!OrphansOnlyFromKills
AnsweredByItsModel == Text!AnsweredByItsModel
OneRuntime == Manage!OneRuntime
(* What is meant to be there once is: the runtime a product's commands use;  *)
(* an instance of a service, but for what killed commands left; a run of a   *)
(* model whose service runs it on its event loop; the temporary file of an   *)
(* upload, which lasts as long as its run.                                   *)
NothingTwice ==
  OneRuntime /\ Native!InstancesBounded /\ Http!OneRunAtATime /\ Http!UploadsLeaveNothing
(* Commands, the wait for the vLLM child and the calls that pass through it  *)
(* end, and health checks are answered while the text model runs.            *)
Running == \/ part = "native" /\ Native!CommandRuns
           \/ part = "text" /\ Text!StartupRuns
ServicesProgress ==
  /\ Running ~> ~Running
  /\ Text!EveryTextCallEnds
  /\ Http!HealthWhileBusy

-----------------------------------------------------------------------------
(* Theorems about the parts, each about the part's own specification and    *)
(* for every value of the constants that ServicesAssumption admits: any     *)
(* number of services, process ids, crashes of the manager, runs and kills  *)
(* of cf-text, calls, models and requests.                                  *)

(* A smaller set, or the same one with one more element. *)
LEMMA FewerOrOneMore ==
  ASSUME NEW S, NEW T, NEW x, IsFiniteSet(T), S \subseteq T \cup {x}
  PROVE  /\ Cardinality(S) \in Nat /\ Cardinality(T) \in Nat
         /\ Cardinality(S) <= Cardinality(T) + 1
         /\ S \subseteq T => Cardinality(S) <= Cardinality(T)
<1>1. IsFiniteSet(T \cup {x}) /\ Cardinality(T \cup {x}) \in Nat /\ Cardinality(T) \in Nat
  BY FS_AddElement, FS_CardinalityType
<1>2. Cardinality(T \cup {x}) <= Cardinality(T) + 1
  BY <1>1, FS_AddElement
<1>3. Cardinality(S) \in Nat /\ Cardinality(S) <= Cardinality(T \cup {x})
  BY <1>1, FS_Subset, FS_CardinalityType
<1>4. S \subseteq T => Cardinality(S) <= Cardinality(T)
  BY FS_Subset
<1> QED
  BY <1>1, <1>2, <1>3, <1>4

-----------------------------------------------------------------------------
(* The native manager: a stopped service is gone.                          *)
LEMMA NativeCardinality == \A S : Native!Cardinality(S) = Cardinality(S)
BY DEF Native!Cardinality, Cardinality

(* The process a command has started or is stopping; besides it, and beside *)
(* what a PID file names, a service runs where a killed command left it.    *)
Starting == nativePc \in {"open", "write"}
Stopping == nativePc \in {"term", "wait", "force"}
Strays(s) ==
  Native!Instances(s) \ (IF s # svc \/ Stopping \/ nativePc = "idle" THEN {pidfile[s]}
                         ELSE IF Starting THEN {pid} ELSE {})
NativeIInv ==
  /\ Native!TypeOK
  /\ Stopping => pidfile[svc] = pid
  /\ \A s \in Services : Cardinality(Strays(s)) <= crashes

LEMMA NativeInitOK == Native!Init => NativeIInv
<1> SUFFICES ASSUME Native!Init PROVE NativeIInv
  OBVIOUS
<1>1. \A s \in Services : Strays(s) = {}
  BY ServicesAssumption DEF Native!Init, Native!ConstantsOK, Strays, Native!Instances
<1>2. \A s \in Services : Cardinality(Strays(s)) = 0
  BY <1>1, FS_EmptySet
<1>3. MaxCrashes \in Nat
  BY ServicesAssumption DEF Native!ConstantsOK
<1> QED
  BY <1>2, <1>3 DEF Native!Init, NativeIInv, Native!TypeOK, Stopping

LEMMA NativeFacts ==
  ASSUME NativeIInv
  PROVE  /\ procs \in [Pids -> Services \cup {"free", "other"}]
         /\ pidfile \in [Services -> Pids \cup {"none", "torn"}]
         /\ svc \in Services /\ pid \in Pids /\ crashes \in Nat
         /\ "free" \notin Services /\ "other" \notin Services /\ "none" \notin Pids /\ "torn" \notin Pids
         /\ IsFiniteSet(Pids)
<1>1. MaxCrashes \in Nat /\ \A S : Native!IsFiniteSet(S) = IsFiniteSet(S)
  BY ServicesAssumption DEF Native!ConstantsOK, Native!IsFiniteSet, IsFiniteSet
<1> QED
  BY <1>1, ServicesAssumption DEF NativeIInv, Native!TypeOK, Native!ConstantsOK

(* A step keeps the bound where it makes no stray, and one more needs a crash. *)
LEMMA StraysBounded ==
  ASSUME NativeIInv, NEW s \in Services, NEW x, crashes' \in Nat,
         \/ Strays(s)' \subseteq Strays(s) /\ crashes' >= crashes
         \/ Strays(s)' \subseteq Strays(s) \cup {x} /\ crashes' = crashes + 1
  PROVE  Cardinality(Strays(s)') <= crashes'
<1>1. IsFiniteSet(Strays(s)) /\ crashes \in Nat /\ Cardinality(Strays(s)) <= crashes
  BY NativeFacts, FS_Subset DEF Strays, Native!Instances, NativeIInv
<1>2. Strays(s)' \subseteq Strays(s) \cup {x}
  OBVIOUS
<1>3. /\ Cardinality(Strays(s)') \in Nat /\ Cardinality(Strays(s)) \in Nat
      /\ Cardinality(Strays(s)') <= Cardinality(Strays(s)) + 1
      /\ Strays(s)' \subseteq Strays(s) => Cardinality(Strays(s)') <= Cardinality(Strays(s))
  BY <1>1, <1>2, FewerOrOneMore
<1> QED
  BY <1>1, <1>3

LEMMA NativeStep == NativeIInv /\ [Native!Next]_(Native!vars) => NativeIInv'
<1> SUFFICES ASSUME NativeIInv, [Native!Next]_(Native!vars) PROVE NativeIInv'
  OBVIOUS
<1> USE NativeFacts
<1>0. Native!TypeOK
  BY DEF NativeIInv
<1> SUFFICES /\ Native!TypeOK' /\ (Stopping => pidfile[svc] = pid)'
             /\ \A s \in Services : \/ Strays(s)' \subseteq Strays(s) /\ crashes' >= crashes
                                    \/ /\ Strays(s)' \subseteq Strays(s) \cup {pid}
                                       /\ crashes' = crashes + 1
  <2>1. crashes' \in Nat
    BY ServicesAssumption DEF Native!TypeOK, Native!ConstantsOK
  <2> QED
    BY <2>1, StraysBounded DEF NativeIInv
<1> USE DEF Strays, Starting, Stopping, Native!Instances
<1>1. CASE \E s \in Services : Native!Start(s) \/ Native!Stop(s)
  BY <1>0, <1>1 DEF NativeIInv, Native!TypeOK, Native!Start, Native!Stop, Native!IsRunning, Native!Alive
<1>2. CASE Native!Spawn
  BY <1>0, <1>2 DEF Native!TypeOK, Native!Spawn
<1>3. CASE Native!SpawnRaises \/ Native!TruncatePid \/ Native!WritePid
  BY <1>0, <1>3 DEF Native!TypeOK, Native!SpawnRaises, Native!TruncatePid, Native!WritePid
<1>4. CASE Native!Terminate
  BY <1>0, <1>4 DEF NativeIInv, Native!TypeOK, Native!Terminate, Native!Alive
<1>5. CASE Native!Wait
  BY <1>0, <1>5 DEF NativeIInv, Native!TypeOK, Native!Wait, Native!Alive
<1>6. CASE Native!Force
  BY <1>0, <1>6 DEF NativeIInv, Native!TypeOK, Native!Force
<1>7. CASE Native!Unlink
  BY <1>0, <1>7 DEF Native!TypeOK, Native!Unlink
<1>8. CASE Native!Crash
  BY <1>0, <1>8, ServicesAssumption DEF Native!TypeOK, Native!Crash, Native!ConstantsOK
<1>9. CASE \E p \in Pids : Native!Die(p) \/ Native!Recycle(p)
  BY <1>0, <1>9 DEF NativeIInv, Native!TypeOK, Native!Die, Native!Recycle
<1>10. CASE UNCHANGED Native!vars
  BY <1>0, <1>10 DEF NativeIInv, Native!TypeOK, Native!vars
<1> QED
  BY <1>1, <1>2, <1>3, <1>4, <1>5, <1>6, <1>7, <1>8, <1>9, <1>10 DEF Native!Next, Native!Step

(* manage/native_mode.py, stop(): when a stop, or a restart's stop, has      *)
(* removed the pid file, the service does not run, whether or not it obeyed  *)
(* SIGTERM and whoever has its PID now; the instances that a killed start    *)
(* left unrecorded are all that may be left of it.                           *)
THEOREM StopStops == Native!Spec => StoppedMeansGone
<1>1. NativeIInv /\ nativePc = "unlink" => Native!Cardinality(Native!Instances(svc)) <= crashes
  <2> SUFFICES ASSUME NativeIInv, nativePc = "unlink"
               PROVE  Native!Cardinality(Native!Instances(svc)) <= crashes
    OBVIOUS
  <2>1. Strays(svc) = Native!Instances(svc) /\ svc \in Services
    BY NativeFacts DEF Strays, Starting, Stopping
  <2> QED
    BY <2>1, NativeCardinality DEF NativeIInv
<1>2. NativeIInv /\ [Native!Next]_(Native!vars) =>
        [nativePc = "unlink" /\ pidfile'[svc] = "none" /\ crashes' = crashes
          => Native!Cardinality(Native!Instances(svc)) <= crashes]_(Native!vars)
  BY <1>1
<1> QED
  BY <1>2, NativeInitOK, NativeStep, PTL DEF Native!Spec, StoppedMeansGone, Native!StoppedMeansGone

LEMMA NativeIsBounded == NativeIInv => Native!InstancesBounded
<1> SUFFICES ASSUME NativeIInv, NEW s \in Services
             PROVE  Native!Cardinality(Native!Instances(s)) <= 1 + crashes
  BY DEF Native!InstancesBounded
<1>1. IsFiniteSet(Strays(s)) /\ Cardinality(Strays(s)) <= crashes /\ crashes \in Nat
  BY NativeFacts, FS_Subset DEF Strays, Native!Instances, NativeIInv
<1>2. \E x : Native!Instances(s) \subseteq Strays(s) \cup {x}
  <2>1. CASE s # svc \/ Stopping \/ nativePc = "idle"
    <3>1. Native!Instances(s) \subseteq Strays(s) \cup {pidfile[s]}
      BY <2>1 DEF Strays
    <3> QED
      BY <3>1
  <2>2. CASE ~(s # svc \/ Stopping \/ nativePc = "idle")
    <3>1. Native!Instances(s) \subseteq Strays(s) \cup {pid}
      BY <2>2 DEF Strays
    <3> QED
      BY <3>1
  <2> QED
    BY <2>1, <2>2
<1>3. PICK x : Native!Instances(s) \subseteq Strays(s) \cup {x}
  BY <1>2
<1>4. /\ Cardinality(Native!Instances(s)) \in Nat /\ Cardinality(Strays(s)) \in Nat
      /\ Cardinality(Native!Instances(s)) <= Cardinality(Strays(s)) + 1
  BY <1>1, <1>3, FewerOrOneMore
<1> QED
  BY <1>1, <1>4, NativeCardinality

(* manage/native_mode.py: a service runs once, but for instances that a      *)
(* killed command left, whatever PIDs are reused.                            *)
THEOREM ServicesRunOnce == Native!Spec => []Native!InstancesBounded
BY NativeInitOK, NativeStep, NativeIsBounded, PTL DEF Native!Spec

-----------------------------------------------------------------------------
(* cf-text over its vLLM child.                                            *)
LEMMA TextCardinality == \A S : Text!Cardinality(S) = Cardinality(S)
BY DEF Text!Cardinality, Cardinality

Orphans == {r \in Text!Runs : Text!Live(r) /\ (r < textRun \/ text = "off")}

SupervisorTypeOK ==
  /\ textRun \in 0 .. MaxRuns
  /\ text \in {"off", "spawn", "poll", "probe", "serving", "atexit"}
  /\ child \in [1 .. MaxRuns -> {"none", "loading", "up", "exited"}]
  /\ bound \in 0 .. MaxRuns
  /\ kills \in Nat

(* Later runs have no child yet, and who holds the port lives. *)
SupervisorIInv ==
  /\ SupervisorTypeOK
  /\ text # "off" => textRun # 0
  /\ text = "spawn" => child[textRun] = "none"
  /\ \A r \in 1 .. MaxRuns : r > textRun => child[r] = "none"
  /\ bound # 0 => child[bound] = "up"
  /\ Cardinality(Orphans) <= kills

(* A call in flight is in the hands of a run that serves, and one that was  *)
(* sent went to a child of its model.                                       *)
CallOK(c) ==
  /\ callPc[c] # "idle" => host[c] \in 1 .. MaxRuns
  /\ callPc[c] = "idle" => host[c] = 0
  /\ callPc[c] \in {"accepted", "sent"} => Text!Alive(c) \/ kills > 0
  /\ callPc[c] \in {"sent", "answered"} =>
       model[server[c]] = model[host[c]] /\ (server[c] # host[c] => kills > 0)
  /\ callPc[c] = "lost" => kills > 0

TextIInv ==
  /\ SupervisorIInv
  /\ callPc \in [Calls -> {"idle", "accepted", "sent", "answered", "failed", "lost"}]
  /\ host \in [Calls -> 0 .. MaxRuns] /\ server \in [Calls -> 0 .. MaxRuns]
  /\ \A c \in Calls : CallOK(c)

LEMMA TextConstants ==
  MaxRuns \in Nat \ {0} /\ MaxKills \in Nat /\ Text!Runs = 1 .. MaxRuns /\ Text!NoRun = 0
BY ServicesAssumption DEF Text!ConstantsOK, Text!Runs, Text!NoRun

LEMMA TextInitOK == Text!Init => TextIInv
<1> SUFFICES ASSUME Text!Init PROVE TextIInv
  OBVIOUS
<1>1. Orphans = {}
  BY TextConstants DEF Text!Init, Orphans, Text!Live
<1>2. Cardinality(Orphans) = 0
  BY <1>1, FS_EmptySet
<1> QED
  BY <1>2, TextConstants DEF Text!Init, TextIInv, SupervisorIInv, SupervisorTypeOK, CallOK

LEMMA OrphansBounded ==
  ASSUME SupervisorIInv, kills' \in Nat,
         \/ Orphans' \subseteq Orphans /\ kills' = kills
         \/ Orphans' \subseteq Orphans \cup {textRun} /\ kills' = kills + 1
  PROVE  Cardinality(Orphans') <= kills'
<1>1. IsFiniteSet(Text!Runs)
  BY TextConstants, FS_Interval
<1>2. IsFiniteSet(Orphans) /\ Cardinality(Orphans) <= kills /\ kills \in Nat
  BY <1>1, FS_Subset DEF Orphans, SupervisorIInv, SupervisorTypeOK
<1>3. Orphans' \subseteq Orphans \cup {textRun}
  OBVIOUS
<1>4. /\ Cardinality(Orphans') \in Nat /\ Cardinality(Orphans) \in Nat
      /\ Cardinality(Orphans') <= Cardinality(Orphans) + 1
      /\ Orphans' \subseteq Orphans => Cardinality(Orphans') <= Cardinality(Orphans)
  BY <1>2, <1>3, FewerOrOneMore
<1> QED
  BY <1>2, <1>4

LEMMA SupervisorStep ==
  ASSUME SupervisorIInv,
         \/ Text!Start \/ Text!Supervise \/ Text!Stop \/ Text!Killed
         \/ \E r \in Text!Runs : Text!ChildListens(r) \/ Text!ChildDies(r)
  PROVE  /\ SupervisorIInv' /\ kills' >= kills
         /\ text = "serving" /\ text' # "serving" => kills' > 0 \/ Text!Stop
         /\ text = "serving" => textRun' = textRun
<1> USE TextConstants
<1> SUFFICES
      /\ SupervisorTypeOK'
      /\ text' # "off" => textRun' # 0
      /\ text' = "spawn" => child'[textRun'] = "none"
      /\ \A r \in 1 .. MaxRuns : r > textRun' => child'[r] = "none"
      /\ bound' # 0 => child'[bound'] = "up"
      /\ \/ Orphans' \subseteq Orphans /\ kills' = kills
         \/ Orphans' \subseteq Orphans \cup {textRun} /\ kills' = kills + 1
      /\ text = "serving" /\ text' # "serving" => kills' > 0 \/ Text!Stop
      /\ text = "serving" => textRun' = textRun
  BY OrphansBounded DEF SupervisorIInv, SupervisorTypeOK
<1> USE DEF SupervisorIInv, SupervisorTypeOK, Orphans, Text!Live
<1>1. CASE Text!Start
  BY <1>1 DEF Text!Start
<1>2. CASE Text!Spawn
  <2>1. textRun \in 1 .. MaxRuns /\ UNCHANGED <<textRun, bound, kills>> /\ text = "spawn"
    BY <1>2 DEF Text!Spawn
  <2>2. CASE child' = [child EXCEPT ![textRun] = "loading"] /\ text' = "poll"
    <3>1. \A r \in 1 .. MaxRuns : r # textRun => child'[r] = child[r]
      BY <2>2
    <3>2. child' \in [1 .. MaxRuns -> {"none", "loading", "up", "exited"}] /\ child'[textRun] = "loading"
      BY <2>1, <2>2
    <3>3. bound' # 0 => child'[bound'] = "up"
      BY <2>1, <3>1
    <3>4. Orphans' \subseteq Orphans
      BY <2>1, <2>2, <3>1
    <3>5. \A r \in 1 .. MaxRuns : r > textRun' => child'[r] = "none"
      BY <2>1, <3>1
    <3> QED
      BY <2>1, <2>2, <3>2, <3>3, <3>4, <3>5
  <2>3. CASE text' = "atexit" /\ UNCHANGED child
    BY <2>1, <2>3
  <2> QED
    BY <1>2, <2>2, <2>3 DEF Text!Spawn
<1>3. CASE Text!Poll \/ Text!Probe
  BY <1>3 DEF Text!Poll, Text!Probe
<1>4. CASE Text!Stop
  BY <1>4 DEF Text!Stop
<1>5. CASE Text!AtExit
  BY <1>5 DEF Text!AtExit, Text!ChildExits
<1>6. CASE Text!Killed
  BY <1>6 DEF Text!Killed
<1>7. CASE \E r \in Text!Runs : Text!ChildListens(r)
  BY <1>7 DEF Text!ChildListens
<1>8. CASE \E r \in Text!Runs : Text!ChildDies(r)
  BY <1>8 DEF Text!ChildDies, Text!ChildExits
<1> QED
  BY <1>1, <1>2, <1>3, <1>4, <1>5, <1>6, <1>7, <1>8 DEF Text!Supervise

(* While no run was killed, the port is the current run's child's. *)
LEMMA OwnChildListens ==
  ASSUME SupervisorIInv, kills = 0, text # "off", bound # 0
  PROVE  bound = textRun
<1>1. IsFiniteSet(Text!Runs)
  BY TextConstants, FS_Interval
<1>2. IsFiniteSet(Orphans) /\ Cardinality(Orphans) \in Nat
  BY <1>1, FS_Subset, FS_CardinalityType DEF Orphans
<1>3. Orphans = {}
  BY <1>2, FS_EmptySet DEF SupervisorIInv
<1>4. bound \in Text!Runs /\ Text!Live(bound) /\ bound <= textRun
  BY TextConstants DEF SupervisorIInv, SupervisorTypeOK, Text!Live
<1> QED
  BY <1>3, <1>4, TextConstants DEF Orphans, SupervisorIInv, SupervisorTypeOK

LEMMA CallStep ==
  ASSUME TextIInv, NEW c \in Calls, Text!Accept(c) \/ Text!Call(c)
  PROVE  TextIInv'
<1> USE DEF TextIInv
<1>1. UNCHANGED <<textRun, text, child, bound, answered, kills, model>>
  BY DEF Text!Accept, Text!Call, Text!Send, Text!Respond, Text!Lose, Text!supervisorVars
<1>2. SupervisorIInv'
  BY <1>1 DEF SupervisorIInv, SupervisorTypeOK, Orphans, Text!Live
<1>3. kills \in Nat /\ textRun \in 0 .. MaxRuns /\ bound \in 0 .. MaxRuns
  BY DEF SupervisorIInv, SupervisorTypeOK
<1>4. /\ callPc' \in [Calls -> {"idle", "accepted", "sent", "answered", "failed", "lost"}]
      /\ host' \in [Calls -> 0 .. MaxRuns] /\ server' \in [Calls -> 0 .. MaxRuns]
  BY <1>3, TextConstants DEF Text!Accept, Text!Call, Text!Send, Text!Respond, Text!Lose
<1>5. ASSUME NEW d \in Calls \ {c} PROVE CallOK(d)'
  <2>1. callPc'[d] = callPc[d] /\ host'[d] = host[d] /\ server'[d] = server[d]
    BY DEF Text!Accept, Text!Call, Text!Send, Text!Respond, Text!Lose
  <2> QED
    BY <1>1, <2>1 DEF CallOK, Text!Alive
<1>6. CallOK(c)'
  <2>1. CASE Text!Accept(c)
    <3>1. textRun \in 1 .. MaxRuns
      BY <1>3, <2>1 DEF Text!Accept, SupervisorIInv
    <3> QED
      BY <1>1, <2>1, <3>1 DEF Text!Accept, CallOK, Text!Alive
  <2>2. CASE Text!Send(c)
    <3>1. CASE bound # 0 /\ callPc' = [callPc EXCEPT ![c] = "sent"]
               /\ server' = [server EXCEPT ![c] = bound] /\ Text!ServesModel(c)
      <4>1. text = "serving" /\ textRun = host[c]
        BY <2>2 DEF Text!Send, Text!Alive
      <4>2. bound # host[c] => kills > 0
        BY <1>3, <3>1, <4>1, OwnChildListens
      <4> QED
        BY <1>1, <2>2, <3>1, <4>1, <4>2, TextConstants DEF Text!Send, CallOK, Text!Alive, Text!ServesModel
    <3>2. CASE callPc' = [callPc EXCEPT ![c] = "failed"] /\ UNCHANGED server
      BY <1>1, <2>2, <3>2 DEF Text!Send, CallOK, Text!Alive
    <3> QED
      BY <2>2, <3>1, <3>2, TextConstants DEF Text!Send
  <2>3. CASE Text!Respond(c)
    BY <1>1, <2>3 DEF Text!Respond, CallOK, Text!Alive
  <2>4. CASE Text!Lose(c)
    BY <1>1, <2>4 DEF Text!Lose, Text!InFlight, CallOK, Text!Alive
  <2> QED
    BY <2>1, <2>2, <2>3, <2>4 DEF Text!Call
<1> QED
  BY <1>2, <1>4, <1>5, <1>6

LEMMA TextStep == TextIInv /\ [Text!Next]_(Text!vars) => TextIInv'
<1> SUFFICES ASSUME TextIInv, [Text!Next]_(Text!vars) PROVE TextIInv'
  OBVIOUS
<1>1. CASE /\ \/ Text!Start \/ Text!Supervise \/ Text!Stop \/ Text!Killed
              \/ \E r \in Text!Runs : Text!ChildListens(r) \/ Text!ChildDies(r)
           /\ UNCHANGED <<model, Text!callVars>>
  <2>1. /\ SupervisorIInv' /\ kills' >= kills
        /\ text = "serving" /\ text' # "serving" => kills' > 0 \/ Text!Stop
        /\ text = "serving" => textRun' = textRun
    BY <1>1, SupervisorStep DEF TextIInv
  <2>2. UNCHANGED <<model, callPc, host, server>>
    BY <1>1 DEF Text!callVars
  <2>3. kills \in Nat /\ kills' \in Nat
    BY <2>1 DEF TextIInv, SupervisorIInv, SupervisorTypeOK
  <2>4. ASSUME NEW c \in Calls, callPc[c] \in {"accepted", "sent"} PROVE Text!Alive(c)' \/ kills' > 0
    <3>1. CASE Text!Alive(c)
      <4>1. ~Text!Stop
        BY <2>4, <3>1 DEF Text!Stop, Text!InFlight
      <4> QED
        BY <2>1, <2>2, <3>1, <4>1 DEF Text!Alive
    <3>2. CASE kills > 0
      BY <2>1, <2>3, <3>2
    <3> QED
      BY <2>4, <3>1, <3>2 DEF TextIInv, CallOK
  <2>5. ASSUME NEW c \in Calls PROVE CallOK(c)'
    BY <2>1, <2>2, <2>3, <2>4 DEF TextIInv, CallOK
  <2> QED
    BY <2>1, <2>2, <2>5 DEF TextIInv
<1>2. CASE \E c \in Calls : Text!Accept(c) \/ Text!Call(c)
  BY <1>2, CallStep
<1>3. CASE UNCHANGED Text!vars
  BY <1>3 DEF Text!vars, Text!supervisorVars, Text!callVars, TextIInv, SupervisorIInv, SupervisorTypeOK,
     Orphans, Text!Live, CallOK, Text!Alive
<1> QED
  BY <1>1, <1>2, <1>3 DEF Text!Next

(* text/backends/vllm_subprocess.py: a vLLM child outlives its run of        *)
(* cf-text only when that run was killed; a run that ends by itself, however *)
(* it ends, leaves none.                                                     *)
THEOREM KillsLeaveOrphans == Text!Spec => []OrphansOnlyFromKills
<1>1. TextIInv => OrphansOnlyFromKills
  BY TextCardinality DEF TextIInv, SupervisorIInv, Orphans, OrphansOnlyFromKills, Text!OrphansOnlyFromKills
<1> QED
  BY <1>1, TextInitOK, TextStep, PTL DEF Text!Spec

(* text/backends/vllm.py over the supervised child: a call's answer is from  *)
(* a server of the model that its cf-text was started with; it is from the   *)
(* child of an earlier run, or the call is lost, only if a run was killed.   *)
THEOREM AnswersAreOfTheModel == Text!Spec => []AnsweredByItsModel
<1>1. TextIInv => AnsweredByItsModel
  BY DEF TextIInv, CallOK, AnsweredByItsModel, Text!AnsweredByItsModel
<1> QED
  BY <1>1, TextInitOK, TextStep, PTL DEF Text!Spec

-----------------------------------------------------------------------------
(* The choice between native mode and Docker.                              *)
(* As long as no command had a --mode, `docker info` was in time and docker *)
(* and the compose file stayed as they were, they alone say where products  *)
(* run.                                                                     *)
Composed == docker /\ compose
ManageIInv ==
  /\ docker \in BOOLEAN /\ compose \in BOOLEAN /\ steady \in BOOLEAN
  /\ containers \in [Services -> {"none", "stopped", "running"}]
  /\ cmd # Manage!NoCommand /\ steady => manager = IF Composed THEN "docker" ELSE "native"
  /\ steady /\ Composed => natives = {}
  /\ steady /\ ~Composed => \A s \in Services : containers[s] # "running"

LEMMA ManageInitOK == Manage!Init => ManageIInv
BY DEF Manage!Init, ManageIInv

LEMMA ManageStep == ManageIInv /\ [Manage!Next]_(Manage!vars) => ManageIInv'
<1> SUFFICES ASSUME ManageIInv, [Manage!Next]_(Manage!vars) PROVE ManageIInv'
  OBVIOUS
<1> USE DEF ManageIInv, Composed
<1>1. CASE Manage!Command
  <2>1. PICK mode \in {"auto", "docker", "native"}, slow \in BOOLEAN :
          /\ manager' = Manage!Resolved(mode, slow)
          /\ steady' = (steady /\ mode = "auto" /\ ~slow)
    BY <1>1 DEF Manage!Command
  <2>2. UNCHANGED <<docker, compose, containers, natives>>
    BY <1>1 DEF Manage!Command, Manage!machine
  <2>3. steady' => steady /\ manager' = IF docker /\ compose THEN "docker" ELSE "native"
    BY <2>1 DEF Manage!Resolved, Manage!DockerAvailable
  <2>4. steady' \in BOOLEAN
    BY <2>1
  <2> QED
    BY <2>2, <2>3, <2>4
<1>2. CASE Manage!ComposeUp \/ Manage!ComposeStop \/ Manage!ComposeRestart \/ Manage!ComposeOther
  <2>1. /\ cmd # Manage!NoCommand /\ manager = "docker"
        /\ cmd' = Manage!NoCommand /\ UNCHANGED <<docker, compose, steady, natives>>
    BY <1>2 DEF Manage!ComposeUp, Manage!ComposeStop, Manage!ComposeRestart, Manage!ComposeOther,
       Manage!Via, Manage!Done, Manage!NoCommand, Manage!machine
  <2>2. containers' \in [Services -> {"none", "stopped", "running"}]
    BY <1>2 DEF Manage!ComposeUp, Manage!ComposeStop, Manage!ComposeRestart, Manage!ComposeOther,
       Manage!Set
  <2> QED
    BY <2>1, <2>2
<1>3. CASE Manage!NativeStart \/ Manage!NativeStop \/ Manage!NativeRestart \/ Manage!NativeOther
  <2>1. /\ cmd # Manage!NoCommand /\ manager = "native"
        /\ cmd' = Manage!NoCommand /\ UNCHANGED <<docker, compose, steady, containers>>
    BY <1>3 DEF Manage!NativeStart, Manage!NativeStop, Manage!NativeRestart, Manage!NativeOther,
       Manage!Via, Manage!Done, Manage!NoCommand, Manage!machine
  <2> QED
    BY <2>1
<1>4. CASE Manage!Daemon
  BY <1>4 DEF Manage!Daemon
<1>5. CASE Manage!Exit
  <2>1. UNCHANGED <<docker, compose, steady, cmd, manager>>
    BY <1>5 DEF Manage!Exit, Manage!machine
  <2>2. PICK s \in Services :
           \/ Manage!Set({s}, "stopped") /\ UNCHANGED natives
           \/ natives' = natives \ {s} /\ UNCHANGED containers
    BY <1>5 DEF Manage!Exit
  <2> QED
    BY <2>1, <2>2 DEF Manage!Set
<1>6. CASE Manage!Install
  <2>1. steady' = (steady /\ UNCHANGED <<docker, compose>>) /\ UNCHANGED <<cmd, manager, containers, natives>>
    BY <1>6 DEF Manage!Install
  <2>2. docker' \in BOOLEAN /\ compose' \in BOOLEAN
    BY <1>6 DEF Manage!Install
  <2>3. steady' \in BOOLEAN /\ (steady' => steady /\ docker' = docker /\ compose' = compose)
    BY <2>1
  <2> QED
    BY <2>1, <2>2, <2>3
<1>7. CASE UNCHANGED Manage!vars
  BY <1>7 DEF Manage!vars
<1> QED
  BY <1>1, <1>2, <1>3, <1>4, <1>5, <1>6, <1>7 DEF Manage!Next

(* manage/cli.py chooses between Docker and native mode by what it finds at  *)
(* each command: commands without a --mode never run a product in both,      *)
(* whenever the daemon comes and goes or the compose plugin is installed.    *)
THEOREM NeverBothRuntimes == Manage!Spec => []OneRuntime
<1>1. ManageIInv => OneRuntime
  BY DEF ManageIInv, OneRuntime, Manage!OneRuntime
<1> QED
  BY <1>1, ManageInitOK, ManageStep, PTL DEF Manage!Spec

-----------------------------------------------------------------------------
(* The requests of a model service. Of the services' handlers only this      *)
(* matters: a `def` handler checks nothing, and where a service runs its     *)
(* model once at a time every handler with a model runs it on the loop.      *)
Single == {"siglip", "vlm", "stt", "tts", "musicgen"}
HandlerOK(s, h) ==
  /\ DOMAIN h.checks = 1 .. Len(h.checks) /\ Len(h.checks) \in Nat
  /\ h.def \in {"def", "async"} /\ h.run \in {"none", "here", "executor"}
  /\ h.def = "def" => h.checks = <<>>
  /\ s \in Single /\ h.run # "none" => h.def = "async" /\ h.run = "here"

LEMMA HandlersOK ==
  \A s \in DOMAIN Http!Handlers : \A e \in DOMAIN Http!Handlers[s] : HandlerOK(s, Http!Handlers[s][e])
<1> USE DEF HandlerOK, Single, Http!Def, Http!Async, Http!SyncHealth, Http!AsyncHealth, Http!TextRun
<1>1. \A e \in DOMAIN Http!TextHandlers :
        HandlerOK("text", Http!TextHandlers[e]) /\ HandlerOK("classifier", Http!TextHandlers[e])
  BY DEF Http!TextHandlers
<1>2. \A e \in DOMAIN Http!VisionHandlers :
        HandlerOK("siglip", Http!VisionHandlers[e]) /\ HandlerOK("vlm", Http!VisionHandlers[e])
  BY DEF Http!VisionHandlers
<1>3. \A e \in DOMAIN Http!SttHandlers : HandlerOK("stt", Http!SttHandlers[e])
  BY DEF Http!SttHandlers
<1>4. \A e \in DOMAIN Http!TtsHandlers : HandlerOK("tts", Http!TtsHandlers[e])
  BY DEF Http!TtsHandlers
<1>5. \A e \in DOMAIN Http!MusicgenHandlers : HandlerOK("musicgen", Http!MusicgenHandlers[e])
  BY DEF Http!MusicgenHandlers
<1>6. \A e \in DOMAIN Http!VideoHandlers : HandlerOK("video", Http!VideoHandlers[e])
  BY DEF Http!VideoHandlers
<1>7. \A e \in DOMAIN Http!RerankHandlers : HandlerOK("reranker", Http!RerankHandlers[e])
  BY DEF Http!RerankHandlers
<1> HIDE DEF HandlerOK
<1> QED
  BY <1>1, <1>2, <1>3, <1>4, <1>5, <1>6, <1>7 DEF Http!Handlers

(* What can be wrong with a request, or missing in its service.              *)
Faults == {"empty", "labels", "blank", "range", "absent", "filterOnly", "textOnly", "noEmbed", "noCaption"}

LEMMA LacksAreFaults == \A s \in DOMAIN Http!Handlers : Http!Lacks[s] \subseteq Faults
BY DEF Http!Handlers, Http!Lacks, Faults

Faultless(r) == Http!Failed(r, DOMAIN Http!H(r).checks) = {}
RequestOK(r) ==
  /\ faults[r] \subseteq Faults
  /\ pc[r] = "reading" => Http!Awaits(r) /\ Http!Failed(r, Http!BeforeAwait(r)) = {}
  /\ pc[r] = "queued" => Http!H(r).def = "def" \/ Http!H(r).run = "executor"
  /\ pc[r] \in {"queued", "running"} => Faultless(r)
  /\ pc[r] = "running" =>
       Http!H(r).run # "none" /\ (Http!H(r).def = "async" /\ Http!H(r).run = "here" => loop = r)
  /\ r \in files => pc[r] = "running"

HttpIInv ==
  /\ service \in DOMAIN Http!Handlers
  /\ endpoint \in [Requests -> DOMAIN Http!Handlers[service]]
  /\ DOMAIN pc = Requests /\ DOMAIN faults = Requests /\ files \subseteq Requests
  /\ \A r \in Requests : RequestOK(r)

LEMMA HttpInitOK == Http!Init => HttpIInv
BY DEF Http!Init, HttpIInv, RequestOK

LEMMA HttpFacts ==
  ASSUME HttpIInv, NEW r \in Requests
  PROVE  HandlerOK(service, Http!H(r)) /\ Nobody \notin Requests
BY HandlersOK, ServicesAssumption DEF HttpIInv, Http!H, Http!ConstantsOK

(* A step of r leaves the other requests alone.                              *)
LEMMA OneRequest ==
  ASSUME HttpIInv, NEW r \in Requests, RequestOK(r)',
         UNCHANGED <<service, endpoint>>, DOMAIN pc' = Requests, DOMAIN faults' = Requests,
         files' \subseteq files \cup {r},
         \A q \in Requests \ {r} : pc'[q] = pc[q] /\ faults'[q] = faults[q],
         \A q \in Requests \ {r} : loop = q => loop' = q
  PROVE  HttpIInv'
<1>1. ASSUME NEW q \in Requests \ {r} PROVE RequestOK(q)'
  <2>1. Http!H(q)' = Http!H(q)
    BY DEF Http!H
  <2>2. /\ Http!Awaits(q)' = Http!Awaits(q) /\ Http!BeforeAwait(q)' = Http!BeforeAwait(q)
    BY <2>1 DEF Http!Awaits, Http!BeforeAwait, Http!AwaitAt
  <2>3. /\ Http!Failed(q, Http!BeforeAwait(q))' = Http!Failed(q, Http!BeforeAwait(q))
        /\ Faultless(q)' = Faultless(q)
    BY <2>1, <2>2 DEF Http!Failed, Faultless
  <2>4. RequestOK(q) /\ pc'[q] = pc[q] /\ faults'[q] = faults[q] /\ (loop = q => loop' = q)
        /\ (q \in files' => q \in files)
    BY DEF HttpIInv
  <2> QED
    BY <2>1, <2>2, <2>3, <2>4 DEF RequestOK
<1> QED
  BY <1>1 DEF HttpIInv

(* The handler of r after its last await.                                    *)
LEMMA GoesOn ==
  ASSUME HttpIInv, NEW r \in Requests, NEW checks, loop = Nobody, pc[r] # "running",
         Http!Go(r, checks), UNCHANGED <<service, endpoint, faults>>,
         Http!H(r).def = "async",
         Http!Failed(r, checks) = {} => Faultless(r)
  PROVE  HttpIInv'
<1>1. HandlerOK(service, Http!H(r)) /\ Nobody \notin Requests /\ RequestOK(r) /\ r \notin files
  BY HttpFacts DEF HttpIInv, RequestOK
<1>2. Http!H(r)' = Http!H(r) /\ (Faultless(r)' <=> Faultless(r))
  BY DEF Http!H, Faultless, Http!Failed
<1>3. CASE \E code : Http!Answer(r, code) /\ UNCHANGED <<loop, files>>
  <2>1. /\ DOMAIN pc' = Requests /\ pc'[r] = "answered" /\ \A q \in Requests \ {r} : pc'[q] = pc[q]
        /\ UNCHANGED <<loop, files>>
    BY <1>3 DEF Http!Answer, HttpIInv
  <2>2. RequestOK(r)'
    BY <1>1, <1>2, <2>1 DEF RequestOK
  <2> QED
    BY <2>1, <2>2, OneRequest DEF HttpIInv
<1>4. CASE /\ Http!Failed(r, checks) = {} /\ Http!H(r).run = "executor"
           /\ pc' = [pc EXCEPT ![r] = "queued"] /\ UNCHANGED <<loop, status, files>>
  <2>1. DOMAIN pc' = Requests /\ pc'[r] = "queued" /\ \A q \in Requests \ {r} : pc'[q] = pc[q]
    BY <1>4 DEF HttpIInv
  <2>2. RequestOK(r)'
    BY <1>1, <1>2, <1>4, <2>1 DEF RequestOK
  <2> QED
    BY <1>4, <2>1, <2>2, OneRequest DEF HttpIInv
<1>5. CASE /\ Http!Failed(r, checks) = {} /\ Http!H(r).run = "here"
           /\ pc' = [pc EXCEPT ![r] = "running"]
           /\ loop' = r
           /\ files' = IF endpoint[r] = "upload" THEN files \cup {r} ELSE files
           /\ UNCHANGED status
  <2>1. DOMAIN pc' = Requests /\ pc'[r] = "running" /\ \A q \in Requests \ {r} : pc'[q] = pc[q]
    BY <1>5 DEF HttpIInv
  <2>2. RequestOK(r)'
    BY <1>1, <1>2, <1>5, <2>1 DEF RequestOK
  <2>3. files' \subseteq files \cup {r} /\ \A q \in Requests \ {r} : loop # q
    BY <1>1, <1>5
  <2> QED
    BY <1>5, <2>1, <2>2, <2>3, OneRequest DEF HttpIInv
<1> QED
  BY <1>3, <1>4, <1>5 DEF Http!Go

LEMMA HttpStep == HttpIInv /\ [Http!Next]_(Http!vars) => HttpIInv'
<1> SUFFICES ASSUME HttpIInv, [Http!Next]_(Http!vars) PROVE HttpIInv'
  OBVIOUS
<1>0. \A r \in Requests : RequestOK(r) /\ HandlerOK(service, Http!H(r))
  BY HttpFacts DEF HttpIInv
<1>1. ASSUME NEW r \in Requests, Http!Arrive(r) PROVE HttpIInv'
  <2>1. PICK wrong \in SUBSET (Http!Range(Http!H(r).checks) \cap {"empty", "labels", "blank", "range"}) :
          faults' = [faults EXCEPT ![r] = wrong \cup Http!Lacks[service]]
    BY <1>1 DEF Http!Arrive
  <2>2. /\ faults'[r] \subseteq Faults /\ DOMAIN faults' = Requests
        /\ \A q \in Requests \ {r} : faults'[q] = faults[q]
    BY <2>1, LacksAreFaults DEF HttpIInv, Faults
  <2>3. /\ pc[r] = "idle" /\ pc'[r] = "arrived" /\ DOMAIN pc' = Requests
        /\ \A q \in Requests \ {r} : pc'[q] = pc[q]
        /\ UNCHANGED <<service, endpoint, loop, files>>
    BY <1>1 DEF Http!Arrive, HttpIInv
  <2>4. RequestOK(r)'
    BY <1>0, <2>2, <2>3 DEF RequestOK
  <2> QED
    BY <2>2, <2>3, <2>4, OneRequest
<1>2. ASSUME NEW r \in Requests, Http!Accept(r) PROVE HttpIInv'
  <2>0. loop = Nobody /\ pc[r] = "arrived" /\ UNCHANGED <<service, endpoint, faults>>
    BY <1>2 DEF Http!Accept
  <2>1. CASE /\ Http!H(r).def = "def" /\ pc' = [pc EXCEPT ![r] = "queued"]
             /\ UNCHANGED <<loop, status, files>>
    <3>1. DOMAIN pc' = Requests /\ pc'[r] = "queued" /\ \A q \in Requests \ {r} : pc'[q] = pc[q]
      BY <2>1 DEF HttpIInv
    <3>2. Http!H(r)' = Http!H(r) /\ Http!H(r).checks = <<>>
      BY <1>0, <2>0, <2>1 DEF Http!H, HandlerOK
    <3>3. Faultless(r)'
      BY <3>2 DEF Faultless, Http!Failed
    <3>4. RequestOK(r)'
      BY <1>0, <2>0, <2>1, <3>1, <3>2, <3>3 DEF RequestOK
    <3> QED
      BY <2>0, <2>1, <3>1, <3>4, OneRequest DEF HttpIInv
  <2>2. CASE Http!H(r).def = "async" /\ Http!Go(r, DOMAIN Http!H(r).checks)
    BY <2>0, <2>2, GoesOn DEF Faultless
  <2>3. CASE Http!H(r).def = "async" /\ Http!Awaits(r) /\ Http!Failed(r, Http!BeforeAwait(r)) # {}
             /\ Http!Go(r, Http!BeforeAwait(r))
    BY <2>0, <2>3, GoesOn
  <2>4. CASE /\ Http!Awaits(r) /\ Http!Failed(r, Http!BeforeAwait(r)) = {}
             /\ pc' = [pc EXCEPT ![r] = "reading"] /\ UNCHANGED <<loop, status, files>>
    <3>1. DOMAIN pc' = Requests /\ pc'[r] = "reading" /\ \A q \in Requests \ {r} : pc'[q] = pc[q]
      BY <2>4 DEF HttpIInv
    <3>2. Http!H(r)' = Http!H(r)
      BY <2>0 DEF Http!H
    <3>3. (Http!Awaits(r) /\ Http!Failed(r, Http!BeforeAwait(r)) = {})'
      BY <2>0, <2>4, <3>2 DEF Http!Awaits, Http!Failed, Http!BeforeAwait, Http!AwaitAt
    <3>4. RequestOK(r)'
      BY <1>0, <2>0, <2>4, <3>1, <3>2, <3>3 DEF RequestOK
    <3> QED
      BY <2>0, <2>4, <3>1, <3>4, OneRequest DEF HttpIInv
  <2> QED
    BY <1>2, <2>1, <2>2, <2>3, <2>4 DEF Http!Accept
<1>3. ASSUME NEW r \in Requests, Http!Resume(r) PROVE HttpIInv'
  <2>0. loop = Nobody /\ pc[r] = "reading" /\ UNCHANGED <<service, endpoint, faults>>
        /\ Http!Go(r, Http!AfterAwait(r)) /\ Http!Awaits(r) /\ Http!Failed(r, Http!BeforeAwait(r)) = {}
    BY <1>0, <1>3 DEF Http!Resume, RequestOK
  <2>1. Http!H(r).def = "async"
    BY <1>0, <2>0 DEF HandlerOK, Http!Awaits, Http!Contains
  <2>2. ASSUME Http!Failed(r, Http!AfterAwait(r)) = {} PROVE Faultless(r)
    <3> DEFINE cs == Http!H(r).checks
    <3>1. DOMAIN cs = 1 .. Len(cs) /\ Len(cs) \in Nat
      BY <1>0 DEF HandlerOK
    <3>2. Http!AwaitAt(r) \in DOMAIN cs /\ cs[Http!AwaitAt(r)] = "read"
      BY <2>0, <3>1 DEF Http!Awaits, Http!Contains, Http!AwaitAt
    <3>3. "read" \notin faults[r]
      BY <1>0 DEF RequestOK, Faults
    <3>4. \A i \in DOMAIN cs : i \in Http!BeforeAwait(r) \/ i = Http!AwaitAt(r) \/ i \in Http!AfterAwait(r)
      BY <3>1, <3>2 DEF Http!BeforeAwait, Http!AfterAwait
    <3> QED
      BY <2>0, <2>2, <3>2, <3>3, <3>4 DEF Faultless, Http!Failed
  <2> QED
    BY <2>0, <2>1, <2>2, GoesOn
<1>4. ASSUME NEW r \in Requests, Http!StartThread(r) PROVE HttpIInv'
  <2>1. /\ pc[r] = "queued" /\ DOMAIN pc' = Requests /\ \A q \in Requests \ {r} : pc'[q] = pc[q]
        /\ pc'[r] = IF Http!H(r).run = "none" THEN "ready" ELSE "running"
        /\ UNCHANGED <<service, endpoint, faults, loop, files>>
    BY <1>4 DEF Http!StartThread, HttpIInv
  <2>2. Http!H(r)' = Http!H(r)
    BY <2>1 DEF Http!H
  <2>3. Faultless(r)' <=> Faultless(r)
    BY <2>1, <2>2 DEF Faultless, Http!Failed
  <2>4. RequestOK(r)'
    BY <1>0, <2>1, <2>2, <2>3 DEF RequestOK
  <2> QED
    BY <2>1, <2>4, OneRequest DEF HttpIInv
<1>5. ASSUME NEW r \in Requests, Http!FinishRun(r) PROVE HttpIInv'
  <2>1. /\ DOMAIN pc' = Requests /\ \A q \in Requests \ {r} : pc'[q] = pc[q]
        /\ pc'[r] \in {"answered", "ready"} /\ files' = files \ {r}
        /\ UNCHANGED <<service, endpoint, faults>>
        /\ loop' = IF loop = r THEN Nobody ELSE loop
    BY <1>5 DEF Http!FinishRun, HttpIInv
  <2>2. RequestOK(r)'
    BY <1>0, <2>1 DEF RequestOK
  <2> QED
    BY <2>1, <2>2, OneRequest DEF HttpIInv
<1>6. ASSUME NEW r \in Requests, Http!Respond(r) PROVE HttpIInv'
  <2>1. /\ pc[r] = "ready" /\ DOMAIN pc' = Requests /\ \A q \in Requests \ {r} : pc'[q] = pc[q]
        /\ pc'[r] = "answered" /\ UNCHANGED <<service, endpoint, faults, loop, files>>
    BY <1>6 DEF Http!Respond, HttpIInv
  <2>2. RequestOK(r)'
    BY <1>0, <2>1 DEF RequestOK
  <2> QED
    BY <2>1, <2>2, OneRequest DEF HttpIInv
<1>7. CASE UNCHANGED Http!vars
  BY <1>0, <1>7 DEF Http!vars, HttpIInv, RequestOK, Faultless, Http!Failed, Http!H, Http!Awaits,
     Http!BeforeAwait, Http!AwaitAt
<1> QED
  BY <1>1, <1>2, <1>3, <1>4, <1>5, <1>6, <1>7 DEF Http!Next

LEMMA HttpHolds == HttpIInv => Http!OneRunAtATime /\ Http!UploadsLeaveNothing
<1> SUFFICES ASSUME HttpIInv PROVE Http!OneRunAtATime /\ Http!UploadsLeaveNothing
  OBVIOUS
<1>1. Http!UploadsLeaveNothing
  BY DEF HttpIInv, RequestOK, Http!UploadsLeaveNothing
<1>2. ASSUME service \in Single PROVE Http!In("running") \subseteq {loop}
  BY <1>2, HttpFacts DEF HttpIInv, RequestOK, HandlerOK, Http!In
<1>3. Http!In("running") \subseteq {loop} => Http!Cardinality(Http!In("running")) <= 1
  <2>1. IsFiniteSet({loop}) /\ Cardinality({loop}) = 1
    BY FS_Singleton
  <2>2. Http!Cardinality(Http!In("running")) = Cardinality(Http!In("running"))
    BY DEF Http!Cardinality, Cardinality
  <2> QED
    BY <2>1, <2>2, FS_Subset, FS_CardinalityType
<1>4. \A r \in Http!In("running") : Http!Failed(r, DOMAIN Http!H(r).checks) = {}
  BY DEF HttpIInv, RequestOK, Faultless, Http!In
<1> QED
  BY <1>1, <1>2, <1>3, <1>4 DEF Http!OneRunAtATime, Single

(* vision/app.py, stt/app.py, tts/app.py, musicgen/app.py: one run of the    *)
(* model at a time, and none of a request that a check refuses, however its  *)
(* await lets others in; video/app.py: no temporary file outlives its run.   *)
THEOREM ModelsRunOnce == Http!Spec => [](Http!OneRunAtATime /\ Http!UploadsLeaveNothing)
BY HttpInitOK, HttpStep, HttpHolds, PTL DEF Http!Spec

-----------------------------------------------------------------------------
(* The bench runs each part by its own specification, so what is proved of  *)
(* the parts holds of it.                                                   *)
LEMMA ServicesAreTheirParts == Spec => Native!Spec /\ Text!Spec /\ Manage!Spec /\ Http!Spec
<1>1. Init => Native!Init /\ Text!Init /\ Manage!Init /\ Http!Init
  BY DEF Init, TextInit, ManageInit, HttpInit
<1>2. [Next]_vars => /\ [Native!Next]_(Native!vars)
                     /\ [Text!Next]_(Text!vars)
                     /\ [Manage!Next]_(Manage!vars)
                     /\ [Http!Next]_(Http!vars)
  BY DEF Next, NativeSteps, TextSteps, ManageSteps, HttpSteps, vars, nativeVars, textVars, httpVars,
     manageVars, Native!vars, Text!vars, Text!supervisorVars, Text!callVars, Manage!vars, Manage!machine,
     Http!vars
<1> QED
  BY <1>1, <1>2, PTL DEF Spec, Native!Spec, Text!Spec, Manage!Spec, Http!Spec

(* Everything that the run checks of the services, but for progress.        *)
THEOREM ServicesAreSafe ==
  Spec => /\ [](OrphansOnlyFromKills /\ AnsweredByItsModel /\ NothingTwice)
          /\ StoppedMeansGone
<1>1. Spec => [](OneRuntime /\ Native!InstancesBounded /\ Http!OneRunAtATime /\ Http!UploadsLeaveNothing)
  BY ServicesAreTheirParts, NeverBothRuntimes, ServicesRunOnce, ModelsRunOnce, PTL
<1>2. Spec => []NothingTwice
  BY <1>1, PTL DEF NothingTwice
<1> QED
  BY <1>2, ServicesAreTheirParts, StopStops, KillsLeaveOrphans, AnswersAreOfTheModel, PTL
=============================================================================
