--------------------------- MODULE VllmSupervisor ---------------------------
(***************************************************************************)
(* circuitforge_core/text/backends/vllm_subprocess.py, as make_text_backend*)
(* uses it: each run of cf-text spawns one vLLM child on a fixed port and  *)
(* waits until that port answers. cf-text is started again after it ended; *)
(* it may also be killed, and then its atexit handlers do not run.         *)
(* text/app.py makes the backend before it serves, and every request goes  *)
(* to whoever holds the port then. Each run of cf-text is for a model of   *)
(* its own choice; after a kill the child of an earlier run may still hold *)
(* the port. uvicorn and the vLLM server are external: uvicorn answers     *)
(* what it accepted before it lets the process end, and vLLM refuses a     *)
(* request that names a model it does not serve.                           *)
(***************************************************************************)
EXTENDS Naturals, FiniteSets, FiniteSetsExt

CONSTANTS
  MaxRuns,  \* bound on the runs of cf-text
  MaxKills, \* bound on the runs that are killed
  Models,   \* those that cf-text is started with
  Calls     \* those to an endpoint of cf-text

ConstantsOK == MaxRuns \in Nat \ {0} /\ MaxKills \in Nat

Runs == 1..MaxRuns
NoRun == 0

VARIABLES
  run,      \* the current, or last, run of cf-text
  text,     \* "off", "spawn", "poll", "probe", "serving", "atexit"
  child,    \* per run its child: "none", "loading", "up", "exited"
  bound,    \* the run whose child listens on the port, or NoRun
  answered, \* the run whose child gave ensure_running() its 200, or NoRun
  kills,
  model,    \* per run, the model cf-text was started with
  pc,       \* per call: "idle", "accepted", "sent", "answered", "failed", "lost"
  host,     \* per call, the run of cf-text that accepted it
  server    \* per call, the run whose child it was sent to

supervisorVars == <<run, text, child, bound, answered, kills>>
callVars == <<pc, host, server>>
vars == <<supervisorVars, model, callVars>>

Init ==
  /\ run = 0
  /\ text = "off"
  /\ child = [r \in Runs |-> "none"]
  /\ bound = NoRun
  /\ answered = NoRun
  /\ kills = 0
  /\ model \in [Runs -> Models]
  /\ pc = [c \in Calls |-> "idle"]
  /\ host = [c \in Calls |-> NoRun]
  /\ server = host

InFlight(c) == pc[c] \in {"accepted", "sent"}
Alive(c) == run = host[c] /\ text = "serving"

Start ==
  /\ text = "off"
  /\ run < MaxRuns
  /\ run' = run + 1
  /\ text' = "spawn"
  /\ answered' = NoRun
  /\ UNCHANGED <<child, bound, kills>>

(* _spawn(): Popen, or the path of the interpreter is missing. *)
Spawn ==
  /\ text = "spawn"
  /\ \/ child' = [child EXCEPT ![run] = "loading"] /\ text' = "poll"
     \/ text' = "atexit" /\ UNCHANGED child
  /\ UNCHANGED <<run, bound, answered, kills>>

(* One turn of _wait_for_health(): is the child dead, or time up? *)
Poll ==
  /\ text = "poll"
  /\ \/ text' = IF child[run] = "exited" THEN "atexit" ELSE "probe"
     \/ text' = "atexit"
  /\ UNCHANGED <<run, child, bound, answered, kills>>

(* GET /health on the port: 200 from whoever listens, or not yet. *)
Probe ==
  /\ text = "probe"
  /\ \/ text' = "poll" /\ UNCHANGED answered
     \/ bound # NoRun /\ text' = "serving" /\ answered' = bound
  /\ UNCHANGED <<run, child, bound, kills>>

(* An orderly end of cf-text waits for what it accepted, so that the child *)
(* is terminated after the last answer.                                    *)
Stop ==
  /\ text = "serving"
  /\ ~\E c \in Calls : InFlight(c) /\ Alive(c)
  /\ text' = "atexit"
  /\ UNCHANGED <<run, child, bound, answered, kills>>

Live(r) == child[r] \in {"loading", "up"}

ChildExits(r) ==
  /\ child' = [child EXCEPT ![r] = "exited"]
  /\ bound' = IF bound = r THEN NoRun ELSE bound

(* terminate(), registered when the child was spawned. *)
\* Mutant: a child that is still loading is not terminated.
AtExitServing ==
  /\ text = "atexit"
  /\ IF child[run] = "up" THEN ChildExits(run) ELSE UNCHANGED <<child, bound>>
  /\ text' = "off"
  /\ UNCHANGED <<run, answered, kills>>

AtExit ==
  /\ text = "atexit"
  /\ IF Live(run) THEN ChildExits(run) ELSE UNCHANGED <<child, bound>>
  /\ text' = "off"
  /\ UNCHANGED <<run, answered, kills>>

(* cf-text ends without its atexit handlers: by SIGKILL, by SIGTERM before *)
(* the server handles it, or by the one that uvicorn raises again after it *)
(* has shut down.                                                          *)
Killed ==
  /\ text \notin {"off", "spawn"}
  /\ kills < MaxKills
  /\ kills' = kills + 1
  /\ text' = "off"
  /\ UNCHANGED <<run, child, bound, answered>>

(* The vLLM server: it takes the port when it is free and fails when it is *)
(* not; it may also die at any time.                                       *)
ChildListens(r) ==
  /\ child[r] = "loading"
  /\ bound = NoRun
  /\ child' = [child EXCEPT ![r] = "up"]
  /\ bound' = r
  /\ UNCHANGED <<run, text, answered, kills>>

ChildDies(r) ==
  /\ Live(r)
  /\ ChildExits(r)
  /\ UNCHANGED <<run, text, answered, kills>>

Supervise == Spawn \/ Poll \/ Probe \/ AtExit

-----------------------------------------------------------------------------
(* A request reaches an endpoint: the backend is there, or uvicorn is not. *)
Accept(c) ==
  /\ pc[c] = "idle" /\ text = "serving"
  /\ pc' = [pc EXCEPT ![c] = "accepted"]
  /\ host' = [host EXCEPT ![c] = run]
  /\ UNCHANGED <<supervisorVars, model, server>>

\* Mutant: the payload does not name the model.
AnyModel(c) == TRUE

(* The payload names the model the backend was made for. *)
ServesModel(c) == model[bound] = model[host[c]]

(* client.post() to the port: nobody listens, the model is not there, or    *)
(* the server works on it.                                                  *)
Send(c) ==
  /\ pc[c] = "accepted" /\ Alive(c)
  /\ \/ /\ bound # NoRun /\ ServesModel(c)
        /\ pc' = [pc EXCEPT ![c] = "sent"]
        /\ server' = [server EXCEPT ![c] = bound]
     \/ /\ bound # NoRun => ~ServesModel(c)
        /\ pc' = [pc EXCEPT ![c] = "failed"]
        /\ UNCHANGED server
  /\ UNCHANGED <<supervisorVars, model, host>>

(* The answer, an error of the server, or none within the timeout of 180 s; *)
(* the connection to a child that exited is gone.                           *)
Respond(c) ==
  /\ pc[c] = "sent" /\ Alive(c)
  /\ \/ child[server[c]] = "up" /\ pc' = [pc EXCEPT ![c] = "answered"]
     \/ pc' = [pc EXCEPT ![c] = "failed"]
  /\ UNCHANGED <<supervisorVars, model, host, server>>

(* The process that had accepted the call is gone. *)
Lose(c) ==
  /\ InFlight(c) /\ ~Alive(c)
  /\ pc' = [pc EXCEPT ![c] = "lost"]
  /\ UNCHANGED <<supervisorVars, model, host, server>>

Call(c) == Send(c) \/ Respond(c) \/ Lose(c)

Next ==
  \/ /\ \/ Start \/ Supervise \/ Stop \/ Killed
        \/ \E r \in Runs : ChildListens(r) \/ ChildDies(r)
     /\ UNCHANGED <<model, callVars>>
  \/ \E c \in Calls : Accept(c) \/ Call(c)

GivesUp == Poll /\ text' = "atexit"

(* The supervisor's thread runs on and time passes its deadline; uvicorn   *)
(* schedules its requests, and each has a timeout.                         *)
Fairness ==
  /\ WF_supervisorVars(Supervise) /\ SF_supervisorVars(GivesUp)
  /\ \A c \in Calls : WF_vars(Call(c))

Spec == Init /\ [][Next]_vars
FairSpec == Spec /\ Fairness

-----------------------------------------------------------------------------
(* Every child that outlives its run was left by a kill: a run that ends   *)
(* by itself, whether it served, timed out or failed, leaves none behind.  *)
OrphansOnlyFromKills ==
  Cardinality({r \in Runs : Live(r) /\ (r < run \/ text = "off")}) <= kills

(* As long as no run was killed, the server that answered is the run's own *)
(* child, and so is the listener on the port.                              *)
OwnChildAnswers ==
  kills = 0 /\ text = "serving" => answered = run /\ bound \in {run, NoRun}

(* ensure_running() returns or raises, and what ends ends. *)
StartupRuns == text \notin {"serving", "off"}
StartupSettles == StartupRuns ~> ~StartupRuns

(* vllm_subprocess.py:105-106, a killed cf-text cannot leave the child     *)
(* running behind it.                                                      *)
NothingLeftBehind == text = "off" => \A r \in Runs : ~Live(r)

(* vllm_subprocess.py:39-40, it waits for the child it spawned to report   *)
(* healthy, not for another server that holds the port.                    *)
WaitsForItsChild == text = "serving" => answered = run

(* Whoever held the port, a call that got an answer got it from a server of *)
(* the model its cf-text was started with; from a child of an earlier run   *)
(* only when that run was killed; and only a kill takes an accepted call    *)
(* away without an answer or an error.                                      *)
AnsweredByItsModel ==
  \A c \in Calls :
    /\ pc[c] = "answered" => model[server[c]] = model[host[c]]
    /\ pc[c] = "answered" /\ server[c] # host[c] => kills > 0
    /\ pc[c] = "lost" => kills > 0

(* An accepted call ends, whatever becomes of cf-text and its child.        *)
CallsRun == \E c \in Calls : InFlight(c)
EveryTextCallEnds == CallsRun ~> ~CallsRun
=============================================================================
