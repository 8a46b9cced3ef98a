------------------------- MODULE SchedulerSingleton -------------------------
(***************************************************************************)
(* The process-level singleton of circuitforge_core/tasks/scheduler.py:    *)
(* get_scheduler() and reset_scheduler() called from several threads.  A   *)
(* caller that finds no singleton builds a candidate, which resumes the    *)
(* queued rows of the database, and starts it before taking the lock.      *)
(* Schedulers are named after the call that built them; each caller makes  *)
(* one call, and reset_scheduler() is called at most once.                 *)
(***************************************************************************)
EXTENDS Naturals, FiniteSets

CONSTANTS Callers, Rows, CanReset, None

ConstantsOK == CanReset \in BOOLEAN /\ None # "reset" /\ {None, "reset"} \cap Callers = {}

VARIABLES
  singleton,  \* the module global _scheduler
  lock,       \* holder of _scheduler_lock: a caller, "reset" or None
  pc,         \* per caller, where get_scheduler() is
  result,     \* per caller, what get_scheduler() returned
  sched,      \* per candidate: "none", "built", "live" or "stopped"
  resumed,    \* per candidate, the rows in its queues
  rowStatus,  \* background_tasks.status per row
  resetPc

vars == <<singleton, lock, pc, result, sched, resumed, rowStatus, resetPc>>

Init ==
  /\ singleton = None
  /\ lock = None
  /\ pc = [c \in Callers |-> "check"]
  /\ result = [c \in Callers |-> None]
  /\ sched = [c \in Callers |-> "none"]
  /\ resumed = [c \in Callers |-> {}]
  /\ rowStatus = [r \in Rows |-> "queued"]
  /\ resetPc = IF CanReset THEN "idle" ELSE "done"

(* if _scheduler is not None: return _scheduler, read twice, no lock. *)
FastPath(c) ==
  /\ pc[c] = "check"
  /\ singleton # None
  /\ pc' = [pc EXCEPT ![c] = "return"]
  /\ UNCHANGED <<singleton, lock, result, sched, resumed, rowStatus, resetPc>>

(* candidate = LocalScheduler(...): _load_queued_tasks() reads the queued rows. *)
Build(c) ==
  /\ pc[c] = "check"
  /\ singleton = None
  /\ sched' = [sched EXCEPT ![c] = "built"]
  /\ resumed' = [resumed EXCEPT ![c] = {r \in Rows : rowStatus[r] = "queued"}]
  /\ pc' = [pc EXCEPT ![c] = "start"]
  /\ UNCHANGED <<singleton, lock, result, rowStatus, resetPc>>

StartCandidate(c) ==
  /\ pc[c] = "start"
  /\ sched' = [sched EXCEPT ![c] = "live"]
  /\ pc' = [pc EXCEPT ![c] = "acquire"]
  /\ UNCHANGED <<singleton, lock, result, resumed, rowStatus, resetPc>>

Acquire(c) ==
  /\ pc[c] = "acquire"
  /\ lock = None
  /\ lock' = c
  /\ pc' = [pc EXCEPT ![c] = "install"]
  /\ UNCHANGED <<singleton, result, sched, resumed, rowStatus, resetPc>>

Install(c) ==
  /\ pc[c] = "install"
  /\ singleton = None
  /\ singleton' = c
  /\ lock' = None
  /\ pc' = [pc EXCEPT ![c] = "return"]
  /\ UNCHANGED <<result, sched, resumed, rowStatus, resetPc>>

\* Mutant: the candidate that lost the race is dropped, not shut down.
DropCandidate(c) ==
  /\ pc[c] = "install"
  /\ singleton # None
  /\ lock' = None
  /\ pc' = [pc EXCEPT ![c] = "return"]
  /\ UNCHANGED <<singleton, result, sched, resumed, rowStatus, resetPc>>

(* else: candidate.shutdown(), with the lock held. *)
StopCandidate(c) ==
  /\ pc[c] = "install"
  /\ singleton # None
  /\ sched' = [sched EXCEPT ![c] = "stopped"]
  /\ lock' = None
  /\ pc' = [pc EXCEPT ![c] = "return"]
  /\ UNCHANGED <<singleton, result, resumed, rowStatus, resetPc>>

(* return _scheduler: the global is read again, after the lock is released. *)
Return(c) ==
  /\ pc[c] = "return"
  /\ result' = [result EXCEPT ![c] = singleton]
  /\ pc' = [pc EXCEPT ![c] = "done"]
  /\ UNCHANGED <<singleton, lock, sched, resumed, rowStatus, resetPc>>

ResetAcquire ==
  /\ resetPc = "idle"
  /\ lock = None
  /\ lock' = "reset"
  /\ resetPc' = IF singleton = None THEN "release" ELSE "shutdown"
  /\ UNCHANGED <<singleton, pc, result, sched, resumed, rowStatus>>

ResetShutdown ==
  /\ resetPc = "shutdown"
  /\ sched' = [sched EXCEPT ![singleton] = "stopped"]
  /\ resetPc' = "clear"
  /\ UNCHANGED <<singleton, lock, pc, result, resumed, rowStatus>>

ResetClear ==
  /\ resetPc \in {"clear", "release"}
  /\ singleton' = None
  /\ lock' = None
  /\ resetPc' = "done"
  /\ UNCHANGED <<pc, result, sched, resumed, rowStatus>>

(* A worker of a started scheduler takes a resumed row and run_task_fn     *)
(* marks it; a stopped scheduler's worker drains what is left (see         *)
(* LocalScheduler).  What the product's run_task_fn writes is external.    *)
RunRow(c, r) ==
  /\ sched[c] \in {"live", "stopped"}
  /\ r \in resumed[c]
  /\ resumed' = [resumed EXCEPT ![c] = @ \ {r}]
  /\ rowStatus' = [rowStatus EXCEPT ![r] = IF @ = "queued" THEN "run" ELSE "runTwice"]
  /\ UNCHANGED <<singleton, lock, pc, result, sched, resetPc>>

Next ==
  \/ \E c \in Callers :
       \/ FastPath(c) \/ Build(c) \/ StartCandidate(c) \/ Acquire(c)
       \/ Install(c) \/ StopCandidate(c) \/ Return(c)
       \/ \E r \in Rows : RunRow(c, r)
  \/ ResetAcquire \/ ResetShutdown \/ ResetClear

Spec == Init /\ [][Next]_vars

-----------------------------------------------------------------------------
(* Without a reset all the callers are given one and the same scheduler,   *)
(* whoever won the race to build it, and it has not been shut down.        *)
AllCallersAgree ==
  ~CanReset => \A b, c \in Callers : pc[b] = "done" /\ pc[c] = "done" =>
                 result[b] = result[c] /\ result[b] # None /\ sched[result[b]] = "live"

(* A scheduler that is live once its builder's call is over is the         *)
(* singleton: no candidate that lost the race, and no scheduler that was   *)
(* reset, keeps its loop running.                                          *)
NoStrayScheduler ==
  \A c \in Callers : pc[c] \in {"return", "done"} /\ sched[c] = "live" => singleton = c

-----------------------------------------------------------------------------
(* docs/modules/tasks.md: get_scheduler() "Returns the singleton scheduler *)
(* for the current process": two candidates must not both resume a row.    *)
ResumedOnce == \A r \in Rows : rowStatus[r] # "runTwice"

(* The docstring and return type of get_scheduler(): a scheduler, never None. *)
ReturnsScheduler == \A c \in Callers : pc[c] = "done" => result[c] # None
=============================================================================
