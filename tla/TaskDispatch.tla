---------------------------- MODULE TaskDispatch ----------------------------
(***************************************************************************)
(* circuitforge_core/tasks/dispatch.py: register_task_runner(),            *)
(* unregister_task_runner(), dispatch_task(), get_task_status() and        *)
(* reset_dispatch_registry() over a module-global registry, status table   *)
(* and thread pool.                                                        *)
(* Each task is dispatched once.  Parent[k] is the task whose runner makes *)
(* the dispatch_task() call for k, or None for a call from outside.        *)
(***************************************************************************)
EXTENDS Naturals, Sequences, FiniteSets

CONSTANTS Tasks, Parent, PoolSize, CanReset, None

ConstantsOK ==
  /\ Parent \in [Tasks -> Tasks \cup {None}] /\ None \notin Tasks
  /\ None \notin {"queued", "running", "complete", "error", "escaped", "reset"}
  /\ PoolSize \in Nat \ {0}
  /\ CanReset \in BOOLEAN

VARIABLES
  registered,  \* the caller string of the tasks is in _task_runners
  status,      \* _task_status: per task its "status" field, or None
  pc,          \* per task, where the dispatch_task() call is
  run,         \* per task, where _run is: "no", "queued", "begin", "fn", "ended", "over"
  outcome,     \* per task, how fn ended
  backlog,     \* the executor's work queue
  executor,    \* _executor: "none", "up" or "down" (shut down, still assigned)
  stale,       \* the calls about to submit to an executor that was shut down
  execLock,    \* holder of _executor_lock
  resetPc

vars == <<registered, status, pc, run, outcome, backlog, executor, stale, execLock, resetPc>>

Init ==
  /\ registered = FALSE
  /\ status = [k \in Tasks |-> None]
  /\ pc = [k \in Tasks |-> "idle"]
  /\ run = [k \in Tasks |-> "no"]
  /\ outcome = [k \in Tasks |-> None]
  /\ backlog = <<>>
  /\ executor = "none"
  /\ stale = {}
  /\ execLock = None
  /\ resetPc = "idle"

Register ==
  /\ ~registered
  /\ registered' = TRUE
  /\ UNCHANGED <<status, pc, run, outcome, backlog, executor, stale, execLock, resetPc>>

(* Like the reset, meant for the end of a test.                             *)
Unregister ==
  /\ CanReset
  /\ registered
  /\ registered' = FALSE
  /\ UNCHANGED <<status, pc, run, outcome, backlog, executor, stale, execLock, resetPc>>

-----------------------------------------------------------------------------
(* dispatch_task() *)

CanCall(k) == pc[k] = "idle" /\ (Parent[k] # None => run[Parent[k]] = "fn")

LookupFails(k) ==
  /\ CanCall(k)
  /\ ~registered
  /\ pc' = [pc EXCEPT ![k] = "LookupError"]
  /\ UNCHANGED <<registered, status, run, outcome, backlog, executor, stale, execLock, resetPc>>

Lookup(k) ==
  /\ CanCall(k)
  /\ registered
  /\ pc' = [pc EXCEPT ![k] = "record"]
  /\ UNCHANGED <<registered, status, run, outcome, backlog, executor, stale, execLock, resetPc>>

Record(k) ==
  /\ pc[k] = "record"
  /\ status' = [status EXCEPT ![k] = "queued"]
  /\ pc' = [pc EXCEPT ![k] = "executor"]
  /\ UNCHANGED <<registered, run, outcome, backlog, executor, stale, execLock, resetPc>>

(* _get_executor(), the whole block under _executor_lock. *)
GetExecutor(k) ==
  /\ pc[k] = "executor"
  /\ execLock = None
  /\ executor' = "up"
  /\ pc' = [pc EXCEPT ![k] = "submit"]
  /\ UNCHANGED <<registered, status, run, outcome, backlog, stale, execLock, resetPc>>

(* submit() on the executor fetched before; RuntimeError once that one is   *)
(* shut down, though another may have taken its place.                      *)
Submit(k) ==
  /\ pc[k] = "submit"
  /\ IF k \notin stale
     THEN /\ backlog' = Append(backlog, k)
          /\ run' = [run EXCEPT ![k] = "queued"]
          /\ pc' = [pc EXCEPT ![k] = "submitted"]
     ELSE /\ pc' = [pc EXCEPT ![k] = "RuntimeError"]
          /\ UNCHANGED <<backlog, run>>
  /\ stale' = stale \ {k}
  /\ UNCHANGED <<registered, status, outcome, executor, execLock, resetPc>>

(* Mutant: the status is recorded after the task was submitted. *)
ReturnRecording(k) ==
  /\ pc[k] = "submitted"
  /\ pc' = [pc EXCEPT ![k] = "returned"]
  /\ status' = [status EXCEPT ![k] = "queued"]
  /\ UNCHANGED <<registered, run, outcome, backlog, executor, stale, execLock, resetPc>>

Return(k) ==
  /\ pc[k] = "submitted"
  /\ pc' = [pc EXCEPT ![k] = "returned"]
  /\ UNCHANGED <<registered, status, run, outcome, backlog, executor, stale, execLock, resetPc>>

-----------------------------------------------------------------------------
(* The pool and _run.  ThreadPoolExecutor (FIFO, bounded) is external. *)

Busy == {k \in Tasks : run[k] \in {"begin", "fn", "ended"}}

PoolTakes ==
  /\ backlog # <<>>
  /\ Cardinality(Busy) < PoolSize
  /\ run' = [run EXCEPT ![Head(backlog)] = "begin"]
  /\ backlog' = Tail(backlog)
  /\ UNCHANGED <<registered, status, pc, outcome, executor, stale, execLock, resetPc>>

RunBegins(k) ==
  /\ run[k] = "begin"
  /\ status' = [status EXCEPT ![k] = "running"]
  /\ run' = [run EXCEPT ![k] = "fn"]
  /\ UNCHANGED <<registered, pc, outcome, backlog, executor, stale, execLock, resetPc>>

(* fn(args) ends, by return, by an Exception, or by what is none           *)
(* (SystemExit), which goes past the except clause. A runner that           *)
(* dispatches other tasks does not end in the middle of a dispatch_task()   *)
(* call that goes on.                                                       *)
FnEnds(k) ==
  /\ run[k] = "fn"
  /\ \A j \in Tasks : Parent[j] = k => pc[j] \in {"idle", "returned", "LookupError", "RuntimeError"}
  /\ run' = [run EXCEPT ![k] = "ended"]
  /\ outcome' \in {[outcome EXCEPT ![k] = o] : o \in {"complete", "error", "escaped"}}
  /\ UNCHANGED <<registered, status, pc, backlog, executor, stale, execLock, resetPc>>

(* What escapes _run, the pool's thread keeps in the future that nobody     *)
(* asks for, and the thread goes on.                                        *)
RunSettles(k) ==
  /\ run[k] = "ended"
  /\ status' = IF outcome[k] = "escaped" THEN status ELSE [status EXCEPT ![k] = outcome[k]]
  /\ run' = [run EXCEPT ![k] = "over"]
  /\ UNCHANGED <<registered, pc, outcome, backlog, executor, stale, execLock, resetPc>>

-----------------------------------------------------------------------------
(* reset_dispatch_registry() *)

ResetRegistry ==
  /\ CanReset
  /\ resetPc = "idle"
  /\ registered' = FALSE
  /\ resetPc' = "status"
  /\ UNCHANGED <<status, pc, run, outcome, backlog, executor, stale, execLock>>

ResetStatus ==
  /\ resetPc = "status"
  /\ status' = [k \in Tasks |-> None]
  /\ resetPc' = "lock"
  /\ UNCHANGED <<registered, pc, run, outcome, backlog, executor, stale, execLock>>

ResetLock ==
  /\ resetPc = "lock"
  /\ execLock = None
  /\ execLock' = "reset"
  /\ executor' = IF executor = "none" THEN "none" ELSE "down"
  /\ stale' = {k \in Tasks : pc[k] = "submit"}
  /\ resetPc' = "join"
  /\ UNCHANGED <<registered, status, pc, run, outcome, backlog>>

(* Mutant: shutdown(wait=False). *)
ResetUnjoined ==
  /\ resetPc = "join"
  /\ executor' = "none"
  /\ execLock' = None
  /\ resetPc' = "done"
  /\ UNCHANGED <<registered, status, pc, run, outcome, backlog, stale>>

(* _executor.shutdown(wait=True) returns when the backlog has been run,     *)
(* with _executor_lock held all the while.                                  *)
ResetJoin ==
  /\ resetPc = "join"
  /\ backlog = <<>> /\ Busy = {}
  /\ executor' = "none"
  /\ execLock' = None
  /\ resetPc' = "done"
  /\ UNCHANGED <<registered, status, pc, run, outcome, backlog, stale>>

-----------------------------------------------------------------------------
DispatchSteps(k) == Lookup(k) \/ LookupFails(k) \/ Record(k) \/ GetExecutor(k) \/ Submit(k) \/ Return(k)
RunSteps(k) == RunBegins(k) \/ FnEnds(k) \/ RunSettles(k)
Reset == ResetRegistry \/ ResetStatus \/ ResetLock \/ ResetJoin

Next ==
  \/ Register \/ Unregister \/ PoolTakes \/ Reset
  \/ \E k \in Tasks : DispatchSteps(k) \/ RunSteps(k)

Spec == Init /\ [][Next]_vars

(* Threads are scheduled and runners end. One reset takes the lock once, so *)
(* weak fairness hands it over.                                             *)
CallSteps(k) == Record(k) \/ GetExecutor(k) \/ Submit(k) \/ Return(k)
ResetSteps == ResetStatus \/ ResetLock \/ ResetJoin
Fairness ==
  /\ WF_vars(PoolTakes) /\ WF_vars(ResetSteps)
  /\ \A k \in Tasks : WF_vars(CallSteps(k)) /\ WF_vars(RunSteps(k))

FairSpec == Spec /\ Fairness

-----------------------------------------------------------------------------
Settled(s) == s \in {"complete", "error"}
Rank(s) == CASE s = None -> 0 [] s = "queued" -> 1 [] s = "running" -> 2 [] OTHER -> 3

(* A poller of get_task_status() sees a task move forward only, through    *)
(* every order in which the pool overtakes the dispatching thread; only the *)
(* reset takes it out of the table.                                         *)
Forgets == resetPc = "status" /\ resetPc' = "lock"
MovesForward == Forgets \/ \A k \in Tasks : Rank(status[k]) <= Rank(status'[k])
StatusMovesForward == [][MovesForward]_vars

(* A task that get_task_status() calls complete or error is over, as its    *)
(* runner ended; and when reset_dispatch_registry() forgets the executor,   *)
(* no task is left on it: a call that had fetched it submits nothing more.  *)
NoneLeftRunning ==
  /\ \A k \in Tasks : Settled(status[k]) => run[k] = "over" /\ status[k] = outcome[k]
  /\ executor = "none" => backlog = <<>> /\ Busy = {}

(* Every task whose dispatch_task() returned ends up complete or error, as *)
(* its runner did, however few threads the pool has and whatever their     *)
(* runners raise (no reset). One whose runner raised what is no Exception  *)
(* is over too, and a poller sees it running for ever.                     *)
Returned(k) == pc[k] = "returned"
SettledAsRun(k) ==
  run[k] = "over" /\ status[k] = IF outcome[k] = "escaped" THEN "running" ELSE outcome[k]
DispatchedTaskSettles == \A k \in Tasks : Returned(k) ~> SettledAsRun(k)

-----------------------------------------------------------------------------
(* dispatch_task(): "Returns immediately with a task_id." *)
Dispatching(k) == pc[k] = "executor"
DispatchOver(k) == pc[k] \in {"returned", "RuntimeError"}
DispatchReturns == \A k \in Tasks : Dispatching(k) ~> DispatchOver(k)

(* reset_dispatch_registry(): "Clear all registrations and status": nothing *)
(* dispatched before the reset is known after it.                           *)
ResetForgets ==
  [][resetPc' = "done" /\ resetPc # "done" =>
       \A k \in Tasks : pc[k] \in {"returned", "LookupError"} => status'[k] = None]_vars
=============================================================================
