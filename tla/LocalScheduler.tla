--------------------------- MODULE LocalScheduler ---------------------------
(***************************************************************************)
(* circuitforge_core/tasks/scheduler.py, class LocalScheduler.             *)
(*                                                                         *)
(* Threads: the callers of enqueue() (one per task), the caller of start(),*)
(* the scheduler loop, the caller of shutdown() and the batch workers.     *)
(* A `with self._lock` block is one action; everything between two blocks  *)
(* (Event.set, Event.clear, Event.wait, join) is an action of its own.     *)
(***************************************************************************)
EXTENDS Naturals, Sequences, TLAPS

CONSTANTS
  Types,        \* task types
  Tasks,        \* task ids
  TypeOf,       \* the task_type each task is enqueued with
  Loaded,       \* per type, the rows _load_queued_tasks() reads, by created_at
  Threads,      \* identities for worker threads; a dead one is used again
  MaxDepth,     \* max_queue_depth
  CanShutDown,  \* whether somebody calls shutdown()
  None

ASSUME SchedulerAssumption ==
  /\ TypeOf \in [Tasks -> Types]
  /\ Loaded \in [Types -> Seq(Tasks)]
  /\ \A t \in Types : \A i \in DOMAIN Loaded[t] : TypeOf[Loaded[t][i]] = t
  /\ MaxDepth \in Nat
  /\ CanShutDown \in BOOLEAN
  /\ None \notin Tasks /\ None \notin Threads /\ None \notin Types

VARIABLES
  queue,     \* self._queues
  active,    \* self._active: per type the registered worker thread, or None
  wake,      \* self._wake.is_set()
  stop,      \* self._stop.is_set()
  loop,      \* where _scheduler_loop is
  starter,   \* where the caller of start() is
  caller,    \* per task, where its enqueue() call is
  wpc,       \* per thread, where _batch_worker is
  wtype,     \* per thread, its task_type argument
  wtask,     \* per thread, the task it runs
  shut,      \* where the caller of shutdown() is
  joining,   \* the workers shutdown() has still to join
  gaveUp     \* some join of shutdown() timed out

vars == <<queue, active, wake, stop, loop, starter, caller,
          wpc, wtype, wtask, shut, joining, gaveUp>>

workerVars == <<wpc, wtype, wtask>>
shutVars == <<stop, shut, joining, gaveUp>>

AnyQueued == \E t \in Types : queue[t] # <<>>
LoadedTasks == {k \in Tasks : \E t \in Types : \E i \in DOMAIN Loaded[t] : Loaded[t][i] = k}

(* __init__ and _load_queued_tasks: the rows are appended whatever the depth limit. *)
Init ==
  /\ queue = Loaded
  /\ active = [t \in Types |-> None]
  /\ wake = FALSE
  /\ stop = FALSE
  /\ loop = "off"
  /\ starter = "new"
  /\ caller = [k \in Tasks |-> IF k \in LoadedTasks THEN "accepted" ELSE "new"]
  /\ wpc = [w \in Threads |-> "dead"]
  /\ wtype = [w \in Threads |-> None]
  /\ wtask = [w \in Threads |-> None]
  /\ shut = "idle"
  /\ joining = {}
  /\ gaveUp = FALSE

-----------------------------------------------------------------------------
(* enqueue(), the part under the lock. *)

\* Mutant: the depth test lets one task too many in.
EnqueueOffByOne(k) ==
  /\ caller[k] = "new"
  /\ Len(queue[TypeOf[k]]) <= MaxDepth
  /\ queue' = [queue EXCEPT ![TypeOf[k]] = Append(@, k)]
  /\ caller' = [caller EXCEPT ![k] = "appended"]
  /\ UNCHANGED <<active, wake, loop, starter, workerVars, shutVars>>

Enqueue(k) ==
  /\ caller[k] = "new"
  /\ Len(queue[TypeOf[k]]) < MaxDepth
  /\ queue' = [queue EXCEPT ![TypeOf[k]] = Append(@, k)]
  /\ caller' = [caller EXCEPT ![k] = "appended"]
  /\ UNCHANGED <<active, wake, loop, starter, workerVars, shutVars>>

EnqueueFull(k) ==
  /\ caller[k] = "new"
  /\ Len(queue[TypeOf[k]]) >= MaxDepth
  /\ caller' = [caller EXCEPT ![k] = "refused"]
  /\ UNCHANGED <<queue, active, wake, loop, starter, workerVars, shutVars>>

(* enqueue(), after the lock is released: self._wake.set(); return True. *)
EnqueueWake(k) ==
  /\ caller[k] = "appended"
  /\ wake' = TRUE
  /\ caller' = [caller EXCEPT ![k] = "accepted"]
  /\ UNCHANGED <<queue, active, loop, starter, workerVars, shutVars>>

-----------------------------------------------------------------------------
(* start(): the loop thread, then a wake-up for the rows loaded earlier. *)

Start ==
  /\ starter = "new"
  /\ starter' = "kick"
  /\ loop' = "check"
  /\ UNCHANGED <<queue, active, wake, caller, workerVars, shutVars>>

\* Mutant: start() without the wake-up for resumed tasks.
StartKickSilently ==
  /\ starter = "kick"
  /\ starter' = "done"
  /\ UNCHANGED <<queue, active, wake, loop, caller, workerVars, shutVars>>

StartKick ==
  /\ starter = "kick"
  /\ starter' = "done"
  /\ wake' = (wake \/ AnyQueued)
  /\ UNCHANGED <<queue, active, loop, caller, workerVars, shutVars>>

-----------------------------------------------------------------------------
(* _scheduler_loop(). *)

LoopCheck ==
  /\ loop = "check"
  /\ loop' = IF stop THEN "exited" ELSE "wait"
  /\ UNCHANGED <<queue, active, wake, starter, caller, workerVars, shutVars>>

(* self._wake.wait(timeout=30) returns because the event is set ... *)
LoopWoken ==
  /\ loop = "wait"
  /\ wake
  /\ loop' = "clear"
  /\ UNCHANGED <<queue, active, wake, starter, caller, workerVars, shutVars>>

(* ... or because 30 seconds have passed. *)
LoopTimeout ==
  /\ loop = "wait"
  /\ ~wake
  /\ loop' = "clear"
  /\ UNCHANGED <<queue, active, wake, starter, caller, workerVars, shutVars>>

LoopClear ==
  /\ loop = "clear"
  /\ wake' = FALSE
  /\ loop' = "scan"
  /\ UNCHANGED <<queue, active, starter, caller, workerVars, shutVars>>

(* The entries whose thread is still alive: the others are deleted first. *)
Alive(w) == w # None /\ wpc[w] # "dead"
Reaped == [t \in Types |-> IF active[t] # None /\ Alive(active[t]) THEN active[t] ELSE None]

(* Types that get a new worker.  All of them get one in this block, so the *)
(* sort by queue length decides nothing that the state shows.              *)
\* Mutant: forgets `t not in self._active`.
CandidatesAll == {t \in Types : queue[t] # <<>>}
Candidates == {t \in Types : queue[t] # <<>> /\ Reaped[t] = None}

(* A fresh thread is a dead identity nobody refers to any more. *)
FreeThreads == {w \in Threads : wpc[w] = "dead" /\ w \notin joining /\ \A t \in Types : active[t] # w}

(* The block under the lock: one thread per candidate. *)
LoopScan ==
  /\ loop = "scan"
  /\ \E new \in [Candidates -> FreeThreads] :
       /\ \A s, t \in Candidates : new[s] = new[t] => s = t
       /\ active' = [t \in Types |-> IF t \in Candidates THEN new[t] ELSE Reaped[t]]
       /\ wpc' = [w \in Threads |-> IF \E t \in Candidates : new[t] = w THEN "take" ELSE wpc[w]]
       /\ wtype' = [w \in Threads |-> IF \E t \in Candidates : new[t] = w
                                      THEN CHOOSE t \in Candidates : new[t] = w
                                      ELSE wtype[w]]
  /\ loop' = "check"
  /\ UNCHANGED <<queue, wake, starter, caller, wtask, shutVars>>

-----------------------------------------------------------------------------
(* _batch_worker(). *)

Take(w) ==
  /\ wpc[w] = "take"
  /\ queue[wtype[w]] # <<>>
  /\ wtask' = [wtask EXCEPT ![w] = Head(queue[wtype[w]])]
  /\ queue' = [queue EXCEPT ![wtype[w]] = Tail(@)]
  /\ wpc' = [wpc EXCEPT ![w] = "run"]
  /\ UNCHANGED <<active, wake, loop, starter, caller, wtype, shutVars>>

TakeNothing(w) ==
  /\ wpc[w] = "take"
  /\ queue[wtype[w]] = <<>>
  /\ wpc' = [wpc EXCEPT ![w] = "exit"]
  /\ UNCHANGED <<queue, active, wake, loop, starter, caller, wtype, wtask, shutVars>>

(* run_task_fn returns, or raises an Exception that is logged ("take"); a  *)
(* BaseException such as SystemExit leaves the loop through the finally    *)
(* clause ("exit") with the rest of the queue untouched.                   *)
RunEnds(w) ==
  /\ wpc[w] = "run"
  /\ wpc' \in {[wpc EXCEPT ![w] = "take"], [wpc EXCEPT ![w] = "exit"]}
  /\ wtask' = [wtask EXCEPT ![w] = None]
  /\ UNCHANGED <<queue, active, wake, loop, starter, caller, wtype, shutVars>>

(* finally, under the lock: self._active.pop(task_type, None). *)
\* Mutant: the worker ends without its last wake-up.
ExitSilently(w) ==
  /\ wpc[w] = "exit"
  /\ active' = [active EXCEPT ![wtype[w]] = None]
  /\ wpc' = [wpc EXCEPT ![w] = "dead"]
  /\ UNCHANGED <<queue, wake, loop, starter, caller, wtype, wtask, shutVars>>

Exit(w) ==
  /\ wpc[w] = "exit"
  /\ active' = [active EXCEPT ![wtype[w]] = None]
  /\ wpc' = [wpc EXCEPT ![w] = "signal"]
  /\ UNCHANGED <<queue, wake, loop, starter, caller, wtype, wtask, shutVars>>

(* finally, after the lock: self._wake.set(). *)
Signal(w) ==
  /\ wpc[w] = "signal"
  /\ wake' = TRUE
  /\ wpc' = [wpc EXCEPT ![w] = "dead"]
  /\ wtype' = [wtype EXCEPT ![w] = None]
  /\ UNCHANGED <<queue, active, loop, starter, caller, wtask, shutVars>>

-----------------------------------------------------------------------------
(* shutdown(). *)

ShutdownStop ==
  /\ CanShutDown
  /\ shut = "idle"
  /\ stop' = TRUE
  /\ shut' = "wake"
  /\ UNCHANGED <<queue, active, wake, loop, starter, caller, workerVars, joining, gaveUp>>

ShutdownWake ==
  /\ shut = "wake"
  /\ wake' = TRUE
  /\ shut' = "joinLoop"
  /\ UNCHANGED <<queue, active, loop, starter, caller, workerVars, stop, joining, gaveUp>>

(* self._thread.join(timeout), skipped when the thread is not alive. *)
ShutdownJoinLoop ==
  /\ shut = "joinLoop"
  /\ gaveUp' = (gaveUp \/ loop \notin {"off", "exited"})
  /\ shut' = "snapshot"
  /\ UNCHANGED <<queue, active, wake, loop, starter, caller, workerVars, stop, joining>>

\* Mutant: only the loop thread is joined.
ShutdownSnapshotNothing ==
  /\ shut = "snapshot"
  /\ joining' = {}
  /\ shut' = "joinWorkers"
  /\ UNCHANGED <<queue, active, wake, loop, starter, caller, workerVars, stop, gaveUp>>

ShutdownSnapshot ==
  /\ shut = "snapshot"
  /\ joining' = {active[t] : t \in Types} \ {None}
  /\ shut' = "joinWorkers"
  /\ UNCHANGED <<queue, active, wake, loop, starter, caller, workerVars, stop, gaveUp>>

(* worker.join(timeout): gives up on a worker that is still alive. *)
ShutdownJoinWorker(w) ==
  /\ shut = "joinWorkers"
  /\ w \in joining
  /\ gaveUp' = (gaveUp \/ wpc[w] # "dead")
  /\ joining' = joining \ {w}
  /\ UNCHANGED <<queue, active, wake, loop, starter, caller, workerVars, stop, shut>>

ShutdownReturn ==
  /\ shut = "joinWorkers"
  /\ joining = {}
  /\ shut' = "done"
  /\ UNCHANGED <<queue, active, wake, loop, starter, caller, workerVars, stop, joining, gaveUp>>

-----------------------------------------------------------------------------
Callers == \E k \in Tasks : Enqueue(k) \/ EnqueueFull(k) \/ EnqueueWake(k)
Loop == LoopCheck \/ LoopWoken \/ LoopTimeout \/ LoopClear \/ LoopScan
Worker(w) == Take(w) \/ TakeNothing(w) \/ RunEnds(w) \/ Exit(w) \/ Signal(w)
Shutdown ==
  \/ ShutdownStop \/ ShutdownWake \/ ShutdownJoinLoop \/ ShutdownSnapshot \/ ShutdownReturn
  \/ \E w \in Threads : ShutdownJoinWorker(w)

Next ==
  \/ Callers
  \/ Start \/ StartKick
  \/ Loop
  \/ \E w \in Threads : Worker(w)
  \/ Shutdown

Spec == Init /\ [][Next]_vars

(* The operating system runs every thread that is not blocked, and         *)
(* run_task_fn ends.  Nobody is obliged to call enqueue() or shutdown(),   *)
(* and LoopTimeout is not fair: the 30-second poll must not be needed.     *)
Fairness ==
  /\ WF_vars(Start) /\ WF_vars(StartKick)
  /\ WF_vars(LoopCheck \/ LoopWoken \/ LoopClear \/ LoopScan)
  /\ \A k \in Tasks : WF_vars(EnqueueWake(k))
  /\ \A w \in Threads : WF_vars(Worker(w))

FairSpec == Spec /\ Fairness

-----------------------------------------------------------------------------
(* Every variable has its type, and no queue is longer than max_queue_depth *)
(* or than the rows it was resumed with (enqueue's depth test).             *)
TypeOK ==
  /\ queue \in [Types -> Seq(Tasks)]
  /\ \A t \in Types : Len(queue[t]) <= MaxDepth \/ Len(queue[t]) <= Len(Loaded[t])
  /\ active \in [Types -> Threads \cup {None}]
  /\ wake \in BOOLEAN /\ stop \in BOOLEAN /\ gaveUp \in BOOLEAN
  /\ loop \in {"off", "check", "wait", "clear", "scan", "exited"}
  /\ starter \in {"new", "kick", "done"}
  /\ caller \in [Tasks -> {"new", "appended", "accepted", "refused"}]
  /\ wpc \in [Threads -> {"dead", "take", "run", "exit", "signal"}]
  /\ wtype \in [Threads -> Types \cup {None}]
  /\ wtask \in [Threads -> Tasks \cup {None}]
  /\ shut \in {"idle", "wake", "joinLoop", "snapshot", "joinWorkers", "done"}
  /\ joining \in SUBSET Threads

(* A worker that may still take or run a task of its type. *)
Working(w) == wpc[w] \in {"take", "run", "exit"}

(* _active is exact: a type's entry is the one worker of that type that has *)
(* not yet left its finally block, so two workers never serve one type,     *)
(* whatever the order of the last worker's exit and the next scan.          *)
OneWorkerPerType ==
  /\ \A t \in Types : active[t] # None => Working(active[t]) /\ wtype[active[t]] = t
  /\ \A w \in Threads : Working(w) => wtype[w] \in Types /\ active[wtype[w]] = w

(* Somebody is committed to setting the wake event. *)
SignalPending ==
  \/ starter = "kick"
  \/ \E k \in Tasks : caller[k] = "appended"
  \/ \E w \in Threads : wpc[w] = "signal"

(* No lost wake-up: when the loop is about to block on a clear event, every *)
(* type with queued tasks has a worker, or a thread that has still to call  *)
(* _wake.set().  A task never has to wait for the 30-second poll.           *)
NoLostWakeup ==
  loop \in {"check", "wait"} /\ ~wake =>
    SignalPending \/ \A t \in Types : queue[t] # <<>> => active[t] # None

(* A shutdown() none of whose joins timed out leaves no worker that could   *)
(* still touch a task, and no loop that could start one.                    *)
CleanShutdown ==
  shut = "done" /\ ~gaveUp =>
    /\ \A w \in Threads : ~Working(w)
    /\ loop \notin {"clear", "scan"}

-----------------------------------------------------------------------------
(* What the caller of enqueue() sees of the threads. *)
RunningOf(t) ==
  IF \E w \in Threads : wpc[w] = "run" /\ wtype[w] = t
  THEN wtask[CHOOSE w \in Threads : wpc[w] = "run" /\ wtype[w] = t]
  ELSE None
Running == [t \in Types |-> RunningOf(t)]
InQueue == UNION {{queue[t][i] : i \in DOMAIN queue[t]} : t \in Types}
InThread == {wtask[w] : w \in Threads} \ {None}
Refused == {k \in Tasks : caller[k] = "refused"}
Finished == {k \in Tasks : caller[k] \in {"appended", "accepted"}} \ (InQueue \cup InThread)

TQ == INSTANCE TaskQueue WITH
        pending <- queue, running <- Running, finished <- Finished, refused <- Refused

(* The scheduler is a bounded FIFO per type that runs one task of a type at *)
(* a time and each accepted task at most once, shutdown() included.         *)
ImplementsTaskQueue == TQ!TQSafety

(* Without shutdown(), it also begins every accepted task (fair threads).   *)
ImplementsFairTaskQueue == TQ!TQSpec

-----------------------------------------------------------------------------
(* docs/modules/tasks.md on reset_scheduler(): "cancels pending tasks".     *)
(* No task begins once shutdown() has returned.                             *)
ShutdownCancelsPending ==
  [][shut = "done" => \A w \in Threads : wpc[w] = "take" => wpc'[w] # "run"]_vars

(* docs/modules/tasks.md: the scheduler executes tasks one after the other. *)
OneTaskAtATime ==
  \A v, w \in Threads : wpc[v] = "run" /\ wpc[w] = "run" => v = w

-----------------------------------------------------------------------------
(* Proofs, for every set of types, tasks and threads, every depth limit and *)
(* every list of resumed rows.                                              *)

(* The inductive invariant: the registered worker of a type is its only    *)
(* worker, and a loop about to block has missed nothing.  CleanShutdown    *)
(* needs two facts more: a loop that left through the stop flag stays out, *)
(* and the workers shutdown() has not joined yet include every live one.   *)
IInv ==
  /\ TypeOK
  /\ OneWorkerPerType
  /\ NoLostWakeup
  /\ shut # "idle" => stop
  /\ shut \in {"snapshot", "joinWorkers", "done"} /\ ~gaveUp => loop \notin {"clear", "scan", "wait"}
  /\ shut \in {"joinWorkers", "done"} /\ ~gaveUp =>
        \A w \in Threads : Working(w) => w \in joining
  /\ shut = "done" => joining = {}

LEMMA InitIInv == Init => IInv
<1> SUFFICES ASSUME Init PROVE IInv
  OBVIOUS
<1> USE SchedulerAssumption DEF Init
<1>1. TypeOK
  <2>1. queue \in [Types -> Seq(Tasks)]
    OBVIOUS
  <2>2. \A t \in Types : Len(queue[t]) <= MaxDepth \/ Len(queue[t]) <= Len(Loaded[t])
    <3> SUFFICES ASSUME NEW t \in Types PROVE Len(Loaded[t]) <= Len(Loaded[t])
      OBVIOUS
    <3>1. Loaded[t] \in Seq(Tasks)
      OBVIOUS
    <3> QED
      BY <3>1
  <2>3. caller \in [Tasks -> {"new", "appended", "accepted", "refused"}]
    OBVIOUS
  <2>4. /\ active \in [Types -> Threads \cup {None}]
        /\ wpc \in [Threads -> {"dead", "take", "run", "exit", "signal"}]
        /\ wtype \in [Threads -> Types \cup {None}]
        /\ wtask \in [Threads -> Tasks \cup {None}]
    OBVIOUS
  <2> QED
    BY <2>1, <2>2, <2>3, <2>4 DEF TypeOK
<1>2. OneWorkerPerType
  BY DEF OneWorkerPerType, Working
<1> QED
  BY <1>1, <1>2 DEF IInv, NoLostWakeup

-----------------------------------------------------------------------------
(* The actions of enqueue() and start(). *)
LEMMA CallersIInv == IInv /\ Callers => IInv'
<1> SUFFICES ASSUME IInv, NEW k \in Tasks, Enqueue(k) \/ EnqueueFull(k) \/ EnqueueWake(k)
             PROVE  IInv'
  BY DEF Callers
<1> USE SchedulerAssumption DEF IInv, TypeOK, OneWorkerPerType, Working, NoLostWakeup,
        SignalPending, workerVars, shutVars
<1>1. CASE Enqueue(k)
  <2>1. TypeOK'
    BY <1>1 DEF Enqueue
  <2>2. QED
    BY <1>1, <2>1 DEF Enqueue
<1>2. CASE EnqueueFull(k)
  BY <1>2 DEF EnqueueFull
<1>3. CASE EnqueueWake(k)
  BY <1>3 DEF EnqueueWake
<1> QED
  BY <1>1, <1>2, <1>3

LEMMA StartIInv == IInv /\ (Start \/ StartKick) => IInv'
<1> USE SchedulerAssumption DEF IInv, TypeOK, OneWorkerPerType, Working, NoLostWakeup,
        SignalPending, workerVars, shutVars
<1>1. ASSUME IInv, Start PROVE IInv'
  BY <1>1 DEF Start
<1>2. ASSUME IInv, StartKick PROVE IInv'
  BY <1>2 DEF StartKick, AnyQueued
<1> QED
  BY <1>1, <1>2

-----------------------------------------------------------------------------
(* The loop. *)
LEMMA ScanIInv == IInv /\ LoopScan => IInv'
<1> SUFFICES ASSUME IInv, LoopScan PROVE IInv'
  OBVIOUS
<1> USE SchedulerAssumption DEF IInv, TypeOK, shutVars
<1>1. PICK new \in [Candidates -> FreeThreads] :
        /\ \A s, t \in Candidates : new[s] = new[t] => s = t
        /\ active' = [t \in Types |-> IF t \in Candidates THEN new[t] ELSE Reaped[t]]
        /\ wpc' = [w \in Threads |-> IF \E t \in Candidates : new[t] = w THEN "take" ELSE wpc[w]]
        /\ wtype' = [w \in Threads |-> IF \E t \in Candidates : new[t] = w
                                       THEN CHOOSE t \in Candidates : new[t] = w
                                       ELSE wtype[w]]
  BY DEF LoopScan
<1>2. Candidates \subseteq Types
  BY DEF Candidates
<1>3. \A t \in Types : Reaped[t] = active[t]
  BY DEF OneWorkerPerType, Working, Reaped, Alive
<1>4. \A t \in Candidates : new[t] \in Threads /\ wpc[new[t]] = "dead" /\ new[t] \notin joining
  BY <1>1 DEF FreeThreads
<1>5. \A t \in Candidates : wpc'[new[t]] = "take" /\ wtype'[new[t]] = t
  BY <1>1, <1>2, <1>4
<1>6. \A w \in Threads : ~(\E t \in Candidates : new[t] = w)
                           => wpc'[w] = wpc[w] /\ wtype'[w] = wtype[w]
  BY <1>1
<1>7. TypeOK'
  <2>1. active' \in [Types -> Threads \cup {None}]
    BY <1>1, <1>3, <1>4
  <2>2. wpc' \in [Threads -> {"dead", "take", "run", "exit", "signal"}]
    BY <1>1
  <2>3. wtype' \in [Threads -> Types \cup {None}]
    <3>1. ASSUME NEW w \in Threads PROVE wtype'[w] \in Types \cup {None}
      <4>1. CASE \E t \in Candidates : new[t] = w
        BY <1>2, <1>5, <4>1
      <4>2. CASE ~ \E t \in Candidates : new[t] = w
        BY <1>6, <4>2
      <4> QED
        BY <4>1, <4>2
    <3> QED
      BY <1>1, <3>1
  <2> QED
    BY <2>1, <2>2, <2>3 DEF LoopScan
<1>8. OneWorkerPerType'
  <2>1. ASSUME NEW t \in Types, active'[t] # None
        PROVE  wpc'[active'[t]] \in {"take", "run", "exit"} /\ wtype'[active'[t]] = t
    <3>1. CASE t \in Candidates
      <4>1. active'[t] = new[t]
        BY <1>1, <3>1
      <4> QED
        BY <1>5, <3>1, <4>1
    <3>2. CASE t \notin Candidates
      <4>1. active'[t] = active[t]
        BY <1>1, <1>3, <3>2
      <4>2. Working(active[t]) /\ wtype[active[t]] = t /\ active[t] \in Threads
        BY <2>1, <4>1 DEF OneWorkerPerType
      <4>3. \A s \in Candidates : new[s] # active[t]
        BY <1>4, <4>2 DEF Working
      <4> QED
        BY <1>6, <4>1, <4>2, <4>3 DEF Working
    <3> QED
      BY <3>1, <3>2
  <2>2. ASSUME NEW w \in Threads, Working(w)'
        PROVE  wtype'[w] \in Types /\ active'[wtype'[w]] = w
    <3>1. CASE \E t \in Candidates : new[t] = w
      BY <1>1, <1>2, <1>5, <3>1
    <3>2. CASE ~ \E t \in Candidates : new[t] = w
      <4>1. Working(w) /\ wtype'[w] = wtype[w]
        BY <1>6, <2>2, <3>2 DEF Working
      <4>2. active[wtype[w]] = w
        BY <4>1 DEF OneWorkerPerType
      <4>3. wtype[w] \in Types
        BY <4>1 DEF OneWorkerPerType
      <4>4. wtype[w] \notin Candidates
        BY <1>3, <4>2, <4>3 DEF Candidates
      <4> QED
        BY <1>1, <1>3, <4>1, <4>2, <4>3, <4>4
    <3> QED
      BY <3>1, <3>2
  <2> QED
    BY <2>1, <2>2 DEF OneWorkerPerType, Working
<1>9. NoLostWakeup'
  <2> SUFFICES ASSUME NEW t \in Types, queue'[t] # <<>> PROVE active'[t] # None
    BY DEF NoLostWakeup
  <2>1. queue[t] # <<>>
    BY DEF LoopScan
  <2>2. CASE t \in Candidates
    BY <1>1, <1>4, <2>2
  <2>3. CASE t \notin Candidates
    BY <1>1, <2>1, <2>3 DEF Candidates
  <2> QED
    BY <2>2, <2>3
<1>10. shut' \in {"snapshot", "joinWorkers", "done"} => gaveUp'
  BY DEF LoopScan
<1> QED
  BY <1>7, <1>8, <1>9, <1>10 DEF LoopScan

LEMMA LoopIInv == IInv /\ Loop => IInv'
<1> USE SchedulerAssumption DEF IInv, TypeOK, OneWorkerPerType, Working, NoLostWakeup,
        SignalPending, workerVars, shutVars
<1>1. ASSUME IInv, LoopCheck PROVE IInv'
  BY <1>1 DEF LoopCheck
<1>2. ASSUME IInv, LoopWoken \/ LoopTimeout PROVE IInv'
  BY <1>2 DEF LoopWoken, LoopTimeout
<1>3. ASSUME IInv, LoopClear PROVE IInv'
  BY <1>3 DEF LoopClear
<1> QED
  BY <1>1, <1>2, <1>3, ScanIInv DEF Loop

-----------------------------------------------------------------------------
(* The workers. *)
LEMMA WorkerIInv == ASSUME NEW w \in Threads PROVE IInv /\ Worker(w) => IInv'
<1> SUFFICES ASSUME IInv, Worker(w) PROVE IInv'
  OBVIOUS
<1> USE SchedulerAssumption DEF IInv, TypeOK, OneWorkerPerType, Working, NoLostWakeup,
        SignalPending, workerVars, shutVars
<1>1. CASE Take(w)
  <2>1. wtype[w] \in Types
    BY <1>1 DEF Take
  <2>2. TypeOK'
    BY <1>1, <2>1, SMTT(30) DEF Take
  <2>3. \A t \in Types : queue'[t] # <<>> => queue[t] # <<>>
    BY <1>1, <2>1 DEF Take
  <2> QED
    BY <1>1, <2>1, <2>2, <2>3, SMTT(30) DEF Take
<1>2. CASE TakeNothing(w)
  BY <1>2 DEF TakeNothing
<1>3. CASE RunEnds(w)
  <2>1. CASE wpc' = [wpc EXCEPT ![w] = "take"]
    BY <1>3, <2>1 DEF RunEnds
  <2>2. CASE wpc' = [wpc EXCEPT ![w] = "exit"]
    BY <1>3, <2>2 DEF RunEnds
  <2> QED
    BY <1>3, <2>1, <2>2 DEF RunEnds
<1>4. CASE Exit(w)
  <2>1. wtype[w] \in Types /\ active[wtype[w]] = w
    BY <1>4 DEF Exit
  <2> QED
    BY <1>4, <2>1 DEF Exit
<1>5. CASE Signal(w)
  BY <1>5 DEF Signal
<1> QED
  BY <1>1, <1>2, <1>3, <1>4, <1>5 DEF Worker

-----------------------------------------------------------------------------
(* shutdown(). *)
LEMMA ShutdownIInv == IInv /\ Shutdown => IInv'
<1> USE SchedulerAssumption DEF IInv, TypeOK, OneWorkerPerType, Working, NoLostWakeup,
        SignalPending, workerVars
<1>1. ASSUME IInv, ShutdownStop PROVE IInv'
  BY <1>1 DEF ShutdownStop
<1>6. ASSUME IInv, ShutdownWake PROVE IInv'
  BY <1>6 DEF ShutdownWake
<1>2. ASSUME IInv, ShutdownJoinLoop PROVE IInv'
  BY <1>2 DEF ShutdownJoinLoop
<1>3. ASSUME IInv, ShutdownSnapshot PROVE IInv'
  BY <1>3 DEF ShutdownSnapshot
<1>4. ASSUME IInv, NEW w \in Threads, ShutdownJoinWorker(w) PROVE IInv'
  BY <1>4 DEF ShutdownJoinWorker
<1>5. ASSUME IInv, ShutdownReturn PROVE IInv'
  BY <1>5 DEF ShutdownReturn
<1> QED
  BY <1>1, <1>2, <1>3, <1>4, <1>5, <1>6 DEF Shutdown

-----------------------------------------------------------------------------
(* Whatever the callers, the loop, the workers and shutdown() do. *)
THEOREM Invariance == Spec => []IInv
<1>1. IInv /\ [Next]_vars => IInv'
  <2>1. IInv /\ UNCHANGED vars => IInv'
    BY DEF IInv, TypeOK, OneWorkerPerType, Working, NoLostWakeup, SignalPending,
           vars, workerVars, shutVars
  <2> QED
    BY <2>1, CallersIInv, StartIInv, LoopIInv, WorkerIInv, ShutdownIInv DEF Next
<1> QED
  BY <1>1, InitIInv, PTL DEF Spec

(* The types of the state, and the bound max_queue_depth puts on a queue.  *)
THEOREM TypeCorrect == Spec => []TypeOK
BY Invariance, PTL DEF IInv

(* However many threads enqueue, finish and scan at once, a type never has *)
(* two workers, and _active never loses one (_scheduler_loop, _batch_worker). *)
THEOREM SerialPerType == Spec => []OneWorkerPerType
BY Invariance, PTL DEF IInv

(* The loop never blocks on a clear event with work nobody will announce.  *)
THEOREM WakeupsAreNotLost == Spec => []NoLostWakeup
BY Invariance, PTL DEF IInv

(* A shutdown() whose joins all succeeded leaves no live worker behind.    *)
THEOREM ShutdownIsClean == Spec => []CleanShutdown
<1>1. IInv => CleanShutdown
  BY DEF IInv, CleanShutdown
<1> QED
  BY <1>1, Invariance, PTL

-----------------------------------------------------------------------------
(* The scheduler implements the abstract queue.                            *)

(* _load_queued_tasks reads each task once: the id is the table's key.     *)
RowsAreDistinct ==
  \A t \in Types : \A i, j \in DOMAIN Loaded[t] : Loaded[t][i] = Loaded[t][j] => i = j

(* A task that was accepted is in one place at most: at one position of    *)
(* the queue of its type, or with the worker that runs it.                 *)
Enqueued(k) == caller[k] \in {"appended", "accepted"}
QueueOK(t) ==
  /\ \A i \in DOMAIN queue[t] : TypeOf[queue[t][i]] = t /\ Enqueued(queue[t][i])
  /\ \A i, j \in DOMAIN queue[t] : queue[t][i] = queue[t][j] => i = j
WorkerOK(w) ==
  /\ wpc[w] # "run" => wtask[w] = None
  /\ wpc[w] = "run" =>
       /\ wtask[w] \in Tasks /\ TypeOf[wtask[w]] = wtype[w] /\ Enqueued(wtask[w])
       /\ \A i \in DOMAIN queue[wtype[w]] : queue[wtype[w]][i] # wtask[w]
Once == (\A t \in Types : QueueOK(t)) /\ (\A w \in Threads : WorkerOK(w))

(* It holds of the rows resumed at the start.                              *)
LEMMA InitOnce == ASSUME RowsAreDistinct PROVE Init => Once
<1> SUFFICES ASSUME Init PROVE Once
  OBVIOUS
<1>1. ASSUME NEW t \in Types PROVE QueueOK(t)
  <2>1. queue[t] = Loaded[t] /\ Loaded[t] \in Seq(Tasks)
    BY SchedulerAssumption DEF Init
  <2>2. ASSUME NEW i \in DOMAIN Loaded[t] PROVE Enqueued(Loaded[t][i])
    <3>1. Loaded[t][i] \in Tasks
      BY <2>1
    <3> QED
      BY <3>1 DEF Init, Enqueued, LoadedTasks
  <2> QED
    BY <2>1, <2>2, SchedulerAssumption DEF QueueOK, RowsAreDistinct
<1>2. ASSUME NEW w \in Threads PROVE WorkerOK(w)
  BY DEF Init, WorkerOK
<1> QED
  BY <1>1, <1>2 DEF Once

\* Where queues, callers and what runs stay, or callers only move on.
LEMMA OnceStays ==
  ASSUME Once, queue' = queue, \A k \in Tasks : Enqueued(k) => Enqueued(k)', IInv,
         \A w \in Threads : \/ wpc'[w] = wpc[w] /\ wtask'[w] = wtask[w] /\ (wpc[w] = "run" => wtype'[w] = wtype[w])
                            \/ wpc'[w] # "run" /\ wtask'[w] = None
                            \/ wpc[w] # "run" /\ wpc'[w] # "run" /\ wtask'[w] = wtask[w]
  PROVE  Once'
<1>1. ASSUME NEW t \in Types PROVE QueueOK(t)'
  <2>1. \A i \in DOMAIN queue[t] : queue[t][i] \in Tasks
    BY DEF IInv, TypeOK
  <2>2. QueueOK(t)
    BY DEF Once
  <2> QED
    BY <2>1, <2>2 DEF QueueOK
<1>2. ASSUME NEW w \in Threads PROVE WorkerOK(w)'
  <2>1. WorkerOK(w)
    BY DEF Once
  <2>2. CASE wpc'[w] = wpc[w] /\ wtask'[w] = wtask[w] /\ (wpc[w] = "run" => wtype'[w] = wtype[w])
    BY <2>1, <2>2 DEF WorkerOK
  <2>3. CASE wpc'[w] # "run" /\ wtask'[w] = None
    BY <2>3 DEF WorkerOK
  <2>4. CASE wpc[w] # "run" /\ wpc'[w] # "run" /\ wtask'[w] = wtask[w]
    BY <2>1, <2>4 DEF WorkerOK
  <2> QED
    BY <2>2, <2>3, <2>4
<1> QED
  BY <1>1, <1>2 DEF Once

\* enqueue() appends a task that nobody has yet.
LEMMA EnqueueOnce == ASSUME IInv, Once, NEW k \in Tasks, Enqueue(k) PROVE Once'
<1> DEFINE T == TypeOf[k]
<1>1. T \in Types /\ queue[T] \in Seq(Tasks)
  BY SchedulerAssumption DEF IInv, TypeOK
<1>2. /\ queue'[T] = Append(queue[T], k) /\ \A t \in Types : t # T => queue'[t] = queue[t]
      /\ caller'[k] = "appended" /\ \A j \in Tasks : j # k => caller'[j] = caller[j]
      /\ ~Enqueued(k) /\ UNCHANGED workerVars
  BY <1>1 DEF Enqueue, Enqueued, IInv, TypeOK
<1>3. ASSUME NEW t \in Types PROVE QueueOK(t)'
  <2>1. QueueOK(t) /\ queue[t] \in Seq(Tasks)
    BY DEF Once, IInv, TypeOK
  <2>2. CASE t # T
    BY <1>2, <2>1, <2>2 DEF QueueOK, Enqueued
  <2>3. CASE t = T
    <3>1. /\ DOMAIN queue'[t] = 1 .. Len(queue[t]) + 1 /\ Len(queue[t]) \in Nat
          /\ queue'[t][Len(queue[t]) + 1] = k
          /\ \A i \in 1 .. Len(queue[t]) : queue'[t][i] = queue[t][i] /\ queue[t][i] \in Tasks
      BY <1>1, <1>2, <2>1, <2>3
    <3>2. \A i \in 1 .. Len(queue[t]) : queue[t][i] # k /\ Enqueued(queue[t][i]) /\ TypeOf[queue[t][i]] = t
      BY <1>2, <2>1 DEF QueueOK
    <3>3. \A i \in DOMAIN queue'[t] : i \in 1 .. Len(queue[t]) \/ i = Len(queue[t]) + 1
      BY <3>1
    <3>4. \A i \in 1 .. Len(queue[t]) : caller'[queue'[t][i]] \in {"appended", "accepted"}
      BY <1>2, <3>1, <3>2 DEF Enqueued
    <3>5. \A i, j \in 1 .. Len(queue[t]) : queue[t][i] = queue[t][j] => i = j
      BY <2>1 DEF QueueOK
    <3>6. \A i \in DOMAIN queue'[t] : /\ TypeOf[queue'[t][i]] = t
                                     /\ caller'[queue'[t][i]] \in {"appended", "accepted"}
      <4> SUFFICES ASSUME NEW i \in DOMAIN queue'[t]
                   PROVE  TypeOf[queue'[t][i]] = t /\ caller'[queue'[t][i]] \in {"appended", "accepted"}
        OBVIOUS
      <4>1. CASE i = Len(queue[t]) + 1
        BY <1>2, <2>3, <3>1, <4>1
      <4>2. CASE i \in 1 .. Len(queue[t])
        BY <3>1, <3>2, <3>4, <4>2
      <4> QED
        BY <3>3, <4>1, <4>2
    <3>7. \A i, j \in DOMAIN queue'[t] : queue'[t][i] = queue'[t][j] => i = j
      BY <3>1, <3>2, <3>3, <3>5
    <3> QED
      BY <3>6, <3>7 DEF QueueOK, Enqueued
  <2> QED
    BY <2>2, <2>3
<1>4. ASSUME NEW w \in Threads PROVE WorkerOK(w)'
  <2>1. WorkerOK(w)
    BY DEF Once
  <2>2. CASE wpc[w] # "run"
    BY <1>2, <2>1, <2>2 DEF WorkerOK, workerVars
  <2>3. CASE wpc[w] = "run"
    <3>1. /\ wtask[w] \in Tasks /\ TypeOf[wtask[w]] = wtype[w] /\ Enqueued(wtask[w])
          /\ \A i \in DOMAIN queue[wtype[w]] : queue[wtype[w]][i] # wtask[w]
      BY <2>1, <2>3 DEF WorkerOK
    <3>2. wtask[w] # k /\ wtype[w] \in Types
      BY <1>2, <3>1, SchedulerAssumption
    <3>3. \A i \in DOMAIN queue'[wtype[w]] : queue'[wtype[w]][i] # wtask[w]
      <4>1. CASE wtype[w] = T
        <5>1. /\ DOMAIN queue'[T] = 1 .. Len(queue[T]) + 1 /\ Len(queue[T]) \in Nat
              /\ DOMAIN queue[T] = 1 .. Len(queue[T])
              /\ queue'[T][Len(queue[T]) + 1] = k
              /\ \A i \in 1 .. Len(queue[T]) : queue'[T][i] = queue[T][i]
          BY <1>1, <1>2
        <5>2. \A i \in DOMAIN queue'[T] : i \in DOMAIN queue[T] \/ i = Len(queue[T]) + 1
          BY <5>1
        <5> QED
          BY <3>1, <3>2, <4>1, <5>1, <5>2
      <4>2. CASE wtype[w] # T
        BY <1>2, <3>1, <3>2, <4>2
      <4> QED
        BY <4>1, <4>2
    <3>4. wpc' = wpc /\ wtype' = wtype /\ wtask' = wtask /\ caller'[wtask[w]] = caller[wtask[w]]
      BY <1>2, <3>1, <3>2 DEF workerVars
    <3> QED
      BY <2>3, <3>1, <3>3, <3>4 DEF WorkerOK, Enqueued
  <2> QED
    BY <2>2, <2>3
<1> QED
  BY <1>3, <1>4 DEF Once

\* popleft hands the first task over: it leaves the queue as it is taken.
LEMMA TakeOnce == ASSUME IInv, Once, NEW w \in Threads, Take(w) PROVE Once'
<1> DEFINE T == wtype[w]
<1>1. T \in Types /\ queue[T] \in Seq(Tasks) /\ queue[T] # <<>> /\ wpc[w] = "take"
  BY DEF Take, IInv, TypeOK, OneWorkerPerType, Working
<1>2. /\ queue'[T] = Tail(queue[T]) /\ \A t \in Types : t # T => queue'[t] = queue[t]
      /\ wtask'[w] = Head(queue[T]) /\ wpc'[w] = "run"
      /\ \A v \in Threads : v # w => wpc'[v] = wpc[v] /\ wtask'[v] = wtask[v]
      /\ caller' = caller /\ wtype' = wtype
  BY <1>1 DEF Take, IInv, TypeOK
<1>3. /\ Len(queue[T]) \in Nat /\ 1 \in DOMAIN queue[T] /\ Head(queue[T]) = queue[T][1] /\ queue[T][1] \in Tasks
      /\ \A i \in DOMAIN queue'[T] : i + 1 \in DOMAIN queue[T] /\ queue'[T][i] = queue[T][i + 1]
      /\ \A i \in DOMAIN queue'[T] : i \in Nat /\ i + 1 # 1
  BY <1>1, <1>2
<1>4. QueueOK(T)
  BY <1>1 DEF Once
<1>5. ASSUME NEW t \in Types PROVE QueueOK(t)'
  <2>1. CASE t # T
    BY <1>2, <2>1 DEF QueueOK, Enqueued, Once
  <2>2. CASE t = T
    <3>1. \A i, j \in DOMAIN queue'[T] : queue'[T][i] = queue'[T][j] => i + 1 = j + 1
      BY <1>3, <1>4 DEF QueueOK
    <3>2. \A i, j \in DOMAIN queue'[T] : i + 1 = j + 1 => i = j
      BY <1>3
    <3>3. \A i \in DOMAIN queue'[T] : /\ TypeOf[queue'[T][i]] = T
                                     /\ caller'[queue'[T][i]] \in {"appended", "accepted"}
      <4> SUFFICES ASSUME NEW i \in DOMAIN queue'[T]
                   PROVE  TypeOf[queue'[T][i]] = T /\ caller'[queue'[T][i]] \in {"appended", "accepted"}
        OBVIOUS
      <4>1. i + 1 \in DOMAIN queue[T] /\ queue'[T][i] = queue[T][i + 1]
        BY <1>3
      <4>2. TypeOf[queue[T][i + 1]] = T /\ Enqueued(queue[T][i + 1])
        BY <1>4, <4>1 DEF QueueOK
      <4> QED
        BY <1>2, <4>1, <4>2 DEF Enqueued
    <3>4. \A i, j \in DOMAIN queue'[T] : queue'[T][i] = queue'[T][j] => i = j
      BY <3>1, <3>2
    <3> QED
      BY <2>2, <3>3, <3>4 DEF QueueOK, Enqueued
  <2> QED
    BY <2>1, <2>2
<1>6. ASSUME NEW v \in Threads PROVE WorkerOK(v)'
  <2>1. CASE v = w
    <3>1. TypeOf[queue[T][1]] = T /\ Enqueued(queue[T][1]) /\ \A i \in DOMAIN queue'[T] : queue'[T][i] # queue[T][1]
      BY <1>3, <1>4 DEF QueueOK
    <3> QED
      BY <1>2, <1>3, <2>1, <3>1 DEF WorkerOK, Enqueued
  <2>2. CASE v # w
    <3>1. WorkerOK(v) /\ (wpc[v] = "run" => wtype[v] # T)
      BY <1>1, <2>2 DEF Once, IInv, OneWorkerPerType, Working
    <3>2. wpc[v] = "run" => wtype[v] \in Types
      BY DEF IInv, OneWorkerPerType, Working
    <3> QED
      BY <1>2, <2>2, <3>1, <3>2 DEF WorkerOK, Enqueued
  <2> QED
    BY <2>1, <2>2
<1> QED
  BY <1>5, <1>6 DEF Once

\* The scan starts workers where there was none and disturbs no other thread.
LEMMA ScanSpawns ==
  ASSUME LoopScan, NEW w \in Threads
  PROVE  \/ wpc'[w] = wpc[w] /\ wtype'[w] = wtype[w]
         \/ wpc[w] # "run" /\ wpc'[w] # "run"
<1>1. PICK new \in [Candidates -> FreeThreads] :
        /\ wpc' = [v \in Threads |-> IF \E t \in Candidates : new[t] = v THEN "take" ELSE wpc[v]]
        /\ wtype' = [v \in Threads |-> IF \E t \in Candidates : new[t] = v
                                       THEN CHOOSE t \in Candidates : new[t] = v ELSE wtype[v]]
  BY DEF LoopScan
<1>2. CASE \E t \in Candidates : new[t] = w
  BY <1>1, <1>2 DEF FreeThreads
<1>3. CASE ~\E t \in Candidates : new[t] = w
  BY <1>1, <1>3
<1> QED
  BY <1>2, <1>3

\* start(), the rest of the loop and shutdown() touch no task and no worker.
LEMMA OthersIdle ==
  ASSUME \/ Start \/ StartKick \/ LoopCheck \/ LoopWoken \/ LoopTimeout \/ LoopClear \/ Shutdown
         \/ UNCHANGED vars
  PROVE  UNCHANGED <<queue, caller, workerVars>>
<1>1. UNCHANGED vars => UNCHANGED <<queue, caller, workerVars>>
  BY DEF vars, workerVars
<1> QED
  BY <1>1 DEF Start, StartKick, LoopCheck, LoopWoken, LoopTimeout, LoopClear, Shutdown, ShutdownStop,
     ShutdownWake, ShutdownJoinLoop, ShutdownSnapshot, ShutdownReturn, ShutdownJoinWorker

(* No step of any thread puts a task in two places.                        *)
LEMMA OnceStep == IInv /\ Once /\ [Next]_vars => Once'
<1> SUFFICES ASSUME IInv, Once, [Next]_vars PROVE Once'
  OBVIOUS
<1>1. ASSUME NEW k \in Tasks, EnqueueFull(k) \/ EnqueueWake(k) PROVE Once'
  <2>1. \A j \in Tasks : Enqueued(j) => Enqueued(j)'
    BY <1>1 DEF EnqueueFull, EnqueueWake, Enqueued, IInv, TypeOK
  <2> QED
    BY <1>1, <2>1, OnceStays DEF EnqueueFull, EnqueueWake, workerVars
<1>2. CASE UNCHANGED <<queue, caller, workerVars>>
  BY <1>2, OnceStays DEF Enqueued, workerVars
<1>3. CASE LoopScan
  BY <1>3, ScanSpawns, OnceStays DEF LoopScan, Enqueued
<1>4. ASSUME NEW w \in Threads, TakeNothing(w) \/ RunEnds(w) \/ Exit(w) \/ Signal(w) PROVE Once'
  <2>1. CASE RunEnds(w)
    <3>1. \A v \in Threads : \/ wpc'[v] = wpc[v] /\ wtask'[v] = wtask[v] /\ wtype'[v] = wtype[v]
                             \/ wpc'[v] # "run" /\ wtask'[v] = None
      BY <2>1 DEF RunEnds, IInv, TypeOK
    <3> QED
      BY <2>1, <3>1, OnceStays DEF RunEnds, Enqueued
  <2>2. CASE ~RunEnds(w)
    <3>1. \A v \in Threads : /\ wtask'[v] = wtask[v]
                             /\ \/ wpc'[v] = wpc[v] /\ wtype'[v] = wtype[v]
                                \/ wpc[v] # "run" /\ wpc'[v] # "run"
      BY <1>4, <2>2 DEF TakeNothing, Exit, Signal, IInv, TypeOK
    <3> QED
      BY <1>4, <2>2, <3>1, OnceStays DEF TakeNothing, Exit, Signal, Enqueued
  <2> QED
    BY <2>1, <2>2
<1>5. CASE Start \/ StartKick \/ LoopCheck \/ LoopWoken \/ LoopTimeout \/ LoopClear \/ Shutdown \/ UNCHANGED vars
  BY <1>2, <1>5, OthersIdle
<1>7. ASSUME Callers PROVE Once'
  BY <1>1, <1>7, EnqueueOnce DEF Callers
<1>8. ASSUME NEW w \in Threads, Worker(w) PROVE Once'
  BY <1>4, <1>8, TakeOnce DEF Worker
<1> QED
  BY <1>3, <1>5, <1>7, <1>8 DEF Next, Loop

(* What a type runs is the task of its one running worker.                 *)
LEMMA RunningThread ==
  ASSUME IInv, NEW t \in Types
  PROVE  \/ \E w \in Threads : wpc[w] = "run" /\ wtype[w] = t /\ RunningOf(t) = wtask[w]
         \/ (\A w \in Threads : ~(wpc[w] = "run" /\ wtype[w] = t)) /\ RunningOf(t) = None
<1> DEFINE c == CHOOSE w \in Threads : wpc[w] = "run" /\ wtype[w] = t
<1>1. CASE \E w \in Threads : wpc[w] = "run" /\ wtype[w] = t
  <2>1. c \in Threads /\ wpc[c] = "run" /\ wtype[c] = t
    BY <1>1
  <2>2. RunningOf(t) = wtask[c]
    BY <1>1 DEF RunningOf
  <2> QED
    BY <2>1, <2>2
<1>2. CASE ~\E w \in Threads : wpc[w] = "run" /\ wtype[w] = t
  BY <1>2 DEF RunningOf
<1> QED
  BY <1>1, <1>2

\* The same after the step.
LEMMA RunningThreadNext ==
  ASSUME IInv', NEW t \in Types
  PROVE  \/ \E w \in Threads : wpc'[w] = "run" /\ wtype'[w] = t /\ RunningOf(t)' = wtask'[w]
         \/ (\A w \in Threads : ~(wpc'[w] = "run" /\ wtype'[w] = t)) /\ RunningOf(t)' = None
<1> DEFINE c == CHOOSE w \in Threads : wpc'[w] = "run" /\ wtype'[w] = t
<1>1. CASE \E w \in Threads : wpc'[w] = "run" /\ wtype'[w] = t
  <2>1. c \in Threads /\ wpc'[c] = "run" /\ wtype'[c] = t
    BY <1>1
  <2>2. RunningOf(t)' = wtask'[c]
    BY <1>1 DEF RunningOf
  <2> QED
    BY <2>1, <2>2
<1>2. CASE ~\E w \in Threads : wpc'[w] = "run" /\ wtype'[w] = t
  BY <1>2 DEF RunningOf
<1> QED
  BY <1>1, <1>2

\* The running worker of a type is one thread.
LEMMA OneRunner ==
  ASSUME OneWorkerPerType, NEW v \in Threads, NEW w \in Threads,
         wpc[v] = "run", wpc[w] = "run", wtype[v] = wtype[w]
  PROVE  v = w
BY DEF OneWorkerPerType, Working

\* The same after the step.
LEMMA OneRunnerNext ==
  ASSUME OneWorkerPerType', NEW v \in Threads, NEW w \in Threads,
         wpc'[v] = "run", wpc'[w] = "run", wtype'[v] = wtype'[w]
  PROVE  v = w
BY DEF OneWorkerPerType, Working

(* A task whose enqueue() has not begun is held nowhere.                   *)
LEMMA Fresh ==
  ASSUME IInv, Once, NEW k \in Tasks, caller[k] = "new"
  PROVE  TQ!Fresh(k)
<1>1. k \notin TQ!Queued(queue)
  BY DEF TQ!Queued, Once, QueueOK, Enqueued
<1>2. k \notin TQ!Executing(Running)
  <2>1. ASSUME NEW t \in Types PROVE RunningOf(t) # k \/ k = None
    BY RunningThread DEF Once, WorkerOK, Enqueued
  <2> QED
    BY <2>1 DEF TQ!Executing, Running
<1> QED
  BY <1>1, <1>2 DEF TQ!Fresh, Finished, Refused

\* A type keeps its running task as long as the same workers run it.
LEMMA SameRunner ==
  ASSUME IInv, IInv', NEW t \in Types,
         \A w \in Threads : /\ wpc[w] = "run" /\ wtype[w] = t <=> wpc'[w] = "run" /\ wtype'[w] = t
                            /\ wpc[w] = "run" /\ wtype[w] = t => wtask'[w] = wtask[w]
  PROVE  RunningOf(t)' = RunningOf(t)
<1>1. CASE \E w \in Threads : wpc[w] = "run" /\ wtype[w] = t
  <2>1. PICK v \in Threads : wpc[v] = "run" /\ wtype[v] = t /\ RunningOf(t) = wtask[v]
    BY <1>1, RunningThread
  <2>2. PICK w \in Threads : wpc'[w] = "run" /\ wtype'[w] = t /\ RunningOf(t)' = wtask'[w]
    BY <2>1, RunningThreadNext
  <2>3. v = w
    BY <2>1, <2>2, OneRunner DEF IInv
  <2> QED
    BY <2>1, <2>2, <2>3
<1>2. CASE ~\E w \in Threads : wpc[w] = "run" /\ wtype[w] = t
  <2>1. RunningOf(t) = None
    BY <1>2, RunningThread
  <2>2. RunningOf(t)' = None
    BY <1>2, RunningThreadNext
  <2> QED
    BY <2>1, <2>2
<1> QED
  BY <1>1, <1>2

\* A step at which nobody begins or ends a task.
LEMMA NothingRuns ==
  ASSUME IInv, IInv', Once, Once',
         \A w \in Threads : /\ wpc[w] = "run" <=> wpc'[w] = "run"
                            /\ wpc[w] = "run" => wtype'[w] = wtype[w] /\ wtask'[w] = wtask[w]
  PROVE  Running' = Running /\ InThread' = InThread
<1>1. ASSUME NEW t \in Types PROVE RunningOf(t)' = RunningOf(t)
  BY SameRunner
<1>2. \A w \in Threads : wtask'[w] = wtask[w]
  BY DEF Once, WorkerOK
<1> QED
  BY <1>1, <1>2 DEF Running, InThread

\* ... and nobody accepts or refuses one either: the queue does not see it.
LEMMA Stutters ==
  ASSUME IInv, IInv', Once, Once', queue' = queue,
         \A k \in Tasks : /\ caller[k] \in {"appended", "accepted"} <=> caller'[k] \in {"appended", "accepted"}
                          /\ caller[k] = "refused" <=> caller'[k] = "refused",
         \A w \in Threads : /\ wpc[w] = "run" <=> wpc'[w] = "run"
                            /\ wpc[w] = "run" => wtype'[w] = wtype[w] /\ wtask'[w] = wtask[w]
  PROVE  UNCHANGED TQ!tqVars
<1>1. Running' = Running /\ InThread' = InThread
  BY NothingRuns
<1>2. InQueue' = InQueue
  BY DEF InQueue
<1> QED
  BY <1>1, <1>2 DEF TQ!tqVars, Finished, Refused

\* Membership in the queues, by type and position.
LEMMA QueuedAt ==
  ASSUME NEW x
  PROVE  /\ x \in InQueue <=> \E t \in Types : \E i \in DOMAIN queue[t] : queue[t][i] = x
         /\ x \in InQueue' <=> \E t \in Types : \E i \in DOMAIN queue'[t] : queue'[t][i] = x
BY DEF InQueue

(* The append under the lock of enqueue() is Accept.                       *)
LEMMA EnqueueAccepts ==
  ASSUME IInv, IInv', Once, Once', NEW k \in Tasks, Enqueue(k)
  PROVE  TQ!Accept(k)
<1> DEFINE T == TypeOf[k]
<1>1. T \in Types /\ queue[T] \in Seq(Tasks)
  BY SchedulerAssumption DEF IInv, TypeOK
<1>2. TQ!Fresh(k)
  BY Fresh DEF Enqueue
<1>3. Running' = Running /\ InThread' = InThread
  BY NothingRuns DEF Enqueue, workerVars
<1>4. /\ caller[k] = "new" /\ caller'[k] = "appended"
      /\ \A j \in Tasks : j # k => caller'[j] = caller[j]
  BY DEF Enqueue, IInv, TypeOK
<1>5. Refused' = Refused
  BY <1>4 DEF Refused
<1>6. InQueue' = InQueue \cup {k}
  <2>1. /\ DOMAIN queue'[T] = 1 .. Len(queue[T]) + 1 /\ Len(queue[T]) \in Nat
        /\ DOMAIN queue[T] = 1 .. Len(queue[T])
        /\ queue'[T][Len(queue[T]) + 1] = k
        /\ \A i \in 1 .. Len(queue[T]) : queue'[T][i] = queue[T][i]
    BY <1>1 DEF Enqueue, IInv, TypeOK
  <2>2. /\ \A i \in DOMAIN queue'[T] : i \in DOMAIN queue[T] \/ i = Len(queue[T]) + 1
        /\ \A i \in DOMAIN queue[T] : i \in DOMAIN queue'[T]
        /\ Len(queue[T]) + 1 \in DOMAIN queue'[T]
    BY <2>1
  <2>3. \A t \in Types : t # T => queue'[t] = queue[t]
    BY DEF Enqueue, IInv, TypeOK
  <2>4. ASSUME NEW x PROVE x \in InQueue' <=> x \in InQueue \/ x = k
    <3>1. ASSUME x \in InQueue PROVE x \in InQueue'
      <4>1. PICK t \in Types : \E i \in DOMAIN queue[t] : queue[t][i] = x
        BY <3>1, QueuedAt
      <4>2. PICK i \in DOMAIN queue[t] : queue[t][i] = x
        BY <4>1
      <4>3. i \in DOMAIN queue'[t] /\ queue'[t][i] = x
        BY <2>1, <2>2, <2>3, <4>2
      <4> QED
        BY <4>3, QueuedAt
    <3>2. k \in InQueue'
      BY <1>1, <2>1, <2>2, QueuedAt
    <3>3. ASSUME x \in InQueue' PROVE x \in InQueue \/ x = k
      <4>1. PICK t \in Types : \E i \in DOMAIN queue'[t] : queue'[t][i] = x
        BY <3>3, QueuedAt
      <4>2. PICK i \in DOMAIN queue'[t] : queue'[t][i] = x
        BY <4>1
      <4>3. CASE t = T
        <5>1. i \in 1 .. Len(queue[T]) \/ i = Len(queue[T]) + 1
          BY <2>1, <4>2, <4>3
        <5>2. CASE i = Len(queue[T]) + 1
          BY <2>1, <4>2, <4>3, <5>2
        <5>3. CASE i \in 1 .. Len(queue[T])
          <6>1. queue[T][i] = x /\ i \in DOMAIN queue[T]
            BY <2>1, <4>2, <4>3, <5>3
          <6> QED
            BY <1>1, <6>1, QueuedAt
        <5> QED
          BY <5>1, <5>2, <5>3
      <4>4. CASE t # T
        BY <2>3, <4>2, <4>4, QueuedAt
      <4> QED
        BY <4>3, <4>4
    <3> QED
      BY <3>1, <3>2, <3>3
  <2> QED
    BY <2>4
<1>7. Finished' = Finished
  BY <1>3, <1>4, <1>6 DEF Finished
<1> QED
  BY <1>2, <1>3, <1>5, <1>7 DEF TQ!Accept, Enqueue

(* The depth test that fails is Refuse.                                    *)
LEMMA FullRefuses ==
  ASSUME IInv, IInv', Once, Once', NEW k \in Tasks, EnqueueFull(k)
  PROVE  TQ!Refuse(k)
<1>1. TQ!Fresh(k)
  BY Fresh DEF EnqueueFull
<1>2. Running' = Running /\ InThread' = InThread
  BY NothingRuns DEF EnqueueFull, workerVars
<1>3. /\ caller[k] = "new" /\ caller'[k] = "refused" /\ queue' = queue
      /\ \A j \in Tasks : j # k => caller'[j] = caller[j]
  BY DEF EnqueueFull, IInv, TypeOK
<1>4. Refused' = Refused \cup {k}
  BY <1>3 DEF Refused
<1>5. Finished' = Finished
  <2>1. InQueue' = InQueue
    BY <1>3 DEF InQueue
  <2> QED
    BY <1>2, <1>3, <2>1 DEF Finished
<1> QED
  BY <1>1, <1>2, <1>3, <1>4, <1>5 DEF TQ!Refuse, EnqueueFull

(* The popleft of a worker is Begin, for the type it serves.               *)
LEMMA TakeBegins ==
  ASSUME IInv, IInv', Once, Once', NEW w \in Threads, Take(w)
  PROVE  wtype[w] \in Types /\ TQ!Begin(wtype[w])
<1> DEFINE T == wtype[w]
           h == Head(queue[T])
<1>1. T \in Types /\ queue[T] \in Seq(Tasks) /\ queue[T] # <<>> /\ wpc[w] = "take"
  BY DEF Take, IInv, TypeOK, OneWorkerPerType, Working
<1>2. /\ queue' = [queue EXCEPT ![T] = Tail(@)] /\ wtask'[w] = h /\ wpc'[w] = "run"
      /\ \A v \in Threads : v # w => wpc'[v] = wpc[v] /\ wtask'[v] = wtask[v]
      /\ caller' = caller /\ wtype' = wtype
  BY <1>1 DEF Take, IInv, TypeOK
<1>3. \A v \in Threads : wpc[v] = "run" => wtype[v] # T
  BY <1>1 DEF IInv, OneWorkerPerType, Working
<1>4. RunningOf(T) = None
  BY <1>1, <1>3, RunningThread
<1>5. RunningOf(T)' = h
  <2>1. \A v \in Threads : wpc'[v] = "run" /\ wtype'[v] = T => v = w
    BY <1>2, <1>3
  <2>2. wpc'[w] = "run" /\ wtype'[w] = T
    BY <1>2
  <2>3. PICK v \in Threads : wpc'[v] = "run" /\ wtype'[v] = T /\ RunningOf(T)' = wtask'[v]
    BY <2>2 DEF RunningOf
  <2> QED
    BY <1>2, <2>1, <2>3
<1>6. ASSUME NEW t \in Types, t # T PROVE RunningOf(t)' = RunningOf(t)
  BY <1>2, <1>6, SameRunner
<1>7. Running' = [Running EXCEPT ![T] = h]
  BY <1>1, <1>2, <1>5, <1>6 DEF Running
<1>8. InThread' = InThread \cup {h}
  <2>1. wtask[w] = None
    BY <1>1 DEF Once, WorkerOK
  <2>2. h \in Tasks /\ h # None
    BY <1>1, SchedulerAssumption
  <2> QED
    BY <1>2, <2>1, <2>2 DEF InThread
<1>9. InQueue = InQueue' \cup {h}
  <2>1. /\ Len(queue[T]) \in Nat /\ DOMAIN queue[T] = 1 .. Len(queue[T]) /\ h = queue[T][1]
        /\ queue'[T] = Tail(queue[T]) /\ DOMAIN queue'[T] = 1 .. Len(queue[T]) - 1
        /\ \A i \in DOMAIN queue'[T] : queue'[T][i] = queue[T][i + 1]
        /\ Len(queue[T]) >= 1
    BY <1>1, <1>2 DEF IInv, TypeOK
  <2>2. /\ \A i \in DOMAIN queue'[T] : i + 1 \in DOMAIN queue[T]
        /\ \A i \in DOMAIN queue[T] : i = 1 \/ (i - 1 \in DOMAIN queue'[T] /\ (i - 1) + 1 = i)
        /\ 1 \in DOMAIN queue[T]
    BY <2>1
  <2>3. /\ \A i \in DOMAIN queue[T] : i = 1 \/ queue[T][i] = queue'[T][i - 1]
        /\ \A i \in DOMAIN queue[T] : i = 1 => queue[T][i] = h
    BY <2>1, <2>2
  <2>4. \A t \in Types : t # T => queue'[t] = queue[t]
    BY <1>2 DEF IInv, TypeOK
  <2>5. ASSUME NEW x, x \in InQueue' PROVE x \in InQueue
    <3>1. PICK t \in Types : \E i \in DOMAIN queue'[t] : queue'[t][i] = x
      BY <2>5, QueuedAt
    <3>2. CASE t = T
      <4>1. PICK i \in DOMAIN queue'[T] : queue'[T][i] = x
        BY <3>1, <3>2
      <4>2. i + 1 \in DOMAIN queue[T] /\ queue[T][i + 1] = x
        BY <2>1, <2>2, <4>1
      <4> QED
        BY <1>1, <4>2, QueuedAt
    <3>3. CASE t # T
      BY <2>4, <3>1, <3>3, QueuedAt
    <3> QED
      BY <3>2, <3>3
  <2>6. ASSUME NEW x, x \in InQueue PROVE x \in InQueue' \/ x = h
    <3>1. PICK t \in Types : \E i \in DOMAIN queue[t] : queue[t][i] = x
      BY <2>6, QueuedAt
    <3>2. CASE t = T
      <4>1. PICK i \in DOMAIN queue[T] : queue[T][i] = x
        BY <3>1, <3>2
      <4>2. CASE i = 1
        BY <2>3, <4>1, <4>2
      <4>3. CASE i # 1
        <5>1. i - 1 \in DOMAIN queue'[T] /\ queue'[T][i - 1] = x
          BY <2>2, <2>3, <4>1, <4>3
        <5> QED
          BY <1>1, <5>1, QueuedAt
      <4> QED
        BY <4>2, <4>3
    <3>3. CASE t # T
      BY <2>4, <3>1, <3>3, QueuedAt
    <3> QED
      BY <3>2, <3>3
  <2>7. h \in InQueue
    BY <1>1, <2>1, <2>2, QueuedAt
  <2> QED
    BY <2>5, <2>6, <2>7
<1>10. Finished' = Finished /\ Refused' = Refused
  BY <1>2, <1>8, <1>9 DEF Finished, Refused
<1>11. Running[T] = None
  BY <1>1, <1>4 DEF Running
<1> QED
  BY <1>1, <1>2, <1>7, <1>10, <1>11 DEF TQ!Begin

(* run_task_fn returning or raising is Finish.                             *)
LEMMA RunFinishes ==
  ASSUME IInv, IInv', Once, Once', NEW w \in Threads, RunEnds(w)
  PROVE  wtype[w] \in Types /\ TQ!Finish(wtype[w])
<1> DEFINE T == wtype[w]
           k == wtask[w]
<1>1. T \in Types /\ wpc[w] = "run" /\ wtype' = wtype /\ queue' = queue /\ caller' = caller
  BY DEF RunEnds, IInv, OneWorkerPerType, Working
<1>2. /\ wpc'[w] # "run" /\ wtask'[w] = None
      /\ \A v \in Threads : v # w => wpc'[v] = wpc[v] /\ wtask'[v] = wtask[v]
  BY DEF RunEnds, IInv, TypeOK
<1>3. /\ k \in Tasks /\ k # None /\ TypeOf[k] = T /\ Enqueued(k)
      /\ \A i \in DOMAIN queue[T] : queue[T][i] # k
  BY <1>1, SchedulerAssumption DEF Once, WorkerOK
<1>4. \A v \in Threads : wpc[v] = "run" /\ wtype[v] = T => v = w
  BY <1>1, OneRunner DEF IInv
<1>5. RunningOf(T) = k
  BY <1>1, <1>4, RunningThread
<1>6. RunningOf(T)' = None
  BY <1>1, <1>2, <1>4, RunningThreadNext
<1>7. ASSUME NEW t \in Types, t # T PROVE RunningOf(t)' = RunningOf(t)
  BY <1>1, <1>2, <1>7, SameRunner
<1>8. Running' = [Running EXCEPT ![T] = None]
  BY <1>1, <1>6, <1>7 DEF Running
<1>9. k \notin InQueue
  <2>1. ASSUME NEW t \in Types, NEW i \in DOMAIN queue[t], queue[t][i] = k PROVE FALSE
    <3>1. t = T
      BY <1>3, <2>1 DEF Once, QueueOK
    <3> QED
      BY <1>3, <2>1, <3>1
  <2> QED
    BY <2>1 DEF InQueue
<1>10. InThread' = InThread \ {k} /\ k \in InThread
  <2>1. ASSUME NEW v \in Threads, wtask[v] = k PROVE v = w
    BY <1>3, <1>4, <2>1 DEF Once, WorkerOK
  <2> QED
    BY <1>2, <1>3, <2>1 DEF InThread
<1>11. InQueue' = InQueue
  BY <1>1 DEF InQueue
<1>12. Finished' = Finished \cup {k} /\ Refused' = Refused
  BY <1>1, <1>3, <1>9, <1>10, <1>11 DEF Finished, Refused, Enqueued
<1>13. Running[T] = k
  BY <1>1, <1>5 DEF Running
<1> QED
  BY <1>1, <1>3, <1>8, <1>12, <1>13 DEF TQ!Finish

(* A new scheduler is the queue that holds the resumed rows.               *)
LEMMA InitQueue == Init => TQ!TQInit
<1> SUFFICES ASSUME Init PROVE TQ!TQInit
  OBVIOUS
<1>1. \A t \in Types : RunningOf(t) = None
  BY DEF Init, RunningOf
<1>2. Finished = {}
  BY DEF Init, Finished, InQueue, LoadedTasks
<1>3. Refused = {}
  BY DEF Init, Refused
<1> QED
  BY <1>1, <1>2, <1>3 DEF TQ!TQInit, Init, Running

(* Every step is one of the queue, or leaves it alone.                     *)
LEMMA StepQueue == IInv /\ IInv' /\ Once /\ Once' /\ [Next]_vars => [TQ!TQNext]_(TQ!tqVars)
<1> SUFFICES ASSUME IInv, IInv', Once, Once', [Next]_vars PROVE TQ!TQNext \/ UNCHANGED TQ!tqVars
  OBVIOUS
<1>1. CASE Callers
  <2>1. PICK k \in Tasks : Enqueue(k) \/ EnqueueFull(k) \/ EnqueueWake(k)
    BY <1>1 DEF Callers
  <2>2. CASE EnqueueWake(k)
    BY <2>2, Stutters DEF EnqueueWake, workerVars, IInv, TypeOK
  <2> QED
    BY <2>1, <2>2, EnqueueAccepts, FullRefuses DEF TQ!TQNext
<1>2. CASE UNCHANGED <<queue, caller, workerVars>>
  BY <1>2, Stutters DEF workerVars
<1>3. CASE LoopScan
  <2>1. \A w \in Threads : \/ wpc'[w] = wpc[w] /\ wtype'[w] = wtype[w]
                           \/ wpc[w] # "run" /\ wpc'[w] # "run"
    BY <1>3, ScanSpawns
  <2> QED
    BY <1>3, <2>1, Stutters DEF LoopScan
<1>4. ASSUME NEW w \in Threads, Worker(w) PROVE TQ!TQNext \/ UNCHANGED TQ!tqVars
  <2>1. CASE TakeNothing(w) \/ Exit(w) \/ Signal(w)
    <3>1. \A v \in Threads : /\ wtask'[v] = wtask[v]
                             /\ \/ wpc'[v] = wpc[v] /\ wtype'[v] = wtype[v]
                                \/ wpc[v] # "run" /\ wpc'[v] # "run"
      BY <2>1 DEF TakeNothing, Exit, Signal, IInv, TypeOK
    <3> QED
      BY <2>1, <3>1, Stutters DEF TakeNothing, Exit, Signal
  <2> QED
    BY <1>4, <2>1, TakeBegins, RunFinishes DEF Worker, TQ!TQNext
<1>5. CASE Start \/ StartKick \/ LoopCheck \/ LoopWoken \/ LoopTimeout \/ LoopClear \/ Shutdown \/ UNCHANGED vars
  BY <1>2, <1>5, OthersIdle
<1> QED
  BY <1>1, <1>3, <1>4, <1>5 DEF Next, Loop

(* A task is never in two places.                                          *)
LEMMA OnceAlways == ASSUME RowsAreDistinct PROVE Spec => []Once
<1>1. Init => Once
  BY InitOnce
<1> QED
  BY <1>1, OnceStep, Invariance, PTL DEF Spec

(* Every step of the threads is a step of TaskQueue or does not show: the   *)
(* appends of enqueue() are its Accept, the refusals its Refuse, and a      *)
(* worker's popleft and return from run_task_fn its Begin and Finish.  So   *)
(* tasks run in order, each at most once, through shutdown() as well.       *)
THEOREM SchedulerIsAQueue == ASSUME RowsAreDistinct PROVE Spec => ImplementsTaskQueue
<1>1. Spec => []Once
  BY OnceAlways
<1> QED
  BY <1>1, InitQueue, StepQueue, Invariance, PTL DEF Spec, ImplementsTaskQueue, TQ!TQSafety
=============================================================================
