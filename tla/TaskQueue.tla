------------------------------ MODULE TaskQueue ------------------------------
(***************************************************************************)
(* What circuitforge_core.tasks promises to the caller of enqueue(): a     *)
(* bounded FIFO per task type, executed serially per type.  No threads, no *)
(* events, no locks: LocalScheduler is shown to implement this.            *)
(***************************************************************************)
EXTENDS Naturals, Sequences

CONSTANTS
  Types,      \* task types ("cover_letter", "research", ...)
  Tasks,      \* task ids
  TypeOf,     \* the type of each task
  Loaded,     \* per type, the rows resumed from background_tasks
  MaxDepth,   \* max_queue_depth
  None        \* no task

VARIABLES
  pending,    \* per type, the accepted tasks not yet begun, in order
  running,    \* per type, the task being executed, or None
  finished,   \* tasks whose execution ended, by return or by exception
  refused     \* tasks for which enqueue() returned False

tqVars == <<pending, running, finished, refused>>

Queued(q) == UNION {{q[t][i] : i \in DOMAIN q[t]} : t \in Types}
Executing(r) == {r[t] : t \in Types} \ {None}

TQInit ==
  /\ pending = Loaded
  /\ running = [t \in Types |-> None]
  /\ finished = {}
  /\ refused = {}

Fresh(k) == k \notin Queued(pending) \cup Executing(running) \cup finished \cup refused

Accept(k) ==
  /\ Fresh(k)
  /\ Len(pending[TypeOf[k]]) < MaxDepth
  /\ pending' = [pending EXCEPT ![TypeOf[k]] = Append(@, k)]
  /\ UNCHANGED <<running, finished, refused>>

Refuse(k) ==
  /\ Fresh(k)
  /\ Len(pending[TypeOf[k]]) >= MaxDepth
  /\ refused' = refused \cup {k}
  /\ UNCHANGED <<pending, running, finished>>

Begin(t) ==
  /\ running[t] = None
  /\ pending[t] # <<>>
  /\ running' = [running EXCEPT ![t] = Head(pending[t])]
  /\ pending' = [pending EXCEPT ![t] = Tail(@)]
  /\ UNCHANGED <<finished, refused>>

Finish(t) ==
  /\ running[t] # None
  /\ finished' = finished \cup {running[t]}
  /\ running' = [running EXCEPT ![t] = None]
  /\ UNCHANGED <<pending, refused>>

TQNext ==
  \/ \E k \in Tasks : Accept(k) \/ Refuse(k)
  \/ \E t \in Types : Begin(t) \/ Finish(t)

TQSafety == TQInit /\ [][TQNext]_tqVars

TQFairness == \A t \in Types : WF_tqVars(Begin(t)) /\ WF_tqVars(Finish(t))

TQSpec == TQSafety /\ TQFairness
=============================================================================
