---------------------------- MODULE BGEReranker ----------------------------
(* The process-level reranker and the BGE adapter under it                  *)
(* (reranker/__init__.py, reranker/adapters/bge.py). Threads of one process *)
(* rerank through the singleton; another caller unloads the weights to free *)
(* VRAM between tasks. The adapter tests `_reranker is None` without its    *)
(* lock, load() takes the lock and gives it back, and compute_score takes   *)
(* it again: three sections, with room for an unload between any two.      *)
EXTENDS Naturals, FiniteSets

CONSTANTS Threads,    \* threads that call rerank()
          Adapters,   \* the adapter objects make_reranker() may construct
          MaxUnloads, \* bound on the number of unload() calls
          None

\* A thread that found no singleton can construct one.
ConstantsOK == /\ IsFiniteSet(Threads) /\ IsFiniteSet(Adapters)
               /\ Cardinality(Adapters) >= Cardinality(Threads)
               /\ None \notin Threads \cup Adapters

VARIABLES singleton, \* the module's _reranker: an adapter, or None
          made,      \* the adapters constructed so far
          weights,   \* adapter -> its _reranker is set
          lock,      \* adapter -> the thread in a locked section, or None
          pc,        \* thread -> where its rerank() call is
          own,       \* thread -> the adapter its call works on, or None
          loads,     \* adapter -> weights loaded and not released since
          unloads    \* unload() calls so far

vars == <<singleton, made, weights, lock, pc, own, loads, unloads>>

Places == {"idle", "construct", "return", "test", "load", "loading",
           "score", "scoring", "ok", "error"}

TypeOK == /\ singleton \in Adapters \cup {None}
          /\ made \subseteq Adapters
          /\ weights \in [Adapters -> BOOLEAN]
          /\ lock \in [Adapters -> Threads \cup {None}]
          /\ pc \in [Threads -> Places]
          /\ own \in [Threads -> Adapters \cup {None}]
          /\ loads \in [Adapters -> Nat]
          /\ unloads \in 0..MaxUnloads

Init == /\ singleton = None
        /\ made = {}
        /\ weights = [a \in Adapters |-> FALSE]
        /\ lock = [a \in Adapters |-> None]
        /\ pc = [t \in Threads |-> "idle"]
        /\ own = [t \in Threads |-> None]
        /\ loads = [a \in Adapters |-> 0]
        /\ unloads = 0

Goto(t, place) == pc' = [pc EXCEPT ![t] = place]

\* _get_reranker(), the test of the module variable.
Rerank(t) ==
  /\ pc[t] = "idle"
  /\ Goto(t, IF singleton = None THEN "construct" ELSE "return")
  /\ UNCHANGED <<singleton, made, weights, lock, own, loads, unloads>>

\* `_reranker = make_reranker()`: a new adapter, weights not yet loaded.
Construct(t) ==
  /\ pc[t] = "construct"
  /\ \E a \in Adapters \ made : singleton' = a /\ made' = made \cup {a}
  /\ Goto(t, "return")
  /\ UNCHANGED <<weights, lock, own, loads, unloads>>

\* `return _reranker`, a second read of the variable.
GetReranker(t) ==
  /\ pc[t] = "return"
  /\ own' = [own EXCEPT ![t] = singleton]
  /\ Goto(t, "test")
  /\ UNCHANGED <<singleton, made, weights, lock, loads, unloads>>

\* `if self._reranker is None` of _score_pairs, outside the lock.
ScorePairs(t) ==
  /\ pc[t] = "test"
  /\ Goto(t, IF weights[own[t]] THEN "score" ELSE "load")
  /\ UNCHANGED <<singleton, made, weights, lock, own, loads, unloads>>

Acquire(t, from, to) ==
  /\ pc[t] = from
  /\ lock[own[t]] = None
  /\ lock' = [lock EXCEPT ![own[t]] = t]
  /\ Goto(t, to)

\* load() enters its locked section.
LoadBegin(t) ==
  /\ Acquire(t, "load", "loading")
  /\ UNCHANGED <<singleton, made, weights, own, loads, unloads>>

\* Mutant: load() trusts the caller's test and loads again.
LoadEndUntested(t) ==
  /\ pc[t] = "loading"
  /\ lock' = [lock EXCEPT ![own[t]] = None]
  /\ \/ /\ weights' = [weights EXCEPT ![own[t]] = TRUE]
        /\ loads' = [loads EXCEPT ![own[t]] = @ + 1]
        /\ Goto(t, "score")
     \/ /\ Goto(t, "error")
        /\ UNCHANGED <<weights, loads>>
  /\ UNCHANGED <<singleton, made, own, unloads>>

\* The section: load the weights unless they are there. Loading may raise (no
\* such model, no memory); the lock is released either way.
LoadEnd(t) ==
  /\ pc[t] = "loading"
  /\ lock' = [lock EXCEPT ![own[t]] = None]
  /\ \/ /\ weights[own[t]]
        /\ Goto(t, "score")
        /\ UNCHANGED <<weights, loads>>
     \/ /\ ~weights[own[t]]
        /\ weights' = [weights EXCEPT ![own[t]] = TRUE]
        /\ loads' = [loads EXCEPT ![own[t]] = @ + 1]
        /\ Goto(t, "score")
     \/ /\ ~weights[own[t]]
        /\ Goto(t, "error")
        /\ UNCHANGED <<weights, loads>>
  /\ UNCHANGED <<singleton, made, own, unloads>>

\* The second locked section: compute_score on whatever _reranker is now. None
\* has no compute_score: AttributeError, and `with` releases the lock.
ScoreBegin(t) ==
  /\ pc[t] = "score"
  /\ lock[own[t]] = None
  /\ \/ /\ weights[own[t]]
        /\ Acquire(t, "score", "scoring")
     \/ /\ ~weights[own[t]]
        /\ Goto(t, "error")
        /\ UNCHANGED lock
  /\ UNCHANGED <<singleton, made, weights, own, loads, unloads>>

ScoreEnd(t) ==
  /\ pc[t] = "scoring"
  /\ lock' = [lock EXCEPT ![own[t]] = None]
  /\ Goto(t, "ok")
  /\ UNCHANGED <<singleton, made, weights, own, loads, unloads>>

\* The caller has its list, or its exception, and may rerank again.
Answer(t) ==
  /\ pc[t] \in {"ok", "error"}
  /\ Goto(t, "idle")
  /\ own' = [own EXCEPT ![t] = None]
  /\ UNCHANGED <<singleton, made, weights, lock, loads, unloads>>

\* unload(): one short locked section.
Unload(a) ==
  /\ a \in made
  /\ unloads < MaxUnloads
  /\ lock[a] = None
  /\ weights' = [weights EXCEPT ![a] = FALSE]
  /\ loads' = [loads EXCEPT ![a] = 0]
  /\ unloads' = unloads + 1
  /\ UNCHANGED <<singleton, made, lock, pc, own>>

Step(t) == \/ Construct(t) \/ GetReranker(t) \/ ScorePairs(t)
           \/ LoadBegin(t) \/ LoadEnd(t) \/ ScoreBegin(t) \/ ScoreEnd(t)
           \/ Answer(t)

Next == \/ \E t \in Threads : Rerank(t) \/ Step(t)
        \/ \E a \in Adapters : Unload(a)

Spec == Init /\ [][Next]_vars

\* A thread keeps running its own call. threading.Lock hands itself to some
\* waiter, and a waiter that asks again and again is served.
Fairness == \A t \in Threads :
                 /\ WF_vars(Construct(t)) /\ WF_vars(GetReranker(t))
                 /\ WF_vars(ScorePairs(t)) /\ WF_vars(LoadEnd(t))
                 /\ WF_vars(ScoreEnd(t)) /\ WF_vars(Answer(t))
                 /\ SF_vars(LoadBegin(t)) /\ SF_vars(ScoreBegin(t))
FairSpec == Spec /\ Fairness

\* bge.py:37-38: the lock serialises the model. No two calls compute on one
\* adapter at once, and the weights a call computes with are not taken away
\* under it by unload().
ModelIsHeld ==
  \A t \in Threads : pc[t] = "scoring" =>
     /\ weights[own[t]]
     /\ \A u \in Threads \ {t} : own[u] = own[t] => pc[u] # "scoring"

\* However many threads find the adapter unloaded, its weights are loaded once:
\* load() tests again under the lock. A second copy would not fit the VRAM.
LoadedOnce == \A a \in Adapters : loads[a] <= 1

\* A call ends, with scores or with an exception, whatever loads and unloads
\* other threads do.
EveryCallEnds == \A t \in Threads : pc[t] # "idle" ~> pc[t] = "idle"

\* base.py:35-37: "safe to construct once and call concurrently; internal state
\* (loaded model weights) should be guarded by a lock"; a call fails only when
\* its own load() does, never because another task unloaded the weights
\* after the call saw them. The step from "score" to "error" is that failure.
NoCallLosesItsWeights ==
  [][\A t \in Threads : pc[t] = "score" => pc'[t] # "error"]_vars

\* reranker/__init__.py:63 and 72: one process-level singleton, so one set of
\* weights for all the threads that use the convenience functions.
OneSingleton == Cardinality(made) <= 1
=============================================================================
