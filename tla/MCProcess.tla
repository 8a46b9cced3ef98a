------------------------------ MODULE MCProcess ------------------------------
(* What the threads of one process share. The registries and pools of the   *)
(* tasks package: the scheduler's singleton, and the dispatch table without  *)
(* reset_dispatch_registry() ("dispatch") and with it ("reset"). Models and  *)
(* who calls them: the streaming text backends over their executor, the      *)
(* backends that proxy to a model server, the multimodal pipeline over two   *)
(* models, the BGE reranker with its singleton, the Qwen3 reranker.          *)
(* A behaviour runs the part that `part` names and leaves the others at     *)
(* their initial state.                                                      *)
EXTENDS Naturals

CONSTANTS x, y, z,
          Tasks, Parent, TaskWorkers,               \* the dispatch table and its pool
          ResetTasks, ResetParent,                  \* and with the reset
          Callers, Rows,
          LlamaStreams, LlamaWholes, LlamaTokens, LlamaWorkers,  \* the llama.cpp backend
          Streams, Wholes, StreamTokens, Workers,   \* the transformers backend
          Remotes, RemoteTokens, PageCount, PageTokens,
          Threads, Adapters, BGEUnloads, Unloader, QwenUnloads, SubBatches, None

VARIABLES part,
          followed,  \* a call, chosen once, whose end EveryCallEnds is about
          scheduler, registryLock, callPc, result, sched, resumed, rowStatus, schedulerReset,
          registered, status, dispatchPc, run, outcome, tasksQueued, executor, stale, execLock, resetPc,
          textPc, backlog, pool, model, made, relay, producer, queue, held, yielded, context,
          backend, proxyPc, op, wire, server, sent, line, given,
          mode, serialise, page, pagePc, doc, tokens, gpu, out,
          singleton, adapters, weights, locks, bgePc, own, loads, bgeUnloads,
          tokenizer, qwen, ids, side, lock, pc, tok, saved, encoded, left, unloading, unloads,
          kept, alone

\* The runner of x dispatches z; or no runner dispatches.
Nested == [k \in {x, y, z} |-> IF k = z THEN x ELSE None]
Flat == [k \in {x, y} |-> None]

Singleton == INSTANCE SchedulerSingleton
  WITH CanReset <- TRUE, pc <- callPc, resetPc <- schedulerReset, singleton <- scheduler,
       lock <- registryLock
Dispatch == INSTANCE TaskDispatch
  WITH CanReset <- FALSE, PoolSize <- TaskWorkers,
       pc <- dispatchPc, backlog <- tasksQueued
Reset == INSTANCE TaskDispatch
  WITH CanReset <- TRUE, Tasks <- ResetTasks, Parent <- ResetParent, PoolSize <- TaskWorkers,
       pc <- dispatchPc, backlog <- tasksQueued
NestedReset == INSTANCE TaskDispatch
  WITH CanReset <- TRUE, PoolSize <- TaskWorkers,
       pc <- dispatchPc, backlog <- tasksQueued
Llama == INSTANCE TextStream
  WITH Backend <- "llamacpp", Streams <- LlamaStreams, Wholes <- LlamaWholes,
       MaxTokens <- LlamaTokens, PoolSize <- LlamaWorkers, pc <- textPc
Transformers == INSTANCE TextStream
  WITH Backend <- "transformers", MaxTokens <- StreamTokens, PoolSize <- Workers, pc <- textPc
Proxy == INSTANCE ProxyBackend
  WITH Calls <- Remotes, MaxTokens <- RemoteTokens, pc <- proxyPc, made <- sent, yielded <- given
Pages == INSTANCE Multimodal WITH Pages <- PageCount, MaxTokens <- PageTokens, pc <- pagePc
BGE == INSTANCE BGEReranker
  WITH MaxUnloads <- BGEUnloads, made <- adapters, lock <- locks, pc <- bgePc, unloads <- bgeUnloads
Qwen == INSTANCE Qwen3Reranker
  WITH Batches <- SubBatches, MaxUnloads <- QwenUnloads, model <- qwen

ASSUME ProcessAssumption ==
  /\ Singleton!ConstantsOK /\ Dispatch!ConstantsOK /\ Reset!ConstantsOK
  /\ NestedReset!ConstantsOK
  /\ Llama!ConstantsOK /\ Transformers!ConstantsOK /\ Proxy!ConstantsOK
  /\ Pages!ConstantsOK /\ BGE!ConstantsOK /\ Qwen!ConstantsOK

singletonVars ==
  <<scheduler, registryLock, callPc, result, sched, resumed, rowStatus, schedulerReset>>
dispatchVars ==
  <<registered, status, dispatchPc, run, outcome, tasksQueued, executor, stale, execLock, resetPc>>
textVars ==
  <<textPc, backlog, pool, model, made, relay, producer, queue, held, yielded, context>>
proxyVars == <<backend, proxyPc, op, wire, server, sent, line, given>>
pageVars == <<mode, serialise, page, pagePc, doc, tokens, gpu, out>>
bgeVars == <<singleton, adapters, weights, locks, bgePc, own, loads, bgeUnloads>>
qwenVars == <<tokenizer, qwen, ids, side, lock, pc, tok, saved, encoded, left, unloading,
              unloads, kept, alone>>
vars == <<part, followed, singletonVars, dispatchVars, textVars, proxyVars, pageVars, bgeVars, qwenVars>>

SingletonSteps ==
  /\ part = "singleton" /\ Singleton!Next
  /\ UNCHANGED <<part, followed, dispatchVars, textVars, proxyVars, pageVars, bgeVars, qwenVars>>
DispatchSteps ==
  /\ part = "dispatch" /\ Dispatch!Next
  /\ UNCHANGED <<part, followed, singletonVars, textVars, proxyVars, pageVars, bgeVars, qwenVars>>
ResetSteps ==
  /\ part = "reset" /\ Reset!Next
  /\ UNCHANGED <<part, followed, singletonVars, textVars, proxyVars, pageVars, bgeVars, qwenVars>>
LlamaSteps ==
  /\ part = "llamacpp" /\ Llama!Next
  /\ UNCHANGED <<part, followed, singletonVars, dispatchVars, proxyVars, pageVars, bgeVars, qwenVars>>
TransformersSteps ==
  /\ part = "transformers" /\ Transformers!Next
  /\ UNCHANGED <<part, followed, singletonVars, dispatchVars, proxyVars, pageVars, bgeVars, qwenVars>>
ProxySteps ==
  /\ part = "proxy" /\ Proxy!Next
  /\ UNCHANGED <<part, followed, singletonVars, dispatchVars, textVars, pageVars, bgeVars, qwenVars>>
PagesSteps ==
  /\ part = "multimodal" /\ Pages!Next
  /\ UNCHANGED <<part, followed, singletonVars, dispatchVars, textVars, proxyVars, bgeVars, qwenVars>>
BGESteps ==
  /\ part = "bge" /\ BGE!Next
  /\ UNCHANGED <<part, followed, singletonVars, dispatchVars, textVars, proxyVars, pageVars, qwenVars>>
QwenSteps ==
  /\ part = "qwen3" /\ Qwen!Next
  /\ UNCHANGED <<part, followed, singletonVars, dispatchVars, textVars, proxyVars, pageVars, bgeVars>>

\* A part that does not run has one initial state.
Init ==
  /\ part \in {"singleton", "dispatch", "reset", "llamacpp", "transformers", "proxy",
              "multimodal", "bge", "qwen3"}
  /\ IF part = "reset" THEN Reset!Init ELSE Dispatch!Init
  /\ IF part = "transformers" THEN Transformers!Init ELSE Llama!Init
  /\ Singleton!Init /\ Proxy!Init /\ Pages!Init /\ BGE!Init /\ Qwen!Init
  /\ part # "proxy" => backend = "mock"
  /\ followed \in CASE part = "llamacpp" -> Llama!Calls
                   [] part \in {"dispatch", "reset"} -> Tasks
                   [] OTHER -> {x}
  /\ part # "multimodal" => mode = "run" /\ ~serialise
Next == \/ SingletonSteps \/ DispatchSteps \/ ResetSteps \/ LlamaSteps \/ TransformersSteps
        \/ ProxySteps \/ PagesSteps \/ BGESteps \/ QwenSteps

(* TextStream's and TaskDispatch's fairness, each where its part runs.       *)
notText == <<part, followed, singletonVars, dispatchVars, proxyVars, pageVars, bgeVars, qwenVars>>
notTasks == <<part, followed, singletonVars, textVars, proxyVars, pageVars, bgeVars, qwenVars>>
Either(text, dispatch, reset) ==
  \/ part = "llamacpp" /\ text /\ UNCHANGED notText
  \/ part = "dispatch" /\ dispatch /\ UNCHANGED notTasks
  \/ part = "reset" /\ reset /\ UNCHANGED notTasks
Fairness ==
  /\ WF_vars(Either(Llama!RunJob, Dispatch!PoolTakes, Reset!PoolTakes))
  /\ WF_vars(Either(FALSE, FALSE, Reset!ResetSteps))
  /\ \A k \in Tasks :
       /\ WF_vars(Either(FALSE, Dispatch!CallSteps(k), k \in ResetTasks /\ Reset!CallSteps(k)))
       /\ WF_vars(Either(FALSE, Dispatch!RunSteps(k), k \in ResetTasks /\ Reset!RunSteps(k)))
  /\ \A k \in Llama!Calls :
       /\ WF_vars(Either(Llama!Generates(k), FALSE, FALSE))
       /\ WF_vars(Either(Llama!Consumes(k), FALSE, FALSE))
       /\ WF_vars(Either(Llama!Relay(k), FALSE, FALSE))
Spec == Init /\ [][Next]_vars /\ Fairness

(* A reset while a runner dispatches, by itself. *)
NestedSteps ==
  NestedReset!Next /\ UNCHANGED <<part, followed, singletonVars, textVars, proxyVars, pageVars, bgeVars,
                                  qwenVars>>
NestedInit == part = "dispatch" /\ Init
NestedSpec == NestedInit /\ [][NestedSteps]_vars /\ NestedReset!Fairness

-----------------------------------------------------------------------------
(* Every call ends, whatever the others do: a text call that is not          *)
(* abandoned; a dispatched task, with the status that its runner earned, or  *)
(* with "running" for ever if the runner raised what is no Exception; the    *)
(* dispatch_task() call itself while the registry is reset.                  *)
Waits == CASE part = "llamacpp" -> Llama!Waiting(followed)
           [] part = "dispatch" -> Dispatch!Returned(followed)
           [] part = "reset" /\ followed \in ResetTasks -> Reset!Dispatching(followed)
           [] OTHER -> FALSE
Served == CASE part = "llamacpp" -> Llama!Over(followed)
            [] part = "dispatch" -> Dispatch!SettledAsRun(followed)
            [] part = "reset" /\ followed \in ResetTasks -> Reset!DispatchOver(followed)
            [] OTHER -> TRUE
EveryCallEnds == Waits ~> Served

(* dispatch_task(): "Returns immediately with a task_id." *)
DispatchReturns == NestedReset!DispatchReturns

(* A stream gives its consumer the tokens the model made and a document its *)
(* pages, each once and in order.                                            *)
StreamsAreWhole ==
  /\ part = "llamacpp" => Llama!NothingLost /\ Llama!EndIsTheEnd
  /\ part = "transformers" => Transformers!NothingLost /\ Transformers!EndIsTheEnd
  /\ Proxy!EndYieldsAll /\ Pages!PagesInOrder
(* The status table of the dispatch module, in both its parts. *)
StatusMovesForward ==
  [][IF part = "reset" THEN Reset!MovesForward ELSE Dispatch!MovesForward]_vars
NoneLeftRunning == IF part = "reset" THEN Reset!NoneLeftRunning ELSE Dispatch!NoneLeftRunning

NoStrayScheduler == Singleton!NoStrayScheduler
LoadedOnce == BGE!LoadedOnce
KeptCallsSucceed == Qwen!KeptCallsSucceed
=============================================================================
