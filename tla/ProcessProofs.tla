--------------------------- MODULE ProcessProofs ---------------------------
(* Proofs about MCProcess: for every number of threads, calls, tokens, pages *)
(* and unloads, the scheduler's singleton, the two rerankers, the proxied    *)
(* streams, the streams of llama.cpp and transformers and the multimodal     *)
(* pages, and the table of dispatched tasks keep what MCProcess promises.    *)
(* Liveness is TLC's.                                                        *)
EXTENDS MCProcess, Integers, FiniteSetTheorems, SequenceTheorems, TLAPS

-----------------------------------------------------------------------------
(* The scheduler's singleton: who holds the lock, and what a call has made   *)
(* of its candidate by the place where it is. Only the singleton is shut     *)
(* down by a reset, which holds the lock until it has forgotten it.          *)
CallerOK(c) ==
  /\ callPc[c] \in {"check", "start", "acquire", "install", "return", "done"}
  /\ callPc[c] = "check" => sched[c] = "none"
  /\ callPc[c] = "start" => sched[c] = "built"
  /\ registryLock = c <=> callPc[c] = "install"
  /\ callPc[c] \in {"return", "done"} /\ sched[c] = "live" => scheduler = c
  /\ sched[c] = "live" => callPc[c] \notin {"check", "start"}
  /\ scheduler = c => callPc[c] \in {"return", "done"}

ResetOK ==
  /\ schedulerReset \in {"idle", "shutdown", "clear", "release", "done"}
  /\ registryLock = "reset" <=> schedulerReset \in {"shutdown", "clear", "release"}
  /\ schedulerReset = "shutdown" => scheduler \in Callers
  /\ schedulerReset = "clear" => scheduler \in Callers /\ sched[scheduler] # "live"
  /\ schedulerReset = "release" => scheduler = None

SingletonIInv ==
  /\ DOMAIN callPc = Callers /\ DOMAIN sched = Callers
  /\ scheduler \in Callers \cup {None}
  /\ \A c \in Callers : CallerOK(c)
  /\ ResetOK

LEMMA SingletonConstants == None # "reset" /\ None \notin Callers /\ "reset" \notin Callers
BY ProcessAssumption DEF Singleton!ConstantsOK

LEMMA SingletonInitOK == Singleton!Init => SingletonIInv
BY SingletonConstants DEF Singleton!Init, SingletonIInv, CallerOK, ResetOK

LEMMA SingletonStep == SingletonIInv /\ [Singleton!Next]_(Singleton!vars) => SingletonIInv'
<1> SUFFICES ASSUME SingletonIInv, [Singleton!Next]_(Singleton!vars) PROVE SingletonIInv'
  OBVIOUS
<1> USE SingletonConstants DEF SingletonIInv, CallerOK, ResetOK
<1>1. ASSUME NEW c \in Callers, Singleton!FastPath(c) PROVE SingletonIInv'
  BY <1>1 DEF Singleton!FastPath
<1>2. ASSUME NEW c \in Callers, Singleton!Build(c) PROVE SingletonIInv'
  BY <1>2 DEF Singleton!Build
<1>3. ASSUME NEW c \in Callers, Singleton!StartCandidate(c) PROVE SingletonIInv'
  BY <1>3 DEF Singleton!StartCandidate
<1>4. ASSUME NEW c \in Callers, Singleton!Acquire(c) PROVE SingletonIInv'
  BY <1>4 DEF Singleton!Acquire
<1>5. ASSUME NEW c \in Callers, Singleton!Install(c) PROVE SingletonIInv'
  BY <1>5 DEF Singleton!Install
<1>6. ASSUME NEW c \in Callers, Singleton!StopCandidate(c) PROVE SingletonIInv'
  BY <1>6 DEF Singleton!StopCandidate
<1>7. ASSUME NEW c \in Callers, Singleton!Return(c) PROVE SingletonIInv'
  BY <1>7 DEF Singleton!Return
<1>8. ASSUME NEW c \in Callers, NEW r \in Rows, Singleton!RunRow(c, r) PROVE SingletonIInv'
  BY <1>8 DEF Singleton!RunRow
<1>9. CASE Singleton!ResetAcquire
  BY <1>9 DEF Singleton!ResetAcquire
<1>10. CASE Singleton!ResetShutdown
  BY <1>10 DEF Singleton!ResetShutdown
<1>11. CASE Singleton!ResetClear
  BY <1>11 DEF Singleton!ResetClear
<1>12. CASE UNCHANGED Singleton!vars
  BY <1>12 DEF Singleton!vars
<1> QED
  BY <1>1, <1>2, <1>3, <1>4, <1>5, <1>6, <1>7, <1>8, <1>9, <1>10, <1>11, <1>12 DEF Singleton!Next

(* scheduler.py, get_scheduler() and reset_scheduler() in any order: a       *)
(* scheduler that runs when its builder's call is over is the singleton.     *)
THEOREM LosersAreShutDown == Singleton!Spec => []NoStrayScheduler
<1>1. SingletonIInv => NoStrayScheduler
  BY DEF SingletonIInv, CallerOK, NoStrayScheduler, Singleton!NoStrayScheduler
<1> QED
  BY <1>1, SingletonInitOK, SingletonStep, PTL DEF Singleton!Spec

-----------------------------------------------------------------------------
(* The BGE reranker: an adapter that a call works on is a constructed one;   *)
(* its weights have been loaded once since they were last released, by the   *)
(* holder of its lock, and they are there while that one computes.           *)
BGECallOK(t) ==
  /\ bgePc[t] \in BGE!Places
  /\ bgePc[t] \notin {"idle", "construct", "return"} => own[t] \in adapters
  /\ bgePc[t] = "return" => singleton \in adapters
  /\ bgePc[t] \in {"loading", "scoring"} => locks[own[t]] = t
  /\ bgePc[t] = "scoring" => weights[own[t]]

BGEIInv ==
  /\ adapters \subseteq Adapters
  /\ singleton \in adapters \cup {None}
  /\ weights \in [Adapters -> BOOLEAN] /\ DOMAIN loads = Adapters
  /\ DOMAIN locks = Adapters /\ DOMAIN bgePc = Threads /\ DOMAIN own = Threads
  /\ \A a \in Adapters : loads[a] = IF weights[a] THEN 1 ELSE 0
  /\ \A t \in Threads : BGECallOK(t)

LEMMA BGEConstants == None \notin Threads /\ None \notin Adapters
BY ProcessAssumption DEF BGE!ConstantsOK

LEMMA BGEInitOK == BGE!Init => BGEIInv
BY BGEConstants DEF BGE!Init, BGEIInv, BGECallOK, BGE!Places

LEMMA BGEStep == BGEIInv /\ [BGE!Next]_(BGE!vars) => BGEIInv'
<1> SUFFICES ASSUME BGEIInv, [BGE!Next]_(BGE!vars) PROVE BGEIInv'
  OBVIOUS
<1> USE BGEConstants DEF BGEIInv, BGECallOK, BGE!Places, BGE!Goto
<1>1. ASSUME NEW t \in Threads, BGE!Rerank(t) PROVE BGEIInv'
  BY <1>1 DEF BGE!Rerank
<1>2. ASSUME NEW t \in Threads, BGE!Construct(t) PROVE BGEIInv'
  BY <1>2 DEF BGE!Construct
<1>3. ASSUME NEW t \in Threads, BGE!GetReranker(t) PROVE BGEIInv'
  BY <1>3 DEF BGE!GetReranker
<1>4. ASSUME NEW t \in Threads, BGE!ScorePairs(t) PROVE BGEIInv'
  BY <1>4 DEF BGE!ScorePairs
<1>5. ASSUME NEW t \in Threads, BGE!LoadBegin(t) PROVE BGEIInv'
  BY <1>5 DEF BGE!LoadBegin, BGE!Acquire
<1>6. ASSUME NEW t \in Threads, BGE!LoadEnd(t) PROVE BGEIInv'
  <2>1. /\ bgePc[t] = "loading" /\ locks[own[t]] = t /\ own[t] \in Adapters /\ own[t] \in adapters
        /\ locks' = [locks EXCEPT ![own[t]] = None] /\ UNCHANGED <<singleton, adapters, own>>
    BY <1>6 DEF BGE!LoadEnd
  <2>2. CASE bgePc' = [bgePc EXCEPT ![t] = "score"] /\ weights[own[t]] /\ UNCHANGED <<weights, loads>>
    BY <2>1, <2>2
  <2>3. CASE /\ bgePc' = [bgePc EXCEPT ![t] = "score"] /\ ~weights[own[t]]
             /\ weights' = [weights EXCEPT ![own[t]] = TRUE]
             /\ loads' = [loads EXCEPT ![own[t]] = @ + 1]
    <3>1. weights' \in [Adapters -> BOOLEAN] /\ DOMAIN loads' = Adapters
          /\ \A a \in Adapters : loads'[a] = IF weights'[a] THEN 1 ELSE 0
      BY <2>1, <2>3
    <3>2. \A u \in Threads : BGECallOK(u)'
      BY <2>1, <2>3
    <3> QED
      BY <2>1, <2>3, <3>1, <3>2
  <2>4. CASE bgePc' = [bgePc EXCEPT ![t] = "error"] /\ UNCHANGED <<weights, loads>>
    BY <2>1, <2>4
  <2> QED
    BY <1>6, <2>2, <2>3, <2>4 DEF BGE!LoadEnd
<1>7. ASSUME NEW t \in Threads, BGE!ScoreBegin(t) PROVE BGEIInv'
  BY <1>7 DEF BGE!ScoreBegin, BGE!Acquire
<1>8. ASSUME NEW t \in Threads, BGE!ScoreEnd(t) PROVE BGEIInv'
  BY <1>8 DEF BGE!ScoreEnd
<1>9. ASSUME NEW t \in Threads, BGE!Answer(t) PROVE BGEIInv'
  BY <1>9 DEF BGE!Answer
<1>10. ASSUME NEW a \in Adapters, BGE!Unload(a) PROVE BGEIInv'
  BY <1>10 DEF BGE!Unload
<1>11. CASE UNCHANGED BGE!vars
  BY <1>11 DEF BGE!vars
<1> QED
  BY <1>1, <1>2, <1>3, <1>4, <1>5, <1>6, <1>7, <1>8, <1>9, <1>10, <1>11 DEF BGE!Next, BGE!Step

(* reranker/adapters/bge.py: however many calls find the weights missing,    *)
(* they are loaded once; and, bge.py:37-38, one call computes with them at a *)
(* time, and no unload() takes them away from it.                            *)
THEOREM WeightsAreLoadedOnce == BGE!Spec => [](LoadedOnce /\ BGE!ModelIsHeld)
<1>1. BGEIInv => LoadedOnce /\ BGE!ModelIsHeld
  BY BGEConstants DEF BGEIInv, BGECallOK, BGE!Places, LoadedOnce, BGE!LoadedOnce, BGE!ModelIsHeld
<1> QED
  BY <1>1, BGEInitOK, BGEStep, PTL DEF BGE!Spec

-----------------------------------------------------------------------------
(* The Qwen3 reranker. While nothing is unloaded the fields are set in the   *)
(* order tokenizer, model, ids; a call that has found a model has a          *)
(* tokenizer, and once it has had the lock to itself it has the ids.         *)
Locked == {"loading", "tokenizer", "model", "yes", "no", "forwarding"}
Working == {"prompts", "save", "set", "encode", "restore", "device", "forward",
            "forwarding", "readYes", "readNo"}

QwenCallOK(t) ==
  /\ pc[t] \in Qwen!Places
  /\ lock = t <=> pc[t] \in Locked
  /\ pc[t] \in {"tokenizer", "model"} => ~qwen
  /\ pc[t] = "model" => tokenizer # 0
  /\ pc[t] \in {"yes", "no"} => qwen /\ tokenizer # 0
  /\ pc[t] = "no" => "yes" \in ids
  /\ kept[t] => /\ unloading = "idle"
                /\ pc[t] \notin {"error", "noYes", "badScores"}
                /\ pc[t] \in Working => qwen
                /\ pc[t] \in {"forwarding", "readYes", "readNo"} => {"yes", "no"} \subseteq ids

FieldsOK ==
  /\ unloads \in Nat
  /\ unloading \in {"idle", "model", "tokenizer", "yes", "no"}
  /\ lock = Unloader <=> unloading # "idle"
  /\ unloading = "idle" /\ qwen => tokenizer # 0
  /\ unloading = "idle" /\ qwen /\ (\A t \in Threads : pc[t] \notin {"yes", "no"})
       => {"yes", "no"} \subseteq ids
  /\ unloading \in {"tokenizer", "yes", "no"} => ~qwen

QwenIInv ==
  /\ DOMAIN pc = Threads /\ DOMAIN kept = Threads
  /\ lock \in Threads \cup {Unloader, None}
  /\ FieldsOK
  /\ \A t \in Threads : QwenCallOK(t)

LEMMA QwenConstants == Unloader \notin Threads /\ None \notin Threads /\ None # Unloader
BY ProcessAssumption DEF Qwen!ConstantsOK

LEMMA QwenInitOK == Qwen!Init => QwenIInv
BY QwenConstants DEF Qwen!Init, QwenIInv, FieldsOK, QwenCallOK, Qwen!Places, Locked, Working,
   Qwen!Publishing, Qwen!Tokenizing

LEMMA QwenStep == QwenIInv /\ [Qwen!Next]_(Qwen!vars) => QwenIInv'
<1> SUFFICES ASSUME QwenIInv, [Qwen!Next]_(Qwen!vars) PROVE QwenIInv'
  OBVIOUS
<1> USE QwenConstants DEF QwenIInv, FieldsOK, QwenCallOK, Qwen!Places, Locked, Working,
        Qwen!Publishing, Qwen!Tokenizing, Qwen!At, Qwen!Goto, Qwen!fields, Qwen!call, Qwen!unload,
        Qwen!watch
<1>1. ASSUME NEW t \in Threads, Qwen!Rerank(t) PROVE QwenIInv'
  <2>1. PICK place \in {"prompts", "load"} :
          pc[t] = "idle" /\ pc' = [pc EXCEPT ![t] = place] /\ (place = "prompts" => qwen)
    BY <1>1 DEF Qwen!Rerank
  <2>2. PICK ever \in BOOLEAN :
          kept' = [kept EXCEPT ![t] = ever] /\ (ever => unloading = "idle")
    BY <1>1 DEF Qwen!Rerank
  <2>3. UNCHANGED <<tokenizer, qwen, ids, lock, unloading, unloads>>
    BY <1>1 DEF Qwen!Rerank
  <2>4. FieldsOK'
    BY <2>1, <2>3
  <2>5. ASSUME NEW r \in Threads PROVE QwenCallOK(r)'
    BY <2>1, <2>2, <2>3
  <2> QED
    BY <2>1, <2>2, <2>3, <2>4, <2>5
<1>2. ASSUME NEW t \in Threads, Qwen!LoadBegin(t) PROVE QwenIInv'
  BY <1>2 DEF Qwen!LoadBegin
<1>3. ASSUME NEW t \in Threads, Qwen!Load(t) PROVE QwenIInv'
  BY <1>3 DEF Qwen!Load
<1>4. ASSUME NEW t \in Threads, Qwen!Publish(t) PROVE QwenIInv'
  BY <1>4 DEF Qwen!Publish
<1>5. ASSUME NEW t \in Threads, Qwen!BuildPrompts(t) PROVE QwenIInv'
  BY <1>5 DEF Qwen!BuildPrompts
<1>6. ASSUME NEW t \in Threads, Qwen!Pad(t) PROVE QwenIInv'
  BY <1>6 DEF Qwen!Pad
<1>7. ASSUME NEW t \in Threads, Qwen!GetDevice(t) PROVE QwenIInv'
  BY <1>7 DEF Qwen!GetDevice
<1>8. ASSUME NEW t \in Threads, Qwen!ForwardBegin(t) PROVE QwenIInv'
  BY <1>8 DEF Qwen!ForwardBegin
<1>9. ASSUME NEW t \in Threads, Qwen!ForwardEnd(t) PROVE QwenIInv'
  BY <1>9 DEF Qwen!ForwardEnd
<1>10. ASSUME NEW t \in Threads, Qwen!ReadYes(t) PROVE QwenIInv'
  BY <1>10 DEF Qwen!ReadYes
<1>11. ASSUME NEW t \in Threads, Qwen!ReadNo(t) PROVE QwenIInv'
  BY <1>11 DEF Qwen!ReadNo
<1>12. ASSUME NEW t \in Threads, Qwen!Answer(t) PROVE QwenIInv'
  BY <1>12 DEF Qwen!Answer
<1>13. CASE Qwen!Unload
  BY <1>13 DEF Qwen!Unload
<1>14. CASE UNCHANGED Qwen!vars
  BY <1>14 DEF Qwen!vars
<1> QED
  BY <1>1, <1>2, <1>3, <1>4, <1>5, <1>6, <1>7, <1>8, <1>9, <1>10, <1>11, <1>12, <1>13, <1>14
  DEF Qwen!Next

(* reranker/adapters/qwen3.py: a call that no unload() overlaps never finds  *)
(* a field missing, though load() assigns them one by one and the call reads *)
(* them without the lock; and one forward pass runs at a time.               *)
THEOREM UndisturbedCallsSucceed == Qwen!Spec => [](KeptCallsSucceed /\ Qwen!OneForward)
<1>1. QwenIInv => KeptCallsSucceed /\ Qwen!OneForward
  BY QwenConstants DEF QwenIInv, QwenCallOK, Locked, KeptCallsSucceed, Qwen!KeptCallsSucceed,
     Qwen!OneForward, Qwen!At
<1> QED
  BY <1>1, QwenInitOK, QwenStep, PTL DEF Qwen!Spec

-----------------------------------------------------------------------------
(* The multimodal pipeline: what has been yielded is of earlier pages, or    *)
(* are the tokens so far of the page that is being generated.                *)
Results == Seq([page : Nat, kind : {"text", "error"}])

Follows(a, b) ==
  \/ a.page < b.page
  \/ a.page = b.page /\ mode = "stream" /\ a.kind = "text"

InOrder(s) == \A i \in 1 .. Len(s) - 1 : Follows(s[i], s[i + 1])

PagesIInv ==
  /\ out \in Results /\ page \in Nat /\ mode \in {"run", "stream"}
  /\ pagePc \in {"next", "extract", "swap", "prompt", "generate", "end", "swapRaised", "raised", "closed"}
  /\ InOrder(out)
  /\ mode = "run" /\ pagePc = "next" => Len(out) = page
  /\ mode = "run" /\ pagePc \in {"extract", "swap", "prompt", "generate"} => Len(out) = page - 1
  /\ pagePc \in {"extract", "swap", "prompt", "generate"} => page > 0
  /\ out # <<>> => LET last == out[Len(out)] IN
       /\ pagePc = "next" => last.page <= page
       /\ pagePc \in {"extract", "swap", "prompt"} => last.page < page
       /\ pagePc = "generate" => Follows(last, [page |-> page])

LEMMA PagesInitOK == Pages!Init => PagesIInv
<1> SUFFICES ASSUME Pages!Init PROVE PagesIInv
  OBVIOUS
<1>1. out = <<>> /\ out \in Results /\ Len(out) = 0
  BY DEF Pages!Init, Results
<1> QED
  BY <1>1 DEF Pages!Init, PagesIInv, InOrder

LEMMA Yields ==
  ASSUME NEW s \in Results, InOrder(s), NEW n \in Nat, NEW k \in {"text", "error"},
         s # <<>> => Follows(s[Len(s)], [page |-> n])
  PROVE  LET u == Append(s, [page |-> n, kind |-> k]) IN
         /\ u \in Results /\ u # <<>> /\ Len(u) = Len(s) + 1
         /\ InOrder(u) /\ u[Len(u)] = [page |-> n, kind |-> k]
<1> DEFINE e == [page |-> n, kind |-> k]
           u == Append(s, e)
<1>1. /\ u \in Results /\ u # <<>> /\ Len(u) = Len(s) + 1 /\ Len(s) \in Nat
      /\ \A i \in 1 .. Len(s) : u[i] = s[i]
      /\ u[Len(u)] = e
  <2>1. e \in [page : Nat, kind : {"text", "error"}]
    OBVIOUS
  <2> HIDE DEF e
  <2> QED
    BY <2>1, AppendProperties, LenProperties DEF Results
<1>2. ASSUME NEW i \in 1 .. Len(u) - 1 PROVE Follows(u[i], u[i + 1])
  <2>1. CASE i = Len(s)
    <3>1. s # <<>> /\ u[i] = s[Len(s)] /\ u[i + 1] = e
      BY <1>1, <2>1, EmptySeq
    <3> QED
      BY <3>1 DEF Follows
  <2>2. CASE i # Len(s)
    <3>1. i \in 1 .. Len(s) - 1 /\ u[i] = s[i] /\ u[i + 1] = s[i + 1]
      BY <1>1, <2>2
    <3> QED
      BY <3>1 DEF InOrder
  <2> QED
    BY <2>1, <2>2
<1>3. InOrder(u)
  BY <1>2 DEF InOrder
<1> QED
  BY <1>1, <1>3

LEMMA PagesStep == PagesIInv /\ [Pages!Next]_(Pages!vars) => PagesIInv'
<1> SUFFICES ASSUME PagesIInv, [Pages!Next]_(Pages!vars) PROVE PagesIInv'
  OBVIOUS
<1>0. Len(out) \in Nat /\ (out # <<>> => out[Len(out)].page \in Nat)
  <2>1. out \in Results
    BY DEF PagesIInv
  <2>2. out # <<>> => Len(out) \in 1 .. Len(out)
    BY <2>1, EmptySeq, LenProperties DEF Results
  <2>3. out # <<>> => out[Len(out)] \in [page : Nat, kind : {"text", "error"}]
    BY <2>1, <2>2, ElementOfSeq DEF Results
  <2> QED
    BY <2>1, <2>3, LenProperties DEF Results
<1>1. ASSUME NEW k \in {"text", "error"}, Pages!Yield(k), mode' = mode, page' = page,
             pagePc \in {"extract", "generate"}
      PROVE  /\ out' \in Results /\ out' # <<>> /\ Len(out') = Len(out) + 1
             /\ InOrder(out)' /\ out'[Len(out')] = [page |-> page, kind |-> k]
  <2>1. out # <<>> => Follows(out[Len(out)], [page |-> page])
    BY <1>1, <1>0 DEF PagesIInv, Follows
  <2>2. out' = Append(out, [page |-> page, kind |-> k])
    BY <1>1 DEF Pages!Yield
  <2>3. out \in Results /\ InOrder(out) /\ page \in Nat
    BY DEF PagesIInv
  <2>4. /\ out' \in Results /\ out' # <<>> /\ Len(out') = Len(out) + 1
        /\ InOrder(out') /\ out'[Len(out')] = [page |-> page, kind |-> k]
    BY <2>1, <2>2, <2>3, Yields
  <2>5. InOrder(out)' <=> InOrder(out')
    BY <1>1 DEF InOrder, Follows
  <2> QED
    BY <2>4, <2>5
<1>2. ASSUME UNCHANGED <<out, mode>> PROVE InOrder(out)' <=> InOrder(out)
  BY <1>2 DEF InOrder, Follows
<1>3. CASE Pages!NextPage
  BY <1>0, <1>2, <1>3 DEF Pages!NextPage, PagesIInv, Follows
<1>4. CASE Pages!Extract
  <2>1. CASE out' = out /\ pagePc' = "swap"
    BY <1>0, <1>2, <1>4, <2>1 DEF Pages!Extract, PagesIInv, Follows
  <2>2. CASE Pages!Yield("error") /\ pagePc' = "next"
    BY <1>0, <1>1, <1>4, <2>2 DEF Pages!Extract, PagesIInv, Follows
  <2> QED
    BY <1>4, <2>1, <2>2 DEF Pages!Extract
<1>5. CASE Pages!Swap
  BY <1>0, <1>2, <1>5 DEF Pages!Swap, PagesIInv, Follows
<1>6. CASE Pages!Prompt
  BY <1>0, <1>2, <1>6 DEF Pages!Prompt, PagesIInv, Follows
<1>7. CASE Pages!Generate
  <2>1. CASE Pages!Yield("text") /\ mode = "run" /\ pagePc' = "next"
    BY <1>0, <1>1, <1>7, <2>1 DEF Pages!Generate, PagesIInv, Follows
  <2>2. CASE Pages!Yield("error") /\ pagePc' = "next"
    BY <1>0, <1>1, <1>7, <2>2 DEF Pages!Generate, PagesIInv, Follows
  <2>3. CASE Pages!Yield("text") /\ mode = "stream" /\ pagePc' = pagePc
    BY <1>0, <1>1, <1>7, <2>3 DEF Pages!Generate, PagesIInv, Follows
  <2>4. CASE out' = out /\ mode = "stream" /\ pagePc' = "next"
    BY <1>0, <1>2, <1>7, <2>4 DEF Pages!Generate, PagesIInv, Follows
  <2> QED
    BY <1>7, <2>1, <2>2, <2>3, <2>4 DEF Pages!Generate
<1>8. CASE Pages!Close
  BY <1>0, <1>2, <1>8 DEF Pages!Close, PagesIInv, Follows
<1>9. CASE UNCHANGED Pages!vars
  BY <1>0, <1>2, <1>9 DEF Pages!vars, PagesIInv, Follows
<1> QED
  BY <1>3, <1>4, <1>5, <1>6, <1>7, <1>8, <1>9 DEF Pages!Next

-----------------------------------------------------------------------------
(* The backends that proxy to a model server. Flows(w, a, b): on lines w,    *)
(* blanks apart, the tokens go on from a, one by one, to b.                  *)
Lines == [token : Nat, done : BOOLEAN]

Flows(w, a, b) ==
  \E f \in [0 .. Len(w) -> Nat] :
    /\ f[0] = a /\ f[Len(w)] = b
    /\ \A i \in 1 .. Len(w) : \/ w[i].token = 0 /\ f[i] = f[i - 1]
                              \/ w[i].token = f[i - 1] + 1 /\ f[i] = f[i - 1] + 1

LEMMA NothingFlows == \A a \in Nat : Flows(<<>>, a, a)
<1> TAKE a \in Nat
<1> DEFINE f == [i \in 0 .. 0 |-> a]
<1>1. f \in [0 .. Len(<<>>) -> Nat] /\ f[0] = a /\ f[Len(<<>>)] = a
  OBVIOUS
<1>2. \A i \in 1 .. Len(<<>>) : FALSE
  OBVIOUS
<1> HIDE DEF f
<1> QED
  BY <1>1, <1>2 DEF Flows

LEMMA NothingMoreFlows ==
  ASSUME NEW a, NEW b, Flows(<<>>, a, b)
  PROVE  a = b
BY DEF Flows

LEMMA FlowsOn ==
  ASSUME NEW w \in Seq(Lines), NEW a \in Nat, NEW b \in Nat, Flows(w, a, b), NEW l \in Lines,
         NEW n \in Nat, (l.token = 0 /\ n = b) \/ (l.token = b + 1 /\ n = b + 1)
  PROVE  Flows(Append(w, l), a, n)
<1>1. /\ Len(w) \in Nat /\ Len(Append(w, l)) = Len(w) + 1 /\ Append(w, l)[Len(w) + 1] = l
      /\ \A i \in 1 .. Len(w) : Append(w, l)[i] = w[i]
  BY AppendProperties, LenProperties
<1>2. PICK f \in [0 .. Len(w) -> Nat] :
        /\ f[0] = a /\ f[Len(w)] = b
        /\ \A i \in 1 .. Len(w) : \/ w[i].token = 0 /\ f[i] = f[i - 1]
                                  \/ w[i].token = f[i - 1] + 1 /\ f[i] = f[i - 1] + 1
  BY DEF Flows
<1> DEFINE g == [i \in 0 .. Len(w) + 1 |-> IF i = Len(w) + 1 THEN n ELSE f[i]]
<1>3. g \in [0 .. Len(Append(w, l)) -> Nat] /\ g[0] = a /\ g[Len(Append(w, l))] = n
  BY <1>1, <1>2
<1>4. ASSUME NEW i \in 1 .. Len(Append(w, l))
      PROVE  \/ Append(w, l)[i].token = 0 /\ g[i] = g[i - 1]
             \/ Append(w, l)[i].token = g[i - 1] + 1 /\ g[i] = g[i - 1] + 1
  <2>1. CASE i = Len(w) + 1
    <3>1. g[i] = n /\ g[i - 1] = b /\ Append(w, l)[i] = l
      BY <1>1, <1>2, <2>1
    <3> QED
      BY <3>1
  <2>2. CASE i # Len(w) + 1
    <3>1. i \in 1 .. Len(w) /\ g[i] = f[i] /\ g[i - 1] = f[i - 1] /\ Append(w, l)[i] = w[i]
      BY <1>1, <2>2
    <3> QED
      BY <1>2, <3>1
  <2> QED
    BY <2>1, <2>2
<1> QED
  BY <1>3, <1>4 DEF Flows

LEMMA FlowsOff ==
  ASSUME NEW w \in Seq(Lines), w # <<>>, NEW a \in Nat, NEW b, Flows(w, a, b)
  PROVE  \/ Head(w).token = 0 /\ Flows(Tail(w), a, b)
         \/ Head(w).token = a + 1 /\ Flows(Tail(w), a + 1, b)
<1>1. /\ Len(w) \in Nat \ {0} /\ Len(Tail(w)) = Len(w) - 1 /\ Head(w) = w[1]
      /\ \A i \in 1 .. Len(Tail(w)) : Tail(w)[i] = w[i + 1]
  BY HeadTailProperties, EmptySeq, LenProperties
<1>2. PICK f \in [0 .. Len(w) -> Nat] :
        /\ f[0] = a /\ f[Len(w)] = b
        /\ \A i \in 1 .. Len(w) : \/ w[i].token = 0 /\ f[i] = f[i - 1]
                                  \/ w[i].token = f[i - 1] + 1 /\ f[i] = f[i - 1] + 1
  BY DEF Flows
<1> DEFINE g == [i \in 0 .. Len(w) - 1 |-> f[i + 1]]
<1>3. g \in [0 .. Len(Tail(w)) -> Nat] /\ g[0] = f[1] /\ g[Len(Tail(w))] = b
  BY <1>1, <1>2
<1>4. ASSUME NEW i \in 1 .. Len(Tail(w))
      PROVE  \/ Tail(w)[i].token = 0 /\ g[i] = g[i - 1]
             \/ Tail(w)[i].token = g[i - 1] + 1 /\ g[i] = g[i - 1] + 1
  <2>1. /\ i + 1 \in 1 .. Len(w) /\ g[i] = f[i + 1] /\ g[i - 1] = f[(i + 1) - 1]
        /\ Tail(w)[i] = w[i + 1]
    BY <1>1
  <2> QED
    BY <1>2, <2>1
<1>5. Flows(Tail(w), f[1], b)
  BY <1>3, <1>4 DEF Flows
<1>6. 1 \in 1 .. Len(w) /\ f[1 - 1] = a
  BY <1>1, <1>2
<1>7. (w[1].token = 0 /\ f[1] = a) \/ (w[1].token = a + 1 /\ f[1] = a + 1)
  BY <1>2, <1>6
<1> QED
  BY <1>1, <1>5, <1>7

LEMMA PartFlows ==
  ASSUME NEW w \in Seq(Lines), NEW a \in Nat, NEW b, Flows(w, a, b), NEW n \in 0 .. Len(w)
  PROVE  \E m \in Nat : Flows(SubSeq(w, 1, n), a, m)
<1>1. /\ Len(w) \in Nat /\ Len(SubSeq(w, 1, n)) = n
      /\ \A i \in 1 .. n : SubSeq(w, 1, n)[i] = w[i]
  BY LenProperties, SubSeqProperties
<1>2. PICK f \in [0 .. Len(w) -> Nat] :
        /\ f[0] = a /\ f[Len(w)] = b
        /\ \A i \in 1 .. Len(w) : \/ w[i].token = 0 /\ f[i] = f[i - 1]
                                  \/ w[i].token = f[i - 1] + 1 /\ f[i] = f[i - 1] + 1
  BY DEF Flows
<1> DEFINE g == [i \in 0 .. n |-> f[i]]
<1>3. g \in [0 .. Len(SubSeq(w, 1, n)) -> Nat] /\ g[0] = a /\ g[Len(SubSeq(w, 1, n))] = f[n]
  BY <1>1, <1>2, SMTT(30)
<1>4. ASSUME NEW i \in 1 .. Len(SubSeq(w, 1, n))
      PROVE  \/ SubSeq(w, 1, n)[i].token = 0 /\ g[i] = g[i - 1]
             \/ SubSeq(w, 1, n)[i].token = g[i - 1] + 1 /\ g[i] = g[i - 1] + 1
  <2>1. /\ i \in 1 .. Len(w) /\ g[i] = f[i] /\ g[i - 1] = f[i - 1] /\ SubSeq(w, 1, n)[i] = w[i]
    BY <1>1
  <2> QED
    BY <1>2, <2>1
<1>5. Flows(SubSeq(w, 1, n), a, f[n]) /\ f[n] \in Nat
  BY <1>1, <1>2, <1>3, <1>4 DEF Flows
<1> QED
  BY <1>5

-----------------------------------------------------------------------------
(* What a consumer was given are the tokens from 1 on, and what is on the    *)
(* wire goes on from there to the last one that was sent, unless the         *)
(* connection broke. A line that ends the stream is the last one.            *)
OnTheWire(w, a, m, s) ==
  \E b \in Nat :
    /\ Flows(w, a, b)
    /\ s # "reset" => b = m
    /\ \A i \in 1 .. Len(w) : w[i].done => i = Len(w) /\ s # "open" /\ b = m

Upto(s) == s \in Seq(Nat) /\ \A i \in 1 .. Len(s) : s[i] = i

RemoteOK(k) ==
  /\ wire[k] \in Seq(Lines) /\ sent[k] \in Nat /\ Upto(given[k])
  /\ line[k] \in Lines
  /\ server[k] \in {"open", "closed", "reset"}
  /\ OnTheWire(wire[k], Len(given[k]), sent[k], server[k])
  /\ proxyPc[k] = "yielded" /\ line[k].done =>
       wire[k] = <<>> /\ server[k] # "open" /\ Len(given[k]) = sent[k]
  /\ proxyPc[k] = "ended" /\ op[k] = "stream" => Len(given[k]) = sent[k]

RemoteIInv ==
  /\ DOMAIN wire = Remotes /\ DOMAIN sent = Remotes /\ DOMAIN given = Remotes /\ DOMAIN line = Remotes
  /\ DOMAIN server = Remotes /\ DOMAIN proxyPc = Remotes /\ DOMAIN op = Remotes
  /\ \A k \in Remotes : RemoteOK(k)

LEMMA RemoteInitOK == Proxy!Init => RemoteIInv
<1> SUFFICES ASSUME Proxy!Init PROVE RemoteIInv
  OBVIOUS
<1>1. <<>> \in Seq(Lines) /\ Upto(<<>>) /\ Len(<<>>) = 0 /\ Proxy!NoLine \in Lines
  BY DEF Upto, Lines, Proxy!NoLine
<1>2. OnTheWire(<<>>, 0, 0, "open")
  BY NothingFlows DEF OnTheWire
<1>3. ASSUME NEW k \in Remotes PROVE RemoteOK(k)
  <2>1. /\ wire[k] = <<>> /\ sent[k] = 0 /\ given[k] = <<>> /\ line[k] = Proxy!NoLine /\ server[k] = "open"
        /\ proxyPc[k] = "idle" /\ Len(given[k]) = 0
    BY <1>1 DEF Proxy!Init
  <2>2. OnTheWire(wire[k], Len(given[k]), sent[k], server[k])
    BY <1>2, <2>1
  <2> QED
    BY <1>1, <2>1, <2>2 DEF RemoteOK
<1> QED
  BY <1>3 DEF Proxy!Init, RemoteIInv

(* A step changes one call. *)
OtherRemotes(k) ==
  /\ DOMAIN wire' = Remotes /\ DOMAIN sent' = Remotes /\ DOMAIN given' = Remotes /\ DOMAIN line' = Remotes
  /\ DOMAIN server' = Remotes /\ DOMAIN proxyPc' = Remotes /\ DOMAIN op' = Remotes
  /\ \A j \in Remotes \ {k} :
       /\ wire'[j] = wire[j] /\ sent'[j] = sent[j] /\ given'[j] = given[j] /\ line'[j] = line[j]
       /\ server'[j] = server[j] /\ proxyPc'[j] = proxyPc[j] /\ op'[j] = op[j]

LEMMA OneRemote ==
  ASSUME RemoteIInv, NEW k \in Remotes, OtherRemotes(k), RemoteOK(k)'
  PROVE  RemoteIInv'
BY DEF RemoteIInv, OtherRemotes, RemoteOK

LEMMA WhatComesAfter ==
  ASSUME NEW l
  PROVE  Proxy!After(l) = "reading" \/ (Proxy!After(l) = "ended" /\ l.done)
BY DEF Proxy!After, Proxy!Breaks

LEMMA RemoteStep == RemoteIInv /\ [Proxy!Next]_(Proxy!vars) => RemoteIInv'
<1> SUFFICES ASSUME RemoteIInv, [Proxy!Next]_(Proxy!vars) PROVE RemoteIInv'
  OBVIOUS
<1>1. ASSUME NEW k \in Remotes, UNCHANGED <<wire, server, sent, line, given>>,
             proxyPc' = [proxyPc EXCEPT ![k] = "sent"] \/ proxyPc' = [proxyPc EXCEPT ![k] = "raised"],
             \E o : op' = [op EXCEPT ![k] = o]
      PROVE  RemoteIInv'
  <2>1. OtherRemotes(k) /\ RemoteOK(k)'
    BY <1>1 DEF RemoteIInv, OtherRemotes, RemoteOK
  <2> QED
    BY <2>1, OneRemote
<1>2. ASSUME NEW k \in Remotes, Proxy!Generate(k) \/ Proxy!Stream(k) \/ Proxy!Chat(k)
      PROVE  RemoteIInv'
  BY <1>1, <1>2 DEF Proxy!Generate, Proxy!Stream, Proxy!Chat, Proxy!Sends, Proxy!Go
<1>3. ASSUME NEW k \in Remotes, Proxy!Respond(k) PROVE RemoteIInv'
  <2>1. OtherRemotes(k)
    BY <1>3 DEF RemoteIInv, OtherRemotes, Proxy!Respond, Proxy!Go
  <2>2. RemoteOK(k)'
    BY <1>3 DEF RemoteIInv, RemoteOK, Proxy!Respond, Proxy!Go
  <2> QED
    BY <2>1, <2>2, OneRemote
<1>4. ASSUME NEW k \in Remotes, Proxy!Serve(k) PROVE RemoteIInv'
  <2>1. PICK token \in {0, sent[k] + 1}, last \in {"none", "done", "error"} :
          /\ wire' = [wire EXCEPT ![k] = Append(@, [token |-> token, done |-> last = "done"])]
          /\ sent' = [sent EXCEPT ![k] = IF token > 0 THEN token ELSE @]
          /\ server' = [server EXCEPT ![k] = IF last = "none" THEN "open" ELSE "closed"]
    BY <1>4 DEF Proxy!Serve
  <2>2. proxyPc[k] \in {"reading", "yielded"} /\ server[k] = "open" /\ UNCHANGED <<proxyPc, op, line, given>>
    BY <1>4 DEF Proxy!Serve
  <2>3. OtherRemotes(k)
    BY <2>1, <2>2 DEF RemoteIInv, OtherRemotes
  <2>4. RemoteOK(k) /\ k \in DOMAIN wire /\ k \in DOMAIN sent /\ k \in DOMAIN server
    BY DEF RemoteIInv
  <2> DEFINE l == [token |-> token, done |-> last = "done"]
  <2>5. PICK b \in Nat : /\ Flows(wire[k], Len(given[k]), b) /\ b = sent[k]
                         /\ \A i \in 1 .. Len(wire[k]) : ~wire[k][i].done
    BY <2>2, <2>4 DEF RemoteOK, OnTheWire
  <2>6. /\ l \in Lines /\ wire[k] \in Seq(Lines) /\ Len(given[k]) \in Nat /\ sent'[k] \in Nat
        /\ (l.token = 0 /\ sent'[k] = b) \/ (l.token = b + 1 /\ sent'[k] = b + 1)
        /\ l.done <=> last = "done"
    <3>1. l.done <=> last = "done"
      BY Zenon
    <3>2. l \in Lines /\ l.token = token
      BY <2>4, <2>5 DEF Lines, RemoteOK
    <3>3. wire[k] \in Seq(Lines) /\ Len(given[k]) \in Nat
      BY <2>4, LenProperties DEF RemoteOK, Upto
    <3>4. sent'[k] = (IF token > 0 THEN token ELSE sent[k]) /\ sent[k] = b
      BY <2>1, <2>4, <2>5
    <3> HIDE DEF l
    <3> QED
      BY <3>1, <3>2, <3>3, <3>4
  <2>7. wire'[k] = Append(wire[k], l) /\ server'[k] = IF last = "none" THEN "open" ELSE "closed"
    BY <2>1, <2>4
  <2> HIDE DEF l
  <2>8. /\ Append(wire[k], l) \in Seq(Lines) /\ Len(Append(wire[k], l)) = Len(wire[k]) + 1
        /\ Append(wire[k], l)[Len(wire[k]) + 1] = l /\ Len(wire[k]) \in Nat
        /\ \A i \in 1 .. Len(wire[k]) : Append(wire[k], l)[i] = wire[k][i]
    BY <2>6, AppendProperties, LenProperties
  <2>9. Flows(Append(wire[k], l), Len(given[k]), sent'[k])
    BY <2>5, <2>6, FlowsOn
  <2>10. \A i \in 1 .. Len(Append(wire[k], l)) :
           Append(wire[k], l)[i].done => i = Len(Append(wire[k], l)) /\ last = "done"
    BY <2>5, <2>6, <2>8
  <2>11. OnTheWire(Append(wire[k], l), Len(given[k]), sent'[k], server'[k])
    BY <2>6, <2>7, <2>9, <2>10 DEF OnTheWire
  <2>12. RemoteOK(k)'
    BY <2>2, <2>4, <2>6, <2>7, <2>8, <2>11 DEF RemoteOK
  <2> QED
    BY <2>3, <2>12, OneRemote
<1>5. ASSUME NEW k \in Remotes, Proxy!Reset(k) PROVE RemoteIInv'
  <2>1. PICK n \in 0 .. Len(wire[k]) : wire' = [wire EXCEPT ![k] = SubSeq(@, 1, n)]
    BY <1>5 DEF Proxy!Reset
  <2>2. /\ proxyPc[k] \in {"reading", "yielded"} /\ server' = [server EXCEPT ![k] = "reset"]
        /\ UNCHANGED <<proxyPc, op, sent, line, given>>
    BY <1>5 DEF Proxy!Reset
  <2>3. OtherRemotes(k)
    BY <2>1, <2>2 DEF RemoteIInv, OtherRemotes
  <2>4. RemoteOK(k) /\ wire'[k] = SubSeq(wire[k], 1, n) /\ server'[k] = "reset"
    BY <2>1, <2>2 DEF RemoteIInv
  <2>5. /\ wire[k] \in Seq(Lines) /\ Len(wire[k]) \in Nat /\ Len(given[k]) \in Nat
        /\ SubSeq(wire[k], 1, n) \in Seq(Lines) /\ Len(SubSeq(wire[k], 1, n)) = n
        /\ \A i \in 1 .. n : SubSeq(wire[k], 1, n)[i] = wire[k][i]
    <3>1. wire[k] \in Seq(Lines) /\ given[k] \in Seq(Nat)
      BY <2>4 DEF RemoteOK, Upto
    <3>2. \A i \in 1 .. n : wire[k][i] \in Lines
      BY <3>1, ElementOfSeq, LenProperties
    <3> QED
      BY <3>1, <3>2, SubSeqProperties, LenProperties
  <2>6. PICK b \in Nat : /\ Flows(wire[k], Len(given[k]), b)
                         /\ \A i \in 1 .. Len(wire[k]) : wire[k][i].done => i = Len(wire[k]) /\ b = sent[k]
    BY <2>4 DEF RemoteOK, OnTheWire
  <2>7. OnTheWire(SubSeq(wire[k], 1, n), Len(given[k]), sent[k], "reset")
    <3>1. CASE n = Len(wire[k])
      <4>1. SubSeq(wire[k], 1, n) = wire[k]
        BY <2>5, <3>1, SeqEqual
      <4>2. OnTheWire(wire[k], Len(given[k]), sent[k], "reset")
        BY <2>6 DEF OnTheWire
      <4> QED
        BY <4>1, <4>2
    <3>2. CASE n # Len(wire[k])
      <4>1. PICK m \in Nat : Flows(SubSeq(wire[k], 1, n), Len(given[k]), m)
        BY <2>5, <2>6, PartFlows
      <4>2. \A i \in 1 .. n : ~SubSeq(wire[k], 1, n)[i].done
        BY <2>5, <2>6, <3>2
      <4> QED
        BY <2>5, <4>1, <4>2 DEF OnTheWire
    <3> QED
      BY <3>1, <3>2
  <2>8. wire[k] = <<>> => wire'[k] = <<>>
    BY <2>4, <2>5, EmptySeq
  <2>9. RemoteOK(k)'
    BY <2>2, <2>4, <2>5, <2>7, <2>8 DEF RemoteOK
  <2> QED
    BY <2>3, <2>9, OneRemote
<1>6. ASSUME NEW k \in Remotes, Proxy!ReadLine(k) PROVE RemoteIInv'
  <2> DEFINE l == Head(wire[k])
  <2>1. /\ proxyPc[k] = "reading" /\ wire[k] # <<>> /\ wire' = [wire EXCEPT ![k] = Tail(@)]
        /\ UNCHANGED <<op, server, sent>>
    BY <1>6 DEF Proxy!ReadLine
  <2>2. \/ /\ l.token = 0 /\ UNCHANGED <<line, given>>
           /\ proxyPc' = [proxyPc EXCEPT ![k] = Proxy!After(l)]
        \/ /\ l.token # 0 /\ proxyPc' = [proxyPc EXCEPT ![k] = "yielded"]
           /\ line' = [line EXCEPT ![k] = l] /\ given' = [given EXCEPT ![k] = Append(@, l.token)]
    BY <1>6 DEF Proxy!ReadLine, Proxy!Go
  <2>3. OtherRemotes(k)
    BY <2>1, <2>2 DEF RemoteIInv, OtherRemotes
  <2>4. RemoteOK(k) /\ wire'[k] = Tail(wire[k]) /\ k \in DOMAIN proxyPc /\ k \in DOMAIN line /\ k \in DOMAIN given
    BY <2>1 DEF RemoteIInv
  <2>5. /\ wire[k] \in Seq(Lines) /\ Len(wire[k]) \in Nat \ {0} /\ l = wire[k][1] /\ l \in Lines
        /\ Tail(wire[k]) \in Seq(Lines) /\ Len(Tail(wire[k])) = Len(wire[k]) - 1
        /\ \A i \in 1 .. Len(Tail(wire[k])) : Tail(wire[k])[i] = wire[k][i + 1]
        /\ given[k] \in Seq(Nat) /\ Len(given[k]) \in Nat
    BY <2>1, <2>4, HeadTailProperties, EmptySeq, LenProperties DEF RemoteOK, Upto
  <2>6. PICK b \in Nat : /\ Flows(wire[k], Len(given[k]), b) /\ (server[k] # "reset" => b = sent[k])
                         /\ \A i \in 1 .. Len(wire[k]) :
                              wire[k][i].done => i = Len(wire[k]) /\ server[k] # "open" /\ b = sent[k]
    BY <2>4 DEF RemoteOK, OnTheWire
  <2>7. /\ l.done => Tail(wire[k]) = <<>> /\ server[k] # "open" /\ b = sent[k]
        /\ \A i \in 1 .. Len(Tail(wire[k])) : Tail(wire[k])[i].done =>
              i = Len(Tail(wire[k])) /\ server[k] # "open" /\ b = sent[k]
    BY <2>5, <2>6, EmptySeq
  <2> HIDE DEF l
  <2>8. CASE l.token = 0
    <3>1. Flows(Tail(wire[k]), Len(given[k]), b)
      BY <2>1, <2>5, <2>6, <2>8, FlowsOff DEF l
    <3>2. OnTheWire(Tail(wire[k]), Len(given[k]), sent[k], server[k])
      BY <2>6, <2>7, <3>1 DEF OnTheWire
    <3>3. l.done => Len(given[k]) = sent[k]
      BY <2>7, <3>1, NothingMoreFlows
    <3>4. UNCHANGED <<line, given>> /\ proxyPc'[k] = Proxy!After(l)
      BY <2>2, <2>4, <2>8
    <3>5. proxyPc'[k] = "reading" \/ (proxyPc'[k] = "ended" /\ l.done)
      BY <3>4, WhatComesAfter
    <3>6. RemoteOK(k)'
      BY <2>1, <2>4, <2>5, <3>2, <3>3, <3>4, <3>5 DEF RemoteOK
    <3> QED
      BY <2>3, <3>6, OneRemote
  <2>9. CASE l.token # 0
    <3>1. l.token = Len(given[k]) + 1 /\ Flows(Tail(wire[k]), Len(given[k]) + 1, b)
      BY <2>1, <2>5, <2>6, <2>9, FlowsOff DEF l
    <3>2. proxyPc'[k] = "yielded" /\ line'[k] = l /\ given'[k] = Append(given[k], l.token)
      BY <2>2, <2>4, <2>9
    <3>3. Upto(given'[k]) /\ Len(given'[k]) = Len(given[k]) + 1
      BY <2>4, <2>5, <3>1, <3>2, AppendProperties DEF Upto, RemoteOK
    <3>4. OnTheWire(Tail(wire[k]), Len(given'[k]), sent[k], server[k])
      BY <2>6, <2>7, <3>1, <3>3 DEF OnTheWire
    <3>5. l.done => Len(given'[k]) = sent[k]
      BY <2>7, <3>1, <3>3, NothingMoreFlows
    <3>6. RemoteOK(k)'
      BY <2>1, <2>4, <2>5, <2>7, <3>2, <3>3, <3>4, <3>5 DEF RemoteOK
    <3> QED
      BY <2>3, <3>6, OneRemote
  <2> QED
    BY <2>8, <2>9
<1>7. ASSUME NEW k \in Remotes, Proxy!Resume(k) PROVE RemoteIInv'
  <2>1. OtherRemotes(k)
    BY <1>7 DEF RemoteIInv, OtherRemotes, Proxy!Resume, Proxy!Go
  <2>2. /\ proxyPc[k] = "yielded" /\ UNCHANGED <<op, wire, server, sent, line, given>>
        /\ proxyPc'[k] \in {"left", "reading"} \/ (proxyPc'[k] = "ended" /\ line[k].done)
    <3>1. proxyPc'[k] = Proxy!After(line[k]) \/ proxyPc'[k] = "left"
      BY <1>7 DEF RemoteIInv, Proxy!Resume, Proxy!Go
    <3> QED
      BY <1>7, <3>1, WhatComesAfter DEF Proxy!Resume
  <2>3. RemoteOK(k)'
    BY <2>2 DEF RemoteIInv, RemoteOK
  <2> QED
    BY <2>1, <2>3, OneRemote
<1>8. ASSUME NEW k \in Remotes, Proxy!NoMoreLines(k) PROVE RemoteIInv'
  <2>1. OtherRemotes(k)
    BY <1>8 DEF RemoteIInv, OtherRemotes, Proxy!NoMoreLines, Proxy!Go
  <2>2. /\ wire[k] = <<>> /\ UNCHANGED <<op, wire, server, sent, line, given>>
        /\ proxyPc'[k] = "raised" \/ (proxyPc'[k] = "ended" /\ server[k] = "closed")
    <3>1. proxyPc'[k] = IF server[k] = "closed" THEN "ended" ELSE "raised"
      BY <1>8 DEF RemoteIInv, Proxy!NoMoreLines, Proxy!Go
    <3> QED
      BY <1>8, <3>1 DEF Proxy!NoMoreLines
  <2>3. RemoteOK(k)
    BY DEF RemoteIInv
  <2>4. server[k] = "closed" => Len(given[k]) = sent[k]
    BY <2>2, <2>3, NothingMoreFlows DEF RemoteOK, OnTheWire
  <2>5. RemoteOK(k)'
    BY <2>2, <2>3, <2>4 DEF RemoteOK
  <2> QED
    BY <2>1, <2>5, OneRemote
<1>9. CASE UNCHANGED Proxy!vars
  <2>1. \A k \in Remotes : RemoteOK(k)' <=> RemoteOK(k)
    BY <1>9 DEF Proxy!vars, RemoteOK
  <2> QED
    BY <1>9, <2>1 DEF RemoteIInv, Proxy!vars
<1> QED
  BY <1>2, <1>3, <1>4, <1>5, <1>6, <1>7, <1>8, <1>9 DEF Proxy!Next

LEMMA EndsYieldAll == RemoteIInv => Proxy!EndYieldsAll
<1> SUFFICES ASSUME RemoteIInv, NEW k \in Remotes, proxyPc[k] = "ended", op[k] = "stream"
             PROVE  given[k] = [i \in 1 .. sent[k] |-> i]
  BY DEF Proxy!EndYieldsAll
<1>1. given[k] \in Seq(Nat) /\ (\A i \in 1 .. Len(given[k]) : given[k][i] = i) /\ Len(given[k]) = sent[k]
  BY DEF RemoteIInv, RemoteOK, Upto
<1>2. given[k] = [i \in 1 .. Len(given[k]) |-> given[k][i]]
  BY <1>1
<1> QED
  BY <1>1, <1>2

-----------------------------------------------------------------------------
(* The streams of the text backends. Follow(s, n, m): the tokens on s are    *)
(* n+1, ..., m, and nothing or the sentinel comes after them.                *)
Follow(s, n, m) ==
  /\ s \in Seq(Nat) /\ n \in Nat /\ m \in Nat /\ n <= m
  /\ Len(s) = m - n \/ (Len(s) = m - n + 1 /\ s[Len(s)] = 0)
  /\ \A i \in 1 .. m - n : s[i] = n + i

Closed(s) == s # <<>> /\ s[Len(s)] = 0

LEMMA NothingFollows == \A n \in Nat : Follow(<<>>, n, n) /\ ~Closed(<<>>)
BY DEF Follow, Closed

LEMMA OpenLength ==
  ASSUME NEW s, NEW n, NEW m, Follow(s, n, m)
  PROVE  Len(s) \in Nat /\ (Closed(s) <=> Len(s) = m - n + 1)
<1>1. Len(s) \in Nat /\ (s = <<>> <=> Len(s) = 0)
  BY LenProperties, EmptySeq DEF Follow
<1> QED
  BY <1>1 DEF Follow, Closed

LEMMA FollowOn ==
  ASSUME NEW s, NEW n, NEW m, Follow(s, n, m), ~Closed(s)
  PROVE  /\ Follow(Append(s, m + 1), n, m + 1) /\ ~Closed(Append(s, m + 1))
         /\ Follow(Append(s, 0), n, m)
<1>1. Len(s) = m - n /\ s \in Seq(Nat) /\ m \in Nat /\ n \in Nat /\ n <= m
  BY OpenLength DEF Follow
<1>2. m + 1 \in Nat /\ 0 \in Nat
  BY <1>1
<1>3. /\ Append(s, m + 1) \in Seq(Nat) /\ Len(Append(s, m + 1)) = m - n + 1
      /\ \A i \in 1 .. m - n : Append(s, m + 1)[i] = s[i]
      /\ Append(s, m + 1)[m - n + 1] = m + 1
      /\ Append(s, m + 1) # <<>>
  BY <1>1, <1>2, AppendProperties
<1>4. /\ Append(s, 0) \in Seq(Nat) /\ Len(Append(s, 0)) = m - n + 1
      /\ \A i \in 1 .. m - n : Append(s, 0)[i] = s[i]
      /\ Append(s, 0)[m - n + 1] = 0
  BY <1>1, <1>2, AppendProperties
<1>5. Follow(Append(s, m + 1), n, m + 1) /\ ~Closed(Append(s, m + 1))
  <2>1. \A i \in 1 .. (m + 1) - n : Append(s, m + 1)[i] = n + i
    <3> TAKE i \in 1 .. (m + 1) - n
    <3>1. CASE i = m - n + 1
      BY <1>1, <1>3, <3>1
    <3>2. CASE i \in 1 .. m - n
      BY <1>1, <1>3, <3>2 DEF Follow
    <3> QED
      BY <1>1, <3>1, <3>2
  <2>2. Append(s, m + 1)[Len(Append(s, m + 1))] # 0
    BY <1>1, <1>3
  <2>3. Len(Append(s, m + 1)) = (m + 1) - n /\ n <= m + 1
    BY <1>1, <1>3
  <2>4. Follow(Append(s, m + 1), n, m + 1)
    BY <1>1, <1>2, <1>3, <2>1, <2>3 DEF Follow
  <2> QED
    BY <2>2, <2>4 DEF Closed
<1>6. Follow(Append(s, 0), n, m)
  BY <1>1, <1>2, <1>4 DEF Follow
<1> QED
  BY <1>5, <1>6

LEMMA FollowOff ==
  ASSUME NEW s, NEW n, NEW m, Follow(s, n, m), s # <<>>
  PROVE  \/ Head(s) = 0 /\ Tail(s) = <<>> /\ n = m /\ Closed(s)
         \/ Head(s) = n + 1 /\ Follow(Tail(s), n + 1, m) /\ (Closed(Tail(s)) <=> Closed(s))
<1>1. /\ s \in Seq(Nat) /\ n \in Nat /\ m \in Nat /\ n <= m /\ Head(s) = s[1]
      /\ Tail(s) \in Seq(Nat) /\ Len(Tail(s)) = Len(s) - 1 /\ Len(s) \in Nat /\ Len(s) > 0
      /\ \A i \in 1 .. Len(Tail(s)) : Tail(s)[i] = s[i + 1]
      /\ Len(s) = 1 => Tail(s) = <<>>
  <2>1. s \in Seq(Nat) /\ n \in Nat /\ m \in Nat /\ n <= m
    BY DEF Follow
  <2>2. /\ Tail(s) \in Seq(Nat) /\ Len(Tail(s)) = Len(s) - 1 /\ Head(s) = s[1]
        /\ \A i \in 1 .. Len(Tail(s)) : Tail(s)[i] = s[i + 1]
    BY <2>1, HeadTailProperties
  <2>3. Len(s) \in Nat /\ Len(s) > 0 /\ (Len(Tail(s)) = 0 => Tail(s) = <<>>)
    BY <2>1, <2>2, LenProperties, EmptySeq
  <2> QED
    BY <2>1, <2>2, <2>3
<1>2. CASE n = m
  <2>1. Len(s) = 1 /\ s[1] = 0
    BY <1>1, <1>2 DEF Follow
  <2> QED
    BY <1>1, <1>2, <2>1 DEF Closed
<1>3. CASE n < m
  <2>1. Head(s) = n + 1
    BY <1>1, <1>3 DEF Follow
  <2>2. \A i \in 1 .. m - (n + 1) : Tail(s)[i] = (n + 1) + i
    <3> TAKE i \in 1 .. m - (n + 1)
    <3>1. i + 1 \in 1 .. m - n /\ i \in 1 .. Len(Tail(s))
      BY <1>1, <1>3 DEF Follow
    <3> QED
      BY <1>1, <3>1 DEF Follow
  <2>3. Follow(Tail(s), n + 1, m)
    <3>1. CASE Len(s) = m - n
      BY <1>1, <1>3, <2>2, <3>1 DEF Follow
    <3>2. CASE Len(s) = m - n + 1 /\ s[Len(s)] = 0
      <4>1. Len(Tail(s)) \in 1 .. Len(Tail(s)) /\ Len(Tail(s)) + 1 = Len(s)
        BY <1>1, <1>3, <3>2
      <4>2. Tail(s)[Len(Tail(s))] = 0
        BY <1>1, <3>2, <4>1
      <4> QED
        BY <1>1, <1>3, <2>2, <3>2, <4>2 DEF Follow
    <3> QED
      BY <3>1, <3>2 DEF Follow
  <2>4. Closed(Tail(s)) <=> Closed(s)
    <3>1. Closed(s) <=> Len(s) = m - n + 1
      BY OpenLength
    <3>2. Closed(Tail(s)) <=> Len(Tail(s)) = m - (n + 1) + 1
      BY <2>3, OpenLength
    <3> QED
      BY <1>1, <3>1, <3>2
  <2> QED
    BY <2>1, <2>3, <2>4
<1> QED
  BY <1>1, <1>2, <1>3

(* The steps of a text backend with streams S and whole calls W, as far as   *)
(* its streams go: llama.cpp's, whose model puts into the queue and whose    *)
(* streamers stay empty, and transformers', whose model puts into a streamer.*)
NextJob(W) ==
  /\ backlog # <<>> /\ backlog' = Tail(backlog) /\ pool' = pool \cup {Head(backlog)}
  /\ model' = [model EXCEPT ![Head(backlog)] = IF Head(backlog) \in W THEN "running" ELSE @]
  /\ UNCHANGED <<textPc, made, relay, producer, queue, held, yielded>>

Begin(S, c) ==
  /\ textPc[c] = "idle" /\ textPc' = [textPc EXCEPT ![c] = "waiting"] /\ backlog' = Append(backlog, c)
  /\ producer' = [producer EXCEPT ![c] = IF c \in S THEN "running" ELSE @]
  /\ model' = [model EXCEPT ![c] = IF c \in S THEN "running" ELSE @]
  /\ UNCHANGED <<pool, made, relay, queue, held, yielded>>

Make(S, c) ==
  /\ model[c] = "running" /\ made' = [made EXCEPT ![c] = @ + 1]
  /\ \/ c \notin S /\ UNCHANGED <<relay, queue>>
     \/ c \in S /\ relay' = [relay EXCEPT ![c] = Append(@, made[c] + 1)] /\ UNCHANGED queue
     \/ c \in S /\ relay[c] = <<>> /\ queue' = [queue EXCEPT ![c] = Append(@, made[c] + 1)] /\ UNCHANGED relay
  /\ UNCHANGED <<textPc, backlog, pool, model, producer, held, yielded>>

Stop(S, c, ok) ==
  /\ model[c] = "running" /\ model' = [model EXCEPT ![c] = IF ok THEN "ended" ELSE "failed"]
  /\ \/ /\ c \notin S /\ pool' = pool \ {c} /\ UNCHANGED <<producer, queue, relay>>
        /\ \E p : textPc' = [textPc EXCEPT ![c] = p]
     \/ /\ c \in S /\ relay' = [relay EXCEPT ![c] = IF ok THEN Append(@, 0) ELSE @]
        /\ UNCHANGED <<textPc, pool, producer, queue>>
     \/ /\ c \in S /\ relay[c] = <<>> /\ queue' = [queue EXCEPT ![c] = Append(@, 0)]
        /\ producer' = [producer EXCEPT ![c] = "ended"]
        /\ UNCHANGED <<textPc, pool, relay>>
  /\ UNCHANGED <<backlog, made, held, yielded>>

Pass(c) ==
  /\ producer[c] = "running" /\ relay[c] # <<>> /\ relay' = [relay EXCEPT ![c] = Tail(@)]
  /\ queue' = [queue EXCEPT ![c] = Append(@, Head(relay[c]))]
  /\ producer' = [producer EXCEPT ![c] = IF Head(relay[c]) = 0 THEN "ended" ELSE @]
  /\ UNCHANGED <<textPc, backlog, pool, model, made, held, yielded>>

Get(S, c) ==
  /\ c \in pool \cap S /\ queue[c] # <<>> /\ queue' = [queue EXCEPT ![c] = Tail(@)] /\ pool' = pool \ {c}
  /\ \/ textPc[c] = "gone" /\ UNCHANGED <<textPc, held>>
     \/ textPc[c] # "gone" /\ Head(queue[c]) = 0 /\ textPc' = [textPc EXCEPT ![c] = "ended"] /\ held' = held
     \/ /\ textPc[c] # "gone" /\ Head(queue[c]) # 0 /\ textPc' = [textPc EXCEPT ![c] = "yield"]
        /\ held' = [held EXCEPT ![c] = Head(queue[c])]
  /\ UNCHANGED <<backlog, model, made, relay, producer, yielded>>

Give(c) ==
  /\ textPc[c] = "yield" /\ yielded' = [yielded EXCEPT ![c] = Append(@, held[c])]
  /\ held' = [held EXCEPT ![c] = 0] /\ textPc' = [textPc EXCEPT ![c] = "waiting"]
  /\ backlog' = Append(backlog, c)
  /\ UNCHANGED <<pool, model, made, relay, producer, queue>>

Without(s, i) == SubSeq(s, 1, i - 1) \o SubSeq(s, i + 1, Len(s))

Leave(c) ==
  /\ textPc' = [textPc EXCEPT ![c] = "gone"]
  /\ \/ ~(\E i \in DOMAIN backlog : backlog[i] = c) /\ backlog' = backlog
     \/ \E i \in DOMAIN backlog : backlog[i] = c /\ backlog' = Without(backlog, i)
  /\ UNCHANGED <<pool, model, made, relay, producer, queue, held, yielded>>

TextStep(S, W) ==
  \/ NextJob(W)
  \/ \E c \in S \cup W : \/ Begin(S, c) \/ Make(S, c) \/ Pass(c) \/ Get(S, c) \/ Give(c) \/ Leave(c)
                         \/ \E ok \in BOOLEAN : Stop(S, c, ok)
  \/ UNCHANGED <<textPc, backlog, pool, model, made, relay, producer, queue, held, yielded>>

TextInit(S, W) ==
  /\ textPc = [c \in S \cup W |-> "idle"] /\ backlog = <<>> /\ pool = {}
  /\ model = [c \in S \cup W |-> "unused"] /\ made = [c \in S \cup W |-> 0]
  /\ relay = [c \in S \cup W |-> <<>>] /\ producer = [c \in S \cup W |-> "none"]
  /\ queue = [c \in S \cup W |-> <<>>] /\ held = [c \in S \cup W |-> 0]
  /\ yielded = [c \in S \cup W |-> <<>>]

(* A job waits for a thread or has one; its call waits for it.               *)
JobsOK(S, W) ==
  /\ DOMAIN textPc = S \cup W /\ DOMAIN model = S \cup W
  /\ \A c \in W : model[c] = "running" => c \in pool
  /\ backlog \in Seq(S \cup W) /\ pool \subseteq S \cup W
  /\ \A i \in 1 .. Len(backlog) : textPc[backlog[i]] = "waiting" /\ backlog[i] \notin pool
  /\ \A i, j \in 1 .. Len(backlog) : backlog[i] = backlog[j] => i = j
  /\ \A c \in pool : textPc[c] \in {"waiting", "gone"}

LEMMA JobSubmitted ==
  ASSUME NEW S, NEW W, JobsOK(S, W), NEW c \in S \cup W, textPc[c] # "waiting", c \notin pool, pool' = pool,
         DOMAIN model' = S \cup W, \A d \in W : model'[d] = model[d],
         textPc' = [textPc EXCEPT ![c] = "waiting"], backlog' = Append(backlog, c)
  PROVE  JobsOK(S, W)'
<1>1. /\ backlog' \in Seq(S \cup W) /\ Len(backlog') = Len(backlog) + 1 /\ Len(backlog) \in Nat
      /\ backlog'[Len(backlog) + 1] = c
      /\ \A i \in 1 .. Len(backlog) : backlog'[i] = backlog[i] /\ backlog[i] \in S \cup W
  BY AppendProperties, LenProperties, ElementOfSeq DEF JobsOK
<1>2. \A i \in 1 .. Len(backlog) : backlog[i] # c
  BY DEF JobsOK
<1>3. \A i \in 1 .. Len(backlog') : textPc'[backlog'[i]] = "waiting" /\ backlog'[i] \notin pool'
  BY <1>1, <1>2 DEF JobsOK
<1>4. \A i, j \in 1 .. Len(backlog') : backlog'[i] = backlog'[j] => i = j
  <2> SUFFICES ASSUME NEW i \in 1 .. Len(backlog'), NEW j \in 1 .. Len(backlog'), backlog'[i] = backlog'[j]
               PROVE  i = j
    OBVIOUS
  <2>1. CASE i = Len(backlog) + 1 \/ j = Len(backlog) + 1
    BY <1>1, <1>2, <2>1
  <2>2. CASE i \in 1 .. Len(backlog) /\ j \in 1 .. Len(backlog)
    BY <1>1, <2>2 DEF JobsOK
  <2> QED
    BY <1>1, <2>1, <2>2
<1> QED
  BY <1>1, <1>3, <1>4 DEF JobsOK

LEMMA JobRemoved ==
  ASSUME NEW S, NEW s \in Seq(S), NEW i \in 1 .. Len(s)
  PROVE  LET u == Without(s, i) IN
         /\ u \in Seq(S) /\ Len(u) = Len(s) - 1
         /\ \A j \in 1 .. Len(s) - 1 : u[j] = IF j < i THEN s[j] ELSE s[j + 1]
<1> DEFINE u == SubSeq(s, 1, i - 1)
           v == SubSeq(s, i + 1, Len(s))
<1>1. PICK n \in Nat : n = Len(s)
  BY LenProperties
<1>2. \A j \in 1 .. n : s[j] \in S
  BY <1>1, ElementOfSeq
<1>3. u \in Seq(S) /\ Len(u) = i - 1 /\ \A j \in 1 .. i - 1 : u[j] = s[j]
  <2>1. \A j \in 1 .. i - 1 : s[j] \in S
    BY <1>1, <1>2
  <2> QED
    BY <1>1, <2>1, SubSeqProperties
<1>4. /\ v \in Seq(S) /\ Len(v) = n - i
      /\ \A j \in 1 .. n - i : v[j] = s[i + j]
  <2>1. \A j \in i + 1 .. n : s[j] \in S
    BY <1>1, <1>2
  <2>2. /\ v \in Seq(S) /\ Len(v) = IF i + 1 <= n THEN n - (i + 1) + 1 ELSE 0
        /\ \A j \in 1 .. n - (i + 1) + 1 : v[j] = s[(i + 1) + j - 1]
    BY <1>1, <2>1, SubSeqProperties
  <2>3. i \in 1 .. n
    BY <1>1
  <2> HIDE DEF v
  <2>4. ASSUME NEW j \in 1 .. n - i PROVE v[j] = s[i + j]
    <3>1. j \in 1 .. n - (i + 1) + 1 /\ (i + 1) + j - 1 = i + j
      BY <2>3
    <3> QED
      BY <2>2, <3>1
  <2>5. Len(v) = n - i
    BY <2>2, <2>3
  <2> QED
    BY <2>2, <2>4, <2>5
<1>5. Without(s, i) = u \o v
  BY DEF Without
<1> HIDE DEF u, v
<1>6. /\ u \o v \in Seq(S) /\ Len(u \o v) = Len(u) + Len(v)
      /\ \A j \in 1 .. Len(u) + Len(v) : (u \o v)[j] = IF j <= Len(u) THEN u[j] ELSE v[j - Len(u)]
  BY <1>3, <1>4, ConcatProperties
<1>7. i \in 1 .. n /\ Len(u) + Len(v) = n - 1
  BY <1>1, <1>3, <1>4
<1>8. ASSUME NEW j \in 1 .. n - 1 PROVE (u \o v)[j] = IF j < i THEN s[j] ELSE s[j + 1]
  <2>1. CASE j < i
    <3>1. j \in 1 .. i - 1 /\ j \in 1 .. Len(u) + Len(v) /\ j <= Len(u)
      BY <1>3, <1>7, <2>1
    <3> QED
      BY <1>3, <1>6, <2>1, <3>1
  <2>2. CASE ~(j < i)
    <3>1. /\ j - (i - 1) \in 1 .. n - i /\ j \in 1 .. Len(u) + Len(v) /\ ~(j <= Len(u))
          /\ i + (j - (i - 1)) = j + 1 /\ j - Len(u) = j - (i - 1)
      BY <1>3, <1>7, <2>2
    <3>2. (u \o v)[j] = v[j - (i - 1)]
      BY <1>6, <3>1
    <3>3. v[j - (i - 1)] = s[j + 1]
      BY <1>4, <3>1
    <3> QED
      BY <2>2, <3>2, <3>3
  <2> QED
    BY <2>1, <2>2
<1> QED
  BY <1>1, <1>5, <1>6, <1>7, <1>8

LEMMA JobsStep ==
  ASSUME NEW S, NEW W, S \cap W = {}, JobsOK(S, W), TextStep(S, W)
  PROVE  JobsOK(S, W)'
<1>1. CASE NextJob(W)
  <2>1. /\ backlog # <<>> /\ backlog' = Tail(backlog) /\ textPc' = textPc
        /\ pool' = pool \cup {Head(backlog)}
        /\ model' = [model EXCEPT ![Head(backlog)] = IF Head(backlog) \in W THEN "running" ELSE @]
    BY <1>1 DEF NextJob
  <2>2. /\ backlog' \in Seq(S \cup W) /\ Len(backlog') = Len(backlog) - 1 /\ Len(backlog) \in Nat \ {0}
        /\ Head(backlog) = backlog[1] /\ Head(backlog) \in S \cup W
        /\ \A i \in 1 .. Len(backlog') : backlog'[i] = backlog[i + 1] /\ i + 1 \in 1 .. Len(backlog)
    BY <2>1, HeadTailProperties, EmptySeq, LenProperties DEF JobsOK
  <2>3. 1 \in 1 .. Len(backlog)
    BY <2>2
  <2>4. \A i \in 1 .. Len(backlog') : backlog'[i] # backlog[1]
    BY <2>2, <2>3 DEF JobsOK
  <2>5. \A i, j \in 1 .. Len(backlog') : backlog'[i] = backlog'[j] => i = j
    <3> TAKE i, j \in 1 .. Len(backlog')
    <3>1. backlog'[i] = backlog'[j] => i + 1 = j + 1
      BY <2>2 DEF JobsOK
    <3> QED
      BY <2>2, <3>1
  <2>6. DOMAIN model' = S \cup W /\ \A c \in W : model'[c] = "running" => c \in pool'
    BY <2>1, <2>2 DEF JobsOK
  <2> QED
    BY <2>1, <2>2, <2>3, <2>4, <2>5, <2>6 DEF JobsOK
<1>2. ASSUME NEW c \in S \cup W, Begin(S, c) PROVE JobsOK(S, W)'
  <2>1. textPc[c] = "idle" /\ textPc' = [textPc EXCEPT ![c] = "waiting"]
        /\ backlog' = Append(backlog, c) /\ pool' = pool
    BY <1>2 DEF Begin
  <2>2. c \notin pool
    BY <2>1 DEF JobsOK
  <2>3. DOMAIN model' = S \cup W /\ \A d \in W : model'[d] = model[d]
    <3>1. model' = [model EXCEPT ![c] = IF c \in S THEN "running" ELSE @]
      BY <1>2 DEF Begin
    <3> QED
      BY <3>1 DEF JobsOK
  <2> QED
    BY <2>1, <2>2, <2>3, JobSubmitted
<1>3. ASSUME UNCHANGED <<textPc, backlog, pool, model>> PROVE JobsOK(S, W)'
  BY <1>3 DEF JobsOK
<1>4. ASSUME NEW c \in S \cup W, Make(S, c) \/ Pass(c) PROVE JobsOK(S, W)'
  BY <1>3, <1>4 DEF Make, Pass
<1>5. ASSUME NEW c \in S \cup W, Get(S, c) PROVE JobsOK(S, W)'
  <2>1. /\ c \in pool /\ pool' = pool \ {c} /\ backlog' = backlog /\ model' = model /\ c \in S
        /\ textPc' = textPc \/ textPc' = [textPc EXCEPT ![c] = "ended"] \/ textPc' = [textPc EXCEPT ![c] = "yield"]
    BY <1>5 DEF Get
  <2>5. c \notin W
    BY <2>1
  <2>2. \A i \in 1 .. Len(backlog) : backlog[i] # c
    BY <2>1 DEF JobsOK
  <2>3. DOMAIN textPc' = S \cup W /\ \A d \in S \cup W : d # c => textPc'[d] = textPc[d]
    BY <2>1 DEF JobsOK
  <2>4. \A i \in 1 .. Len(backlog) : backlog[i] \in S \cup W
    BY ElementOfSeq DEF JobsOK
  <2> QED
    BY <2>1, <2>2, <2>3, <2>4, <2>5 DEF JobsOK
<1>6. ASSUME NEW c \in S \cup W, Give(c) PROVE JobsOK(S, W)'
  <2>1. textPc[c] = "yield" /\ textPc' = [textPc EXCEPT ![c] = "waiting"]
        /\ backlog' = Append(backlog, c) /\ pool' = pool /\ model' = model
    BY <1>6 DEF Give
  <2>2. c \notin pool /\ DOMAIN model' = S \cup W /\ \A d \in W : model'[d] = model[d]
    BY <2>1 DEF JobsOK
  <2> QED
    BY <2>1, <2>2, JobSubmitted
<1>7. ASSUME NEW c \in S \cup W, Leave(c) PROVE JobsOK(S, W)'
  <2>1. /\ textPc' = [textPc EXCEPT ![c] = "gone"] /\ pool' = pool /\ model' = model
        /\ backlog \in Seq(S \cup W) /\ Len(backlog) \in Nat
        /\ \A i \in 1 .. Len(backlog) : backlog[i] \in S \cup W
        /\ DOMAIN backlog = 1 .. Len(backlog)
    BY <1>7, ElementOfSeq, LenProperties DEF Leave, JobsOK
  <2>2. DOMAIN textPc' = S \cup W /\ textPc'[c] = "gone" /\ \A d \in S \cup W : d # c => textPc'[d] = textPc[d]
    BY <2>1 DEF JobsOK
  <2>3. CASE \E i \in DOMAIN backlog : backlog[i] = c
    <3>0. \E i \in DOMAIN backlog : backlog[i] = c /\ backlog' = Without(backlog, i)
      BY <1>7, <2>3 DEF Leave
    <3>2. DOMAIN backlog = 1 .. Len(backlog)
      BY <2>1
    <3>1. PICK i \in 1 .. Len(backlog) : backlog[i] = c /\ backlog' = Without(backlog, i)
      BY <3>0, <3>2
    <3>5. /\ backlog' \in Seq(S \cup W) /\ Len(backlog') = Len(backlog) - 1
          /\ \A j \in 1 .. Len(backlog) - 1 : backlog'[j] = IF j < i THEN backlog[j] ELSE backlog[j + 1]
      BY <2>1, <3>1, JobRemoved
    <3>6. \A j \in 1 .. Len(backlog') : \E n \in 1 .. Len(backlog) :
             backlog'[j] = backlog[n] /\ n # i /\ n = (IF j < i THEN j ELSE j + 1)
      BY <2>1, <3>5
    <3>7. \A j \in 1 .. Len(backlog') : backlog'[j] # c /\ backlog'[j] \notin pool /\ textPc[backlog'[j]] = "waiting"
                                        /\ backlog'[j] \in S \cup W
      BY <2>1, <3>1, <3>6 DEF JobsOK
    <3>8. \A j, l \in 1 .. Len(backlog') : backlog'[j] = backlog'[l] => j = l
      BY <2>1, <3>5, <3>6 DEF JobsOK
    <3> QED
      BY <2>1, <2>2, <3>5, <3>7, <3>8 DEF JobsOK
  <2>4. CASE ~\E i \in DOMAIN backlog : backlog[i] = c
    BY <1>7, <2>1, <2>2, <2>4 DEF JobsOK, Leave
  <2> QED
    BY <2>3, <2>4
<1>8. ASSUME NEW c \in S \cup W, NEW ok \in BOOLEAN, Stop(S, c, ok) PROVE JobsOK(S, W)'
  <2>1. /\ model[c] = "running" /\ model' = [model EXCEPT ![c] = IF ok THEN "ended" ELSE "failed"]
        /\ backlog' = backlog
    BY <1>8 DEF Stop
  <2>2. DOMAIN model' = S \cup W /\ \A d \in S \cup W : model'[d] = "running" => d # c /\ model[d] = "running"
    BY <2>1 DEF JobsOK
  <2>3. CASE UNCHANGED <<textPc, pool>>
    <3>1. \A d \in W : model'[d] = "running" => d \in pool'
      BY <2>2, <2>3 DEF JobsOK
    <3> QED
      BY <2>1, <2>2, <2>3, <3>1 DEF JobsOK
  <2>4. CASE /\ c \in W /\ pool' = pool \ {c}
             /\ \E p : textPc' = [textPc EXCEPT ![c] = p]
    <3>1. DOMAIN textPc' = S \cup W /\ \A d \in S \cup W : d # c => textPc'[d] = textPc[d]
      BY <2>4 DEF JobsOK
    <3>2. c \in pool
      BY <2>1, <2>4 DEF JobsOK
    <3>3. \A i \in 1 .. Len(backlog) : backlog[i] # c /\ backlog[i] \in S \cup W
      BY <3>2, ElementOfSeq DEF JobsOK
    <3>4. \A d \in W : model'[d] = "running" => d \in pool'
      BY <2>2, <2>4 DEF JobsOK
    <3> QED
      BY <2>1, <2>2, <2>4, <3>1, <3>3, <3>4 DEF JobsOK
  <2> QED
    BY <1>8, <2>3, <2>4 DEF Stop
<1>9. CASE UNCHANGED <<textPc, backlog, pool, model, made, relay, producer, queue, held, yielded>>
  BY <1>3, <1>9
<1> QED
  BY <1>1, <1>2, <1>4, <1>5, <1>6, <1>7, <1>8, <1>9 DEF TextStep

(* A stream that is not abandoned: its consumer was given the tokens from 1  *)
(* on and holds the next one or none; the queue goes on from there, the      *)
(* streamer from the queue, up to the last token the model made. A queue     *)
(* with the sentinel has a producer that ended, which has emptied the        *)
(* streamer of a run that is over.                                           *)
Reached(k) == Len(yielded[k]) + (IF held[k] = 0 THEN 0 ELSE 1)

StreamOK(k) ==
  /\ Upto(yielded[k]) /\ held[k] \in {0, Len(yielded[k]) + 1}
  /\ held[k] # 0 <=> textPc[k] = "yield"
  /\ \E m \in Nat : Follow(queue[k], Reached(k), m) /\ Follow(relay[k], m, made[k])
  /\ Closed(queue[k]) => producer[k] # "running"
  /\ producer[k] # "running" => relay[k] = <<>> /\ model[k] # "running"
  /\ model[k] = "running" => ~Closed(relay[k])
  /\ textPc[k] \in {"idle", "ended"} => queue[k] = <<>> /\ producer[k] # "running"

StreamDomains(S, W) ==
  /\ DOMAIN made = S \cup W /\ DOMAIN relay = S \cup W /\ DOMAIN producer = S \cup W
  /\ DOMAIN queue = S \cup W /\ DOMAIN held = S \cup W /\ DOMAIN yielded = S \cup W

StreamsIInv(S, W) ==
  /\ JobsOK(S, W) /\ StreamDomains(S, W)
  /\ \A k \in S : textPc[k] = "gone" \/ StreamOK(k)

LEMMA StreamsInitOK == ASSUME NEW S, NEW W, TextInit(S, W) PROVE StreamsIInv(S, W)
<1>1. <<>> \in Seq(S \cup W) /\ Len(<<>>) = 0 /\ Upto(<<>>)
  BY DEF Upto
<1>2. JobsOK(S, W) /\ StreamDomains(S, W)
  BY <1>1 DEF TextInit, JobsOK, StreamDomains
<1>3. ASSUME NEW k \in S PROVE StreamOK(k)
  <2>1. k \in S \cup W
    OBVIOUS
  <2>2. /\ textPc[k] = "idle" /\ model[k] = "unused" /\ made[k] = 0 /\ relay[k] = <<>>
        /\ producer[k] = "none" /\ queue[k] = <<>> /\ held[k] = 0 /\ yielded[k] = <<>>
    BY <2>1 DEF TextInit
  <2>3. Follow(<<>>, 0, 0) /\ ~Closed(<<>>) /\ Reached(k) = 0
    BY <1>1, <2>2, NothingFollows DEF Reached
  <2> QED
    BY <1>1, <2>2, <2>3 DEF StreamOK
<1> QED
  BY <1>2, <1>3 DEF StreamsIInv

(* A step changes one call.                                                  *)
Same(k) == UNCHANGED <<textPc[k], model[k], made[k], relay[k], producer[k], queue[k], held[k], yielded[k]>>

LEMMA SameStream == ASSUME NEW k, Same(k) PROVE StreamOK(k)' <=> StreamOK(k)
BY DEF Same, StreamOK, Reached

LEMMA OneStream ==
  ASSUME NEW S, NEW W, StreamsIInv(S, W), JobsOK(S, W)', StreamDomains(S, W)', NEW c, \A k \in S \ {c} : Same(k),
         c \in S => textPc'[c] = "gone" \/ StreamOK(c)'
  PROVE  StreamsIInv(S, W)'
<1>1. ASSUME NEW k \in S PROVE textPc'[k] = "gone" \/ StreamOK(k)'
  <2>1. CASE k = c
    BY <2>1
  <2>2. CASE k # c
    <3>1. Same(k) /\ (textPc[k] = "gone" \/ StreamOK(k))
      BY <2>2 DEF StreamsIInv
    <3>2. StreamOK(k)' <=> StreamOK(k)
      BY <3>1, SameStream
    <3> QED
      BY <3>1, <3>2 DEF Same
  <2> QED
    BY <2>1, <2>2
<1> QED
  BY <1>1 DEF StreamsIInv

LEMMA StreamsStep ==
  ASSUME NEW S, NEW W, S \cap W = {}, StreamsIInv(S, W), TextStep(S, W)
  PROVE  StreamsIInv(S, W)'
<1>0. JobsOK(S, W) /\ StreamDomains(S, W) /\ JobsOK(S, W)' /\ S \cap W = {} /\ DOMAIN textPc = S \cup W /\ DOMAIN model = S \cup W
  BY JobsStep DEF StreamsIInv, JobsOK
<1>1. CASE NextJob(W)
  <2>1. /\ UNCHANGED <<textPc, made, relay, producer, queue, held, yielded>> /\ backlog # <<>>
        /\ model' = [model EXCEPT ![Head(backlog)] = IF Head(backlog) \in W THEN "running" ELSE @]
    BY <1>1 DEF NextJob
  <2>2. StreamDomains(S, W)' /\ \A k \in S : Same(k)
    BY <1>0, <2>1 DEF StreamDomains, Same
  <2> QED
    BY <1>0, <2>2, OneStream, SameStream DEF StreamsIInv, Same
<1>2. ASSUME NEW c \in S \cup W, Begin(S, c) PROVE StreamsIInv(S, W)'
  <2>1. /\ textPc[c] = "idle" /\ textPc' = [textPc EXCEPT ![c] = "waiting"]
        /\ producer' = [producer EXCEPT ![c] = IF c \in S THEN "running" ELSE @]
        /\ model' = [model EXCEPT ![c] = IF c \in S THEN "running" ELSE @]
        /\ UNCHANGED <<made, relay, queue, held, yielded>>
    BY <1>2 DEF Begin
  <2>2. StreamDomains(S, W)' /\ \A k \in S \ {c} : Same(k)
    BY <1>0, <2>1 DEF StreamDomains, Same
  <2>3. ASSUME c \in S PROVE StreamOK(c)'
    <3>1. textPc'[c] = "waiting" /\ producer'[c] = "running" /\ model'[c] = "running"
      BY <1>0, <2>1, <2>3 DEF StreamDomains
    <3>2. StreamOK(c) /\ queue[c] = <<>> /\ relay[c] = <<>>
      BY <2>1, <2>3 DEF StreamsIInv, StreamOK
    <3> QED
      BY <2>1, <3>1, <3>2, NothingFollows DEF StreamOK, Reached
  <2> QED
    BY <1>0, <2>2, <2>3, OneStream
<1>3. ASSUME NEW c \in S \cup W, Make(S, c) PROVE StreamsIInv(S, W)'
  <2>1. /\ model[c] = "running" /\ made' = [made EXCEPT ![c] = @ + 1]
        /\ relay' = relay \/ relay' = [relay EXCEPT ![c] = Append(@, made[c] + 1)]
        /\ queue' = queue \/ queue' = [queue EXCEPT ![c] = Append(@, made[c] + 1)]
        /\ UNCHANGED <<textPc, model, producer, held, yielded>>
    BY <1>3 DEF Make
  <2>2. StreamDomains(S, W)' /\ \A k \in S \ {c} : Same(k)
    BY <1>0, <2>1 DEF StreamDomains, Same
  <2>3. ASSUME c \in S PROVE textPc'[c] = "gone" \/ StreamOK(c)'
    <3>1. CASE textPc[c] = "gone"
      BY <2>1, <3>1
    <3>2. CASE textPc[c] # "gone"
      <4>1. StreamOK(c)
        BY <2>3, <3>2 DEF StreamsIInv
      <4>2. made'[c] = made[c] + 1 /\ producer[c] = "running" /\ Reached(c)' = Reached(c)
        BY <1>0, <2>1, <2>3, <4>1 DEF StreamDomains, StreamOK, Reached
      <4>3. PICK m \in Nat : Follow(queue[c], Reached(c), m) /\ Follow(relay[c], m, made[c])
        BY <4>1 DEF StreamOK
      <4>4. ~Closed(relay[c]) /\ ~Closed(queue[c]) /\ textPc[c] \notin {"idle", "ended"}
        BY <2>1, <4>1 DEF StreamOK
      <4>5. CASE relay' = [relay EXCEPT ![c] = Append(@, made[c] + 1)] /\ queue' = queue
        <5>1. relay'[c] = Append(relay[c], made[c] + 1)
          BY <1>0, <2>3, <4>5 DEF StreamDomains
        <5>2. Follow(relay'[c], m, made'[c]) /\ ~Closed(relay'[c])
          BY <4>2, <4>3, <4>4, <5>1, FollowOn
        <5> QED
          BY <2>1, <4>1, <4>2, <4>3, <4>4, <4>5, <5>2 DEF StreamOK
      <4>6. CASE relay[c] = <<>> /\ relay' = relay /\ queue' = [queue EXCEPT ![c] = Append(@, made[c] + 1)]
        <5>1. queue'[c] = Append(queue[c], made[c] + 1) /\ m = made[c] /\ relay'[c] = <<>>
          BY <1>0, <2>3, <4>3, <4>6 DEF StreamDomains, Follow
        <5>2. Follow(queue[c], Reached(c), made[c]) /\ made'[c] \in Nat
          BY <4>2, <4>3, <5>1
        <5>3. Follow(queue'[c], Reached(c)', made'[c]) /\ ~Closed(queue'[c])
          BY <4>2, <4>4, <5>1, <5>2, FollowOn
        <5>4. Follow(relay'[c], made'[c], made'[c]) /\ ~Closed(relay'[c])
          BY <5>1, <5>2, NothingFollows
        <5> QED
          BY <2>1, <4>1, <4>2, <4>4, <5>1, <5>2, <5>3, <5>4 DEF StreamOK
      <4> QED
        BY <1>3, <2>3, <4>5, <4>6 DEF Make
    <3> QED
      BY <3>1, <3>2
  <2> QED
    BY <1>0, <2>2, <2>3, OneStream
<1>4. ASSUME NEW c \in S \cup W, NEW ok \in BOOLEAN, Stop(S, c, ok) PROVE StreamsIInv(S, W)'
  <2>1. /\ model[c] = "running" /\ model' = [model EXCEPT ![c] = IF ok THEN "ended" ELSE "failed"]
        /\ relay' = relay \/ relay' = [relay EXCEPT ![c] = IF ok THEN Append(@, 0) ELSE @]
        /\ queue' = queue \/ queue' = [queue EXCEPT ![c] = Append(@, 0)]
        /\ producer' = producer \/ producer' = [producer EXCEPT ![c] = "ended"]
        /\ textPc' = textPc \/ (c \notin S /\ \E p : textPc' = [textPc EXCEPT ![c] = p])
        /\ UNCHANGED <<made, held, yielded>>
    BY <1>4 DEF Stop
  <2>2. StreamDomains(S, W)' /\ \A k \in S \ {c} : Same(k)
    BY <1>0, <2>1 DEF StreamDomains, Same
  <2>3. ASSUME c \in S PROVE textPc'[c] = "gone" \/ StreamOK(c)'
    <3>1. CASE textPc[c] = "gone"
      BY <2>1, <2>3, <3>1
    <3>2. CASE textPc[c] # "gone"
      <4>1. StreamOK(c)
        BY <2>3, <3>2 DEF StreamsIInv
      <4>2. /\ model'[c] # "running" /\ textPc' = textPc /\ producer[c] = "running"
            /\ Reached(c)' = Reached(c)
        BY <1>0, <2>1, <2>3, <4>1 DEF StreamOK, Reached
      <4>3. PICK m \in Nat : Follow(queue[c], Reached(c), m) /\ Follow(relay[c], m, made[c])
        BY <4>1 DEF StreamOK
      <4>4. ~Closed(relay[c]) /\ ~Closed(queue[c]) /\ textPc[c] \notin {"idle", "ended"}
        BY <2>1, <4>1, <4>2 DEF StreamOK
      <4>5. CASE /\ relay' = [relay EXCEPT ![c] = IF ok THEN Append(@, 0) ELSE @]
                 /\ UNCHANGED <<producer, queue>>
        <5>1. relay'[c] = (IF ok THEN Append(relay[c], 0) ELSE relay[c])
          BY <1>0, <2>3, <4>5 DEF StreamDomains
        <5>2. Follow(relay'[c], m, made[c])
          BY <4>3, <4>4, <5>1, FollowOn
        <5> QED
          BY <2>1, <4>1, <4>2, <4>3, <4>4, <4>5, <5>2 DEF StreamOK
      <4>6. CASE /\ relay[c] = <<>> /\ relay' = relay /\ queue' = [queue EXCEPT ![c] = Append(@, 0)]
                 /\ producer' = [producer EXCEPT ![c] = "ended"]
        <5>1. queue'[c] = Append(queue[c], 0) /\ relay'[c] = <<>> /\ producer'[c] = "ended"
          BY <1>0, <2>3, <4>6 DEF StreamDomains
        <5>2. Follow(queue'[c], Reached(c)', m)
          BY <4>2, <4>3, <4>4, <5>1, FollowOn
        <5>3. Follow(relay'[c], m, made'[c])
          BY <2>1, <4>3, <4>6
        <5> QED
          BY <2>1, <4>1, <4>2, <4>3, <4>4, <5>1, <5>2, <5>3 DEF StreamOK
      <4> QED
        BY <1>4, <2>3, <4>5, <4>6 DEF Stop
    <3> QED
      BY <3>1, <3>2
  <2> QED
    BY <1>0, <2>2, <2>3, OneStream
<1>5. ASSUME NEW c \in S \cup W, Pass(c) PROVE StreamsIInv(S, W)'
  <2>1. /\ producer[c] = "running" /\ relay[c] # <<>> /\ relay' = [relay EXCEPT ![c] = Tail(@)]
        /\ queue' = [queue EXCEPT ![c] = Append(@, Head(relay[c]))]
        /\ producer' = [producer EXCEPT ![c] = IF Head(relay[c]) = 0 THEN "ended" ELSE @]
        /\ UNCHANGED <<textPc, model, made, held, yielded>>
    BY <1>5 DEF Pass
  <2>2. StreamDomains(S, W)' /\ \A k \in S \ {c} : Same(k)
    BY <1>0, <2>1 DEF StreamDomains, Same
  <2>3. ASSUME c \in S PROVE textPc'[c] = "gone" \/ StreamOK(c)'
    <3>1. CASE textPc[c] = "gone"
      BY <2>1, <3>1
    <3>2. CASE textPc[c] # "gone"
      <4>1. StreamOK(c)
        BY <2>3, <3>2 DEF StreamsIInv
      <4>2. /\ relay'[c] = Tail(relay[c]) /\ queue'[c] = Append(queue[c], Head(relay[c]))
            /\ producer'[c] = (IF Head(relay[c]) = 0 THEN "ended" ELSE "running")
            /\ ~Closed(queue[c]) /\ textPc[c] \notin {"idle", "ended"}
        BY <1>0, <2>1, <2>3, <4>1 DEF StreamDomains, StreamOK
      <4>3. PICK m \in Nat : Follow(queue[c], Reached(c), m) /\ Follow(relay[c], m, made[c])
        BY <4>1 DEF StreamOK
      <4>4. /\ Follow(Append(queue[c], m + 1), Reached(c), m + 1) /\ ~Closed(Append(queue[c], m + 1))
            /\ Follow(Append(queue[c], 0), Reached(c), m)
        BY <4>2, <4>3, FollowOn
      <4>5. Reached(c)' = Reached(c)
        BY <2>1 DEF Reached
      <4>6. CASE Head(relay[c]) = 0
        <5>0. Follow(relay[c], m, made[c]) /\ m + 1 # 0
          BY <4>3
        <5>1. Tail(relay[c]) = <<>> /\ m = made[c] /\ Closed(relay[c])
          BY <2>1, <4>6, <5>0, FollowOff
        <5>2. /\ Follow(queue'[c], Reached(c)', m) /\ Follow(relay'[c], m, made'[c]) /\ relay'[c] = <<>>
              /\ model'[c] # "running" /\ producer'[c] = "ended"
          BY <2>1, <4>1, <4>2, <4>3, <4>4, <4>5, <4>6, <5>1, NothingFollows DEF StreamOK
        <5> QED
          BY <2>1, <4>1, <4>2, <4>3, <5>2 DEF StreamOK
      <4>7. CASE Head(relay[c]) # 0
        <5>1. /\ Head(relay[c]) = m + 1 /\ Follow(Tail(relay[c]), m + 1, made[c])
              /\ Closed(Tail(relay[c])) <=> Closed(relay[c])
          BY <2>1, <4>3, <4>7, FollowOff
        <5>2. /\ Follow(queue'[c], Reached(c)', m + 1) /\ Follow(relay'[c], m + 1, made'[c]) /\ m + 1 \in Nat
              /\ producer'[c] = "running" /\ ~Closed(queue'[c]) /\ (Closed(relay'[c]) <=> Closed(relay[c]))
          BY <2>1, <4>2, <4>3, <4>4, <4>5, <4>7, <5>1
        <5> QED
          BY <2>1, <4>1, <4>2, <5>2 DEF StreamOK
      <4> QED
        BY <4>6, <4>7
    <3> QED
      BY <3>1, <3>2
  <2> QED
    BY <1>0, <2>2, <2>3, OneStream
<1>6. ASSUME NEW c \in S \cup W, Get(S, c) PROVE StreamsIInv(S, W)'
  <2>1. /\ c \in pool \cap S /\ queue[c] # <<>> /\ queue' = [queue EXCEPT ![c] = Tail(@)]
        /\ UNCHANGED <<model, made, relay, producer, yielded>>
    BY <1>6 DEF Get
  <2>2. \/ textPc[c] = "gone" /\ UNCHANGED <<textPc, held>>
        \/ textPc[c] # "gone" /\ Head(queue[c]) = 0 /\ textPc' = [textPc EXCEPT ![c] = "ended"] /\ held' = held
        \/ /\ textPc[c] # "gone" /\ Head(queue[c]) # 0 /\ textPc' = [textPc EXCEPT ![c] = "yield"]
           /\ held' = [held EXCEPT ![c] = Head(queue[c])]
    BY <1>6 DEF Get
  <2>3. StreamDomains(S, W)' /\ \A k \in S \ {c} : Same(k)
    BY <1>0, <2>1, <2>2 DEF StreamDomains, Same
  <2>4. textPc[c] = "gone" => textPc'[c] = "gone"
    BY <2>2
  <2>5. ASSUME textPc[c] # "gone" PROVE StreamOK(c)'
    <3>1. StreamOK(c) /\ textPc[c] = "waiting" /\ held[c] = 0 /\ c \in S \cup W
      BY <2>1, <2>5 DEF StreamsIInv, JobsOK, StreamOK
    <3>2. PICK m \in Nat : Follow(queue[c], Reached(c), m) /\ Follow(relay[c], m, made[c])
      BY <3>1 DEF StreamOK
    <3>3. queue'[c] = Tail(queue[c]) /\ Reached(c) = Len(yielded[c]) /\ Len(yielded[c]) \in Nat
      BY <1>0, <2>1, <3>1, LenProperties DEF StreamDomains, Reached, StreamOK, Upto
    <3>4. CASE Head(queue[c]) = 0
      <4>0. Follow(queue[c], Reached(c), m) /\ Reached(c) + 1 # 0
        BY <3>2, <3>3
      <4>1. Tail(queue[c]) = <<>> /\ Reached(c) = m /\ Closed(queue[c])
        BY <2>1, <3>4, <4>0, FollowOff
      <4>2. textPc'[c] = "ended" /\ held'[c] = 0 /\ producer[c] # "running"
        BY <1>0, <2>2, <2>5, <3>1, <3>4, <4>1 DEF StreamOK
      <4>3. Reached(c)' = Reached(c)
        BY <2>1, <3>1, <4>2 DEF Reached
      <4>4. Follow(queue'[c], Reached(c)', m) /\ ~Closed(queue'[c])
        BY <3>3, <4>1, <4>3, NothingFollows
      <4> QED
        BY <2>1, <3>1, <3>2, <3>3, <4>1, <4>2, <4>4 DEF StreamOK
    <3>5. CASE Head(queue[c]) # 0
      <4>1. /\ Head(queue[c]) = Reached(c) + 1 /\ Follow(Tail(queue[c]), Reached(c) + 1, m)
            /\ Closed(Tail(queue[c])) <=> Closed(queue[c])
        BY <2>1, <3>2, <3>5, FollowOff
      <4>2. textPc'[c] = "yield" /\ held'[c] = Head(queue[c])
        BY <1>0, <2>2, <2>5, <3>1, <3>5 DEF StreamDomains
      <4>3. Reached(c)' = Reached(c) + 1 /\ held'[c] = Len(yielded'[c]) + 1
        <5>1. Reached(c)' = Len(yielded'[c]) + (IF held'[c] = 0 THEN 0 ELSE 1)
          BY DEF Reached
        <5> QED
          BY <2>1, <3>3, <3>5, <4>1, <4>2, <5>1
      <4>4. Follow(queue'[c], Reached(c)', m) /\ (Closed(queue'[c]) <=> Closed(queue[c]))
        BY <3>3, <4>1, <4>3
      <4>5. held'[c] # 0
        BY <2>1, <3>3, <4>3
      <4> QED
        BY <2>1, <3>1, <3>2, <4>2, <4>3, <4>4, <4>5 DEF StreamOK
    <3> QED
      BY <3>4, <3>5
  <2> QED
    BY <1>0, <2>3, <2>4, <2>5, OneStream
<1>7. ASSUME NEW c \in S \cup W, Give(c) PROVE StreamsIInv(S, W)'
  <2>1. /\ textPc[c] = "yield" /\ yielded' = [yielded EXCEPT ![c] = Append(@, held[c])]
        /\ held' = [held EXCEPT ![c] = 0] /\ textPc' = [textPc EXCEPT ![c] = "waiting"]
        /\ UNCHANGED <<model, made, relay, producer, queue>>
    BY <1>7 DEF Give
  <2>2. StreamDomains(S, W)' /\ \A k \in S \ {c} : Same(k)
    BY <1>0, <2>1 DEF StreamDomains, Same
  <2>3. ASSUME c \in S PROVE StreamOK(c)'
    <3>1. StreamOK(c) /\ textPc'[c] = "waiting" /\ held'[c] = 0 /\ yielded'[c] = Append(yielded[c], held[c])
      BY <1>0, <2>1, <2>3 DEF StreamsIInv, StreamDomains
    <3>2. held[c] = Len(yielded[c]) + 1 /\ yielded[c] \in Seq(Nat) /\ Len(yielded[c]) \in Nat /\ held[c] \in Nat
      BY <2>1, <3>1, LenProperties DEF StreamOK, Upto
    <3>3. /\ yielded'[c] \in Seq(Nat) /\ Len(yielded'[c]) = Len(yielded[c]) + 1
          /\ yielded'[c][Len(yielded[c]) + 1] = held[c]
          /\ \A i \in 1 .. Len(yielded[c]) : yielded'[c][i] = yielded[c][i]
      BY <3>1, <3>2, AppendProperties
    <3>4. Upto(yielded'[c])
      BY <3>1, <3>2, <3>3 DEF Upto, StreamOK
    <3>5. Reached(c)' = Reached(c)
      <4>1. Reached(c) = Len(yielded[c]) + 1
        <5>1. held[c] # 0
          BY <3>2
        <5> QED
          BY <5>1 DEF Reached
      <4>2. Reached(c)' = Len(yielded'[c]) + 0
        BY <3>1 DEF Reached
      <4> QED
        BY <3>2, <3>3, <4>1, <4>2
    <3> QED
      BY <2>1, <3>1, <3>4, <3>5 DEF StreamOK
  <2> QED
    BY <1>0, <2>2, <2>3, OneStream
<1>8. ASSUME NEW c \in S \cup W, Leave(c) PROVE StreamsIInv(S, W)'
  <2>1. textPc' = [textPc EXCEPT ![c] = "gone"] /\ UNCHANGED <<model, made, relay, producer, queue, held, yielded>>
    BY <1>8 DEF Leave
  <2>2. StreamDomains(S, W)' /\ (\A k \in S \ {c} : Same(k)) /\ textPc'[c] = "gone"
    BY <1>0, <2>1 DEF StreamDomains, Same
  <2> QED
    BY <1>0, <2>2, OneStream
<1>9. CASE UNCHANGED <<textPc, backlog, pool, model, made, relay, producer, queue, held, yielded>>
  <2>1. StreamDomains(S, W)' /\ \A k \in S : Same(k)
    BY <1>0, <1>9 DEF StreamDomains, Same
  <2> QED
    BY <1>0, <2>1, SameStream DEF StreamsIInv, Same
<1> QED
  BY <1>1, <1>2, <1>3, <1>4, <1>5, <1>6, <1>7, <1>8, <1>9 DEF TextStep

(* Put after one another, what was yielded, is held, is queued and is in the *)
(* streamer count up to what was made.                                       *)
Onwards(s, n, m) ==
  s \in Seq(Nat) /\ n \in Nat /\ m \in Nat /\ n <= m /\ Len(s) = m - n /\ \A i \in 1 .. m - n : s[i] = n + i

LEMMA OnwardsJoin ==
  ASSUME NEW s, NEW t, NEW n, NEW m, Onwards(s, 0, n), Onwards(t, n, m)
  PROVE  Onwards(s \o t, 0, m)
<1>1. /\ s \in Seq(Nat) /\ t \in Seq(Nat) /\ n \in Nat /\ m \in Nat /\ n <= m
      /\ Len(s) = n /\ Len(t) = m - n /\ \A i \in 1 .. n : s[i] = i
      /\ \A i \in 1 .. m - n : t[i] = n + i
  BY DEF Onwards
<1>2. /\ s \o t \in Seq(Nat) /\ Len(s \o t) = n + (m - n)
      /\ \A i \in 1 .. n + (m - n) : (s \o t)[i] = IF i <= n THEN s[i] ELSE t[i - n]
  BY <1>1, ConcatProperties
<1>3. n + (m - n) = m /\ m - 0 = m
  BY <1>1
<1>4. ASSUME NEW i \in 1 .. m PROVE (s \o t)[i] = 0 + i
  <2>1. CASE i <= n
    BY <1>1, <1>2, <1>3, <2>1
  <2>2. CASE ~(i <= n)
    <3>0. i \in 1 .. n + (m - n) /\ i - n \in 1 .. m - n
      BY <1>1, <1>3, <2>2
    <3>1. i - n \in 1 .. m - n /\ (s \o t)[i] = t[i - n]
      BY <1>2, <2>2, <3>0
    <3>2. t[i - n] = n + (i - n)
      BY <1>1, <3>1
    <3> QED
      BY <1>1, <3>1, <3>2
  <2> QED
    BY <2>1, <2>2
<1>5. Len(s \o t) = m /\ 0 <= m /\ 0 \in Nat
  BY <1>1, <1>2, <1>3
<1>6. \A i \in 1 .. m - 0 : (s \o t)[i] = 0 + i
  BY <1>3, <1>4
<1> QED
  BY <1>1, <1>2, <1>3, <1>5, <1>6 DEF Onwards

Before(s) == IF s # <<>> /\ s[Len(s)] = 0 THEN SubSeq(s, 1, Len(s) - 1) ELSE s
InHand(k) == IF held[k] = 0 THEN <<>> ELSE <<held[k]>>

LEMMA TokensGoOn ==
  ASSUME NEW s, NEW n, NEW m, Follow(s, n, m)
  PROVE  Onwards(Before(s), n, m)
<1>1. /\ s \in Seq(Nat) /\ n \in Nat /\ m \in Nat /\ n <= m /\ Len(s) \in Nat
      /\ \A i \in 1 .. m - n : s[i] = n + i
      /\ Len(s) = m - n \/ Len(s) = m - n + 1
      /\ Closed(s) <=> Len(s) = m - n + 1
  BY OpenLength DEF Follow
<1>2. CASE Closed(s)
  <2> DEFINE t == SubSeq(s, 1, Len(s) - 1)
  <2>1. Before(s) = t
    BY <1>2 DEF Before, Closed
  <2>2. Len(s) - 1 = m - n
    BY <1>1, <1>2
  <2>3. \A i \in 1 .. m - n : s[i] \in Nat
    BY <1>1
  <2>4. t \in Seq(Nat) /\ Len(t) = m - n /\ \A i \in 1 .. m - n : t[i] = s[i]
    BY <1>1, <2>2, <2>3, SubSeqProperties
  <2> HIDE DEF t
  <2> QED
    BY <1>1, <2>1, <2>4 DEF Onwards
<1>3. CASE ~Closed(s)
  <2>1. Before(s) = s
    BY <1>3 DEF Before, Closed
  <2> QED
    BY <1>1, <1>3, <2>1 DEF Onwards
<1> QED
  BY <1>2, <1>3

LEMMA ByItsElements == \A s \in Seq(Nat) : s = [i \in 1 .. Len(s) |-> s[i]]
OBVIOUS

LEMMA StreamsLoseNothing ==
  ASSUME NEW k, StreamOK(k)
  PROVE  /\ yielded[k] \o InHand(k) \o Before(queue[k]) \o Before(relay[k]) = [i \in 1 .. made[k] |-> i]
         /\ textPc[k] = "ended" => yielded[k] = [i \in 1 .. made[k] |-> i] /\ model[k] # "running"
<1>1. StreamOK(k)
  OBVIOUS
<1>2. PICK m \in Nat : Follow(queue[k], Reached(k), m) /\ Follow(relay[k], m, made[k])
  BY <1>1 DEF StreamOK
<1>3. Onwards(yielded[k], 0, Len(yielded[k])) /\ Len(yielded[k]) \in Nat
  <2>1. yielded[k] \in Seq(Nat) /\ (\A i \in 1 .. Len(yielded[k]) : yielded[k][i] = i) /\ Len(yielded[k]) \in Nat
    BY <1>1, LenProperties DEF StreamOK, Upto
  <2>2. \A i \in 1 .. Len(yielded[k]) - 0 : yielded[k][i] = 0 + i
    BY <2>1
  <2> QED
    BY <2>1, <2>2 DEF Onwards
<1>4. Onwards(InHand(k), Len(yielded[k]), Reached(k))
  <2>1. CASE held[k] = 0
    BY <1>3, <2>1 DEF InHand, Reached, Onwards
  <2>2. CASE held[k] # 0
    <3>1. held[k] = Len(yielded[k]) + 1 /\ Reached(k) = Len(yielded[k]) + 1
      BY <1>1, <2>2 DEF StreamOK, Reached
    <3>2. InHand(k) = <<held[k]>>
      BY <2>2 DEF InHand
    <3> QED
      BY <1>3, <3>1, <3>2 DEF Onwards
  <2> QED
    BY <2>1, <2>2
<1>5. /\ Onwards(Before(queue[k]), Reached(k), m)
      /\ Onwards(Before(relay[k]), m, made[k])
  BY <1>2, TokensGoOn
<1> DEFINE all == yielded[k] \o InHand(k) \o Before(queue[k]) \o Before(relay[k])
<1>6. Onwards(all, 0, made[k])
  BY <1>3, <1>4, <1>5, OnwardsJoin
<1> HIDE DEF all
<1>7. all = [i \in 1 .. made[k] |-> i]
  <2>1. /\ all \in Seq(Nat) /\ made[k] \in Nat /\ Len(all) = made[k]
        /\ \A i \in 1 .. made[k] : all[i] = i
    BY <1>6 DEF Onwards
  <2>2. all = [i \in 1 .. made[k] |-> all[i]]
    BY <2>1
  <2> QED
    BY <2>1, <2>2
<1>8. ASSUME textPc[k] = "ended" PROVE yielded[k] = [i \in 1 .. made[k] |-> i] /\ model[k] # "running"
  <2>1. queue[k] = <<>> /\ relay[k] = <<>> /\ model[k] # "running" /\ held[k] = 0
    BY <1>1, <1>8 DEF StreamOK
  <2>2. Reached(k) = Len(yielded[k])
    BY <1>3, <2>1 DEF Reached
  <2>3. Len(yielded[k]) = m /\ m = made[k]
    BY <1>2, <1>3, <2>1, <2>2 DEF Follow
  <2>4. yielded[k] \in Seq(Nat) /\ \A i \in 1 .. Len(yielded[k]) : yielded[k][i] = i
    BY <1>1 DEF StreamOK, Upto
  <2>5. yielded[k] = [i \in 1 .. Len(yielded[k]) |-> yielded[k][i]]
    BY <2>4, ByItsElements
  <2> QED
    BY <2>1, <2>3, <2>4, <2>5
<1> QED
  BY <1>7, <1>8 DEF all

(* The two backends take these steps.                                        *)
LEMMA TransformersInit == Transformers!Init => TextInit(Streams, Wholes)
BY DEF Transformers!Init, TextInit, Transformers!Calls, Transformers!NoToken

LEMMA TransformersStep == [Transformers!Next]_(Transformers!vars) => TextStep(Streams, Wholes)
<1> SUFFICES ASSUME [Transformers!Next]_(Transformers!vars) PROVE TextStep(Streams, Wholes)
  OBVIOUS
<1>0. Streams \cap Wholes = {}
  BY ProcessAssumption DEF Transformers!ConstantsOK
<1>1. CASE Transformers!RunJob
  BY <1>1 DEF Transformers!RunJob, NextJob, TextStep
<1>2. ASSUME NEW c \in Transformers!Calls,
             \/ Transformers!Start(c) \/ Transformers!MakeToken(c) \/ Transformers!Relay(c)
             \/ Transformers!GetToken(c) \/ Transformers!Yield(c) \/ Transformers!Cancel(c)
             \/ \E ok \in BOOLEAN : Transformers!StopModel(c, ok)
      PROVE  TextStep(Streams, Wholes)
  <2> USE DEF Transformers!Goto, Transformers!Submit, Transformers!Put, Transformers!Done, Transformers!NoToken
  <2>0. c \in Streams \cup Wholes /\ (c \in Wholes <=> c \notin Streams)
    BY <1>0 DEF Transformers!Calls
  <2>1. Transformers!Start(c) => Begin(Streams, c)
    BY DEF Transformers!Start, Begin
  <2>2. Transformers!MakeToken(c) => Make(Streams, c)
    BY <2>0 DEF Transformers!MakeToken, Make
  <2>3. Transformers!Relay(c) => Pass(c)
    BY DEF Transformers!Relay, Pass
  <2>4. Transformers!GetToken(c) => Get(Streams, c)
    BY DEF Transformers!GetToken, Get
  <2>5. Transformers!Yield(c) => Give(c)
    BY DEF Transformers!Yield, Give
  <2>6. Transformers!Cancel(c) => Leave(c)
    BY DEF Transformers!Cancel, Leave, Transformers!RemoveAt, Without
  <2>7. ASSUME NEW ok \in BOOLEAN, Transformers!StopModel(c, ok) PROVE Stop(Streams, c, ok)
    BY <2>0, <2>7 DEF Transformers!StopModel, Stop
  <2> QED
    BY <1>2, <2>0, <2>1, <2>2, <2>3, <2>4, <2>5, <2>6, <2>7 DEF TextStep
<1>3. CASE UNCHANGED Transformers!vars
  BY <1>3 DEF Transformers!vars, TextStep
<1> QED
  BY <1>1, <1>2, <1>3 DEF Transformers!Next

(* llama.cpp has no streamer.                                                *)
NoStreamer == DOMAIN relay = Llama!Calls /\ \A k \in Llama!Calls : relay[k] = <<>>

LEMMA LlamaInit == Llama!Init => TextInit(LlamaStreams, LlamaWholes) /\ NoStreamer
BY DEF Llama!Init, TextInit, Llama!Calls, Llama!NoToken, NoStreamer

LEMMA LlamaStep ==
  NoStreamer /\ [Llama!Next]_(Llama!vars) => TextStep(LlamaStreams, LlamaWholes) /\ NoStreamer'
<1> SUFFICES ASSUME NoStreamer, [Llama!Next]_(Llama!vars)
             PROVE  TextStep(LlamaStreams, LlamaWholes) /\ relay' = relay
  BY DEF NoStreamer
<1>0. LlamaStreams \cap LlamaWholes = {}
  BY ProcessAssumption DEF Llama!ConstantsOK
<1>1. CASE Llama!RunJob
  BY <1>1 DEF Llama!RunJob, NextJob, TextStep
<1>2. ASSUME NEW c \in Llama!Calls,
             \/ Llama!Start(c) \/ Llama!MakeToken(c) \/ Llama!Relay(c)
             \/ Llama!GetToken(c) \/ Llama!Yield(c) \/ Llama!Cancel(c)
             \/ \E ok \in BOOLEAN : Llama!StopModel(c, ok)
      PROVE  TextStep(LlamaStreams, LlamaWholes) /\ relay' = relay
  <2> USE DEF Llama!Goto, Llama!Submit, Llama!Put, Llama!Done, Llama!NoToken
  <2>0. /\ c \in LlamaStreams \cup LlamaWholes /\ (c \in LlamaWholes <=> c \notin LlamaStreams)
        /\ relay[c] = <<>>
    BY <1>0 DEF Llama!Calls, NoStreamer
  <2>1. Llama!Start(c) => Begin(LlamaStreams, c) /\ relay' = relay
    BY DEF Llama!Start, Begin
  <2>2. Llama!MakeToken(c) => Make(LlamaStreams, c) /\ relay' = relay
    BY <2>0 DEF Llama!MakeToken, Make
  <2>3. ~Llama!Relay(c)
    BY <2>0 DEF Llama!Relay
  <2>4. Llama!GetToken(c) => Get(LlamaStreams, c) /\ relay' = relay
    BY DEF Llama!GetToken, Get
  <2>5. Llama!Yield(c) => Give(c) /\ relay' = relay
    BY DEF Llama!Yield, Give
  <2>6. Llama!Cancel(c) => Leave(c) /\ relay' = relay
    BY DEF Llama!Cancel, Leave, Llama!RemoveAt, Without
  <2>7. ASSUME NEW ok \in BOOLEAN, Llama!StopModel(c, ok) PROVE Stop(LlamaStreams, c, ok) /\ relay' = relay
    BY <2>0, <2>7 DEF Llama!StopModel, Stop
  <2> QED
    BY <1>2, <2>0, <2>1, <2>2, <2>3, <2>4, <2>5, <2>6, <2>7 DEF TextStep
<1>3. CASE UNCHANGED Llama!vars
  BY <1>3 DEF Llama!vars, TextStep
<1> QED
  BY <1>1, <1>2, <1>3 DEF Llama!Next

TransformersIInv == StreamsIInv(Streams, Wholes)
LlamaIInv == StreamsIInv(LlamaStreams, LlamaWholes) /\ NoStreamer

LEMMA TransformersAreWhole == TransformersIInv => Transformers!NothingLost /\ Transformers!EndIsTheEnd
<1> SUFFICES ASSUME TransformersIInv, NEW k \in Streams
             PROVE  /\ textPc[k] # "gone" => yielded[k] \o InHand(k) \o Before(queue[k]) \o Before(relay[k])
                                               = [i \in 1 .. made[k] |-> i]
                    /\ textPc[k] = "ended" => yielded[k] = [i \in 1 .. made[k] |-> i] /\ model[k] # "running"
  BY DEF Transformers!NothingLost, Transformers!EndIsTheEnd, Transformers!HeldBy, Transformers!Tokens,
         Transformers!Numbers, Transformers!Done, Transformers!NoToken, InHand, Before
<1> QED
  BY StreamsLoseNothing DEF TransformersIInv, StreamsIInv

LEMMA LlamaIsWhole == LlamaIInv => Llama!NothingLost /\ Llama!EndIsTheEnd
<1> SUFFICES ASSUME LlamaIInv, NEW k \in LlamaStreams
             PROVE  /\ textPc[k] # "gone" => yielded[k] \o InHand(k) \o Before(queue[k]) \o Before(relay[k])
                                               = [i \in 1 .. made[k] |-> i]
                    /\ textPc[k] = "ended" => yielded[k] = [i \in 1 .. made[k] |-> i] /\ model[k] # "running"
  BY DEF Llama!NothingLost, Llama!EndIsTheEnd, Llama!HeldBy, Llama!Tokens, Llama!Numbers, Llama!Done,
         Llama!NoToken, InHand, Before
<1> QED
  BY StreamsLoseNothing DEF LlamaIInv, StreamsIInv

LEMMA TextSteps ==
  /\ Transformers!Init => TransformersIInv
  /\ TransformersIInv /\ [Transformers!Next]_(Transformers!vars) => TransformersIInv'
  /\ Llama!Init => LlamaIInv
  /\ LlamaIInv /\ [Llama!Next]_(Llama!vars) => LlamaIInv'
<1>1. Streams \cap Wholes = {} /\ LlamaStreams \cap LlamaWholes = {}
  BY ProcessAssumption DEF Llama!ConstantsOK, Transformers!ConstantsOK
<1>2. Transformers!Init => TransformersIInv
  BY TransformersInit, StreamsInitOK DEF TransformersIInv
<1>3. ASSUME TransformersIInv, [Transformers!Next]_(Transformers!vars) PROVE TransformersIInv'
  BY <1>1, <1>3, TransformersStep, StreamsStep DEF TransformersIInv
<1>4. Llama!Init => LlamaIInv
  BY LlamaInit, StreamsInitOK DEF LlamaIInv
<1>5. ASSUME LlamaIInv, [Llama!Next]_(Llama!vars) PROVE LlamaIInv'
  BY <1>1, <1>5, LlamaStep, StreamsStep DEF LlamaIInv
<1> QED
  BY <1>2, <1>3, <1>4, <1>5

LEMMA PagesAreInOrder == PagesIInv => Pages!PagesInOrder
BY DEF PagesIInv, InOrder, Follows, Pages!PagesInOrder

(* text/backends/llamacpp.py, transformers.py: of a stream that is not       *)
(* abandoned, what was yielded, is held, is queued and is in the streamer is *)
(* what the model made, in order; one that ends has yielded all of it.       *)
THEOREM TokensComeThrough ==
  /\ Transformers!Spec => [](Transformers!NothingLost /\ Transformers!EndIsTheEnd)
  /\ Llama!Spec => [](Llama!NothingLost /\ Llama!EndIsTheEnd)
<1>1. Transformers!Spec => [](Transformers!NothingLost /\ Transformers!EndIsTheEnd)
  BY TextSteps, TransformersAreWhole, PTL DEF Transformers!Spec
<1>2. Llama!Spec => [](Llama!NothingLost /\ Llama!EndIsTheEnd)
  BY TextSteps, LlamaIsWhole, PTL DEF Llama!Spec
<1> QED
  BY <1>1, <1>2

-----------------------------------------------------------------------------
(* The dispatch table. Its two parts are instances with tasks of their own;  *)
(* what is said here of a set of tasks T allows the steps of both: anybody   *)
(* may dispatch a task, and the pool has any number of threads.              *)
DispatchTypeOK(T) ==
  /\ DOMAIN status = T /\ DOMAIN dispatchPc = T /\ DOMAIN run = T /\ DOMAIN outcome = T
  /\ tasksQueued \in Seq(T)
  /\ executor \in {"none", "up", "down"}
  /\ execLock \in {None, "reset"}

(* A task by the place of its dispatch_task() call and of its run. A reset   *)
(* may have taken it out of the table.                                       *)
TaskOK(k) ==
  /\ dispatchPc[k] \in {"idle", "LookupError", "record"} => status[k] = None
  /\ run[k] = "no" <=> dispatchPc[k] \notin {"submitted", "returned"}
  /\ run[k] \in {"no", "queued", "begin"} => status[k] \in {None, "queued"}
  /\ run[k] \in {"fn", "ended"} => status[k] \in {None, "running"}
  /\ run[k] \in {"ended", "over"} => outcome[k] \in {"complete", "error", "escaped"}
  /\ run[k] = "over" => status[k] \in {None, IF outcome[k] = "escaped" THEN "running" ELSE outcome[k]}
  /\ run[k] \in {"no", "queued", "begin", "fn", "ended", "over"}

(* The tasks on the executor: those of its queue, and those a thread has. A  *)
(* call that is about to submit has the executor of now, or one that a reset *)
(* has shut down.                                                            *)
ExecutorOK(T) ==
  /\ \A i \in 1 .. Len(tasksQueued) : run[tasksQueued[i]] = "queued"
  /\ \A i, j \in 1 .. Len(tasksQueued) : tasksQueued[i] = tasksQueued[j] => i = j
  /\ \A k \in T : run[k] = "queued" => \E i \in 1 .. Len(tasksQueued) : tasksQueued[i] = k
  /\ \A k \in T : run[k] \in {"queued", "begin", "fn", "ended"} => executor # "none"
  /\ \A k \in T : dispatchPc[k] = "submit" /\ k \notin stale => executor = "up"
  /\ execLock = "reset" <=> resetPc = "join"
  /\ executor = "down" => resetPc = "join"
  /\ resetPc = "join" => executor # "up"

DispatchIInv(T) == DispatchTypeOK(T) /\ (\A k \in T : TaskOK(k)) /\ ExecutorOK(T)

DispatchStep(T) ==
  \/ Dispatch!Register
  \/ /\ tasksQueued # <<>> /\ tasksQueued' = Tail(tasksQueued)
     /\ run' = [run EXCEPT ![Head(tasksQueued)] = "begin"]
     /\ UNCHANGED <<status, dispatchPc, outcome, executor, stale, execLock, resetPc>>
  \/ \E k \in T :
       \/ /\ dispatchPc[k] = "idle"
          /\ \E p \in {"LookupError", "record"} : dispatchPc' = [dispatchPc EXCEPT ![k] = p]
          /\ UNCHANGED <<status, run, outcome, tasksQueued, executor, stale, execLock, resetPc>>
       \/ Dispatch!Record(k) \/ Dispatch!GetExecutor(k) \/ Dispatch!Submit(k) \/ Dispatch!Return(k)
       \/ Dispatch!RunBegins(k) \/ Dispatch!RunSettles(k)
       \/ /\ run[k] = "fn" /\ run' = [run EXCEPT ![k] = "ended"]
          /\ \E o \in {"complete", "error", "escaped"} : outcome' = [outcome EXCEPT ![k] = o]
          /\ UNCHANGED <<status, dispatchPc, tasksQueued, executor, stale, execLock, resetPc>>
  \/ /\ resetPc = "idle" /\ resetPc' = "status"
     /\ UNCHANGED <<status, dispatchPc, run, outcome, tasksQueued, executor, stale, execLock>>
  \/ /\ resetPc = "status" /\ resetPc' = "lock" /\ status' = [k \in T |-> None]
     /\ UNCHANGED <<dispatchPc, run, outcome, tasksQueued, executor, stale, execLock>>
  \/ /\ resetPc = "lock" /\ resetPc' = "join" /\ execLock = None /\ execLock' = "reset"
     /\ executor' = IF executor = "none" THEN "none" ELSE "down"
     /\ stale' = {k \in T : dispatchPc[k] = "submit"}
     /\ UNCHANGED <<status, dispatchPc, run, outcome, tasksQueued>>
  \/ /\ resetPc = "join" /\ resetPc' = "done" /\ execLock' = None /\ executor' = "none"
     /\ tasksQueued = <<>> /\ \A k \in T : run[k] \notin {"begin", "fn", "ended"}
     /\ UNCHANGED <<status, dispatchPc, run, outcome, tasksQueued, stale>>
  \/ UNCHANGED <<status, dispatchPc, run, outcome, tasksQueued, executor, stale, execLock, resetPc>>

LEMMA DispatchConstants == None \notin {"queued", "running", "complete", "error", "escaped", "reset"}
BY ProcessAssumption DEF Dispatch!ConstantsOK

(* The queue: a task is put at its end, or leaves its head for a thread.     *)
LEMMA TaskQueued ==
  ASSUME NEW T, DispatchIInv(T), NEW k \in T, run[k] = "no", executor # "none",
         run' = [run EXCEPT ![k] = "queued"], tasksQueued' = Append(tasksQueued, k),
         dispatchPc' = [dispatchPc EXCEPT ![k] = "submitted"], stale' = stale \ {k},
         UNCHANGED <<status, outcome, executor, execLock, resetPc>>
  PROVE  DispatchIInv(T)'
<1>1. /\ tasksQueued' \in Seq(T) /\ Len(tasksQueued') = Len(tasksQueued) + 1 /\ Len(tasksQueued) \in Nat
      /\ tasksQueued'[Len(tasksQueued) + 1] = k
      /\ \A i \in 1 .. Len(tasksQueued) : tasksQueued'[i] = tasksQueued[i] /\ tasksQueued[i] \in T
  BY AppendProperties, LenProperties, ElementOfSeq DEF DispatchIInv, DispatchTypeOK
<1>2. \A i \in 1 .. Len(tasksQueued) : tasksQueued[i] # k
  BY DEF DispatchIInv, ExecutorOK
<1>3. /\ run'[k] = "queued" /\ dispatchPc'[k] = "submitted" /\ DOMAIN run' = T /\ DOMAIN dispatchPc' = T
      /\ \A j \in T \ {k} : run'[j] = run[j] /\ dispatchPc'[j] = dispatchPc[j]
  BY DEF DispatchIInv, DispatchTypeOK
<1>4. DispatchTypeOK(T)'
  BY <1>1, <1>3 DEF DispatchIInv, DispatchTypeOK
<1>5. \A j \in T : TaskOK(j)'
  BY <1>3 DEF DispatchIInv, TaskOK
<1>6. \A i \in 1 .. Len(tasksQueued') : run'[tasksQueued'[i]] = "queued"
  BY <1>1, <1>2, <1>3 DEF DispatchIInv, ExecutorOK
<1>7. \A i, j \in 1 .. Len(tasksQueued') : tasksQueued'[i] = tasksQueued'[j] => i = j
  <2> SUFFICES ASSUME NEW i \in 1 .. Len(tasksQueued'), NEW j \in 1 .. Len(tasksQueued'),
                      tasksQueued'[i] = tasksQueued'[j]
               PROVE  i = j
    OBVIOUS
  <2>1. CASE i = Len(tasksQueued) + 1 \/ j = Len(tasksQueued) + 1
    BY <1>1, <1>2, <2>1
  <2>2. CASE i \in 1 .. Len(tasksQueued) /\ j \in 1 .. Len(tasksQueued)
    BY <1>1, <2>2 DEF DispatchIInv, ExecutorOK
  <2> QED
    BY <1>1, <2>1, <2>2
<1>8. ASSUME NEW j \in T, run'[j] = "queued" PROVE \E i \in 1 .. Len(tasksQueued') : tasksQueued'[i] = j
  <2>1. CASE j = k
    BY <1>1, <2>1
  <2>2. CASE j # k
    <3>1. PICK i \in 1 .. Len(tasksQueued) : tasksQueued[i] = j
      BY <1>3, <1>8, <2>2 DEF DispatchIInv, ExecutorOK
    <3> QED
      BY <1>1, <3>1
  <2> QED
    BY <2>1, <2>2
<1>9. ExecutorOK(T)'
  BY <1>3, <1>6, <1>7, <1>8 DEF DispatchIInv, ExecutorOK
<1> QED
  BY <1>4, <1>5, <1>9 DEF DispatchIInv

LEMMA TaskTaken ==
  ASSUME NEW T, DispatchIInv(T), tasksQueued # <<>>, tasksQueued' = Tail(tasksQueued),
         run' = [run EXCEPT ![Head(tasksQueued)] = "begin"],
         UNCHANGED <<status, dispatchPc, outcome, executor, stale, execLock, resetPc>>
  PROVE  DispatchIInv(T)'
<1>1. /\ tasksQueued' \in Seq(T) /\ Len(tasksQueued') = Len(tasksQueued) - 1
      /\ Len(tasksQueued) \in Nat \ {0}
      /\ Head(tasksQueued) = tasksQueued[1] /\ Head(tasksQueued) \in T
      /\ \A i \in 1 .. Len(tasksQueued') : tasksQueued'[i] = tasksQueued[i + 1] /\ i + 1 \in 1 .. Len(tasksQueued)
      /\ \A i \in 1 .. Len(tasksQueued) : tasksQueued[i] \in T
  BY HeadTailProperties, EmptySeq, LenProperties, ElementOfSeq DEF DispatchIInv, DispatchTypeOK
<1> DEFINE k == Head(tasksQueued)
<1>2. run[k] = "queued" /\ k = tasksQueued[1] /\ k \in T
  BY <1>1 DEF DispatchIInv, ExecutorOK
<1>3. \A i \in 1 .. Len(tasksQueued') : tasksQueued'[i] # k
  <2> TAKE i \in 1 .. Len(tasksQueued')
  <2>1. tasksQueued'[i] = tasksQueued[i + 1] /\ i + 1 \in 1 .. Len(tasksQueued) /\ 1 \in 1 .. Len(tasksQueued) /\ i + 1 # 1
    BY <1>1
  <2> QED
    BY <1>2, <2>1 DEF DispatchIInv, ExecutorOK
<1>4. run'[k] = "begin" /\ DOMAIN run' = T /\ \A j \in T \ {k} : run'[j] = run[j]
  BY <1>2 DEF DispatchIInv, DispatchTypeOK
<1> HIDE DEF k
<1>5. DispatchTypeOK(T)'
  BY <1>1, <1>4 DEF DispatchIInv, DispatchTypeOK
<1>6. \A j \in T : TaskOK(j)'
  BY <1>2, <1>4 DEF DispatchIInv, TaskOK
<1>7. \A i \in 1 .. Len(tasksQueued') : run'[tasksQueued'[i]] = "queued"
  BY <1>1, <1>3, <1>4 DEF DispatchIInv, ExecutorOK
<1>8. \A i, j \in 1 .. Len(tasksQueued') : tasksQueued'[i] = tasksQueued'[j] => i = j
  <2> TAKE i, j \in 1 .. Len(tasksQueued')
  <2>1. tasksQueued'[i] = tasksQueued'[j] => i + 1 = j + 1
    BY <1>1 DEF DispatchIInv, ExecutorOK
  <2> QED
    BY <1>1, <2>1
<1>9. ASSUME NEW j \in T, run'[j] = "queued" PROVE \E i \in 1 .. Len(tasksQueued') : tasksQueued'[i] = j
  <2>1. j # k /\ run[j] = "queued"
    BY <1>4, <1>9
  <2>2. PICK i \in 1 .. Len(tasksQueued) : tasksQueued[i] = j
    BY <2>1 DEF DispatchIInv, ExecutorOK
  <2>3. i # 1
    BY <1>2, <2>1, <2>2
  <2>4. i - 1 \in 1 .. Len(tasksQueued') /\ (i - 1) + 1 = i
    BY <1>1, <2>2, <2>3
  <2> QED
    BY <1>1, <2>2, <2>4
<1>10. ExecutorOK(T)'
  BY <1>2, <1>4, <1>7, <1>8, <1>9 DEF DispatchIInv, ExecutorOK
<1> QED
  BY <1>5, <1>6, <1>10 DEF DispatchIInv

(* The other steps leave the queue alone.                                    *)
LEMMA QueueStays ==
  ASSUME NEW T, DispatchIInv(T), DispatchTypeOK(T)', tasksQueued' = tasksQueued,
         \A k \in T : run'[k] = "queued" <=> run[k] = "queued",
         \A k \in T : TaskOK(k)',
         \A k \in T : run'[k] \in {"queued", "begin", "fn", "ended"} => executor' # "none",
         \A k \in T : dispatchPc'[k] = "submit" /\ k \notin stale' => executor' = "up",
         execLock' = "reset" <=> resetPc' = "join",
         executor' = "down" => resetPc' = "join",
         resetPc' = "join" => executor' # "up"
  PROVE  DispatchIInv(T)'
<1>1. \A i \in 1 .. Len(tasksQueued) : tasksQueued[i] \in T
  BY ElementOfSeq DEF DispatchIInv, DispatchTypeOK
<1>2. \A i \in 1 .. Len(tasksQueued') : run'[tasksQueued'[i]] = "queued"
  BY <1>1 DEF DispatchIInv, ExecutorOK
<1>3. \A i, j \in 1 .. Len(tasksQueued') : tasksQueued'[i] = tasksQueued'[j] => i = j
  BY DEF DispatchIInv, ExecutorOK
<1>4. \A k \in T : run'[k] = "queued" => \E i \in 1 .. Len(tasksQueued') : tasksQueued'[i] = k
  BY DEF DispatchIInv, ExecutorOK
<1> QED
  BY <1>2, <1>3, <1>4 DEF DispatchIInv, ExecutorOK

LEMMA DispatchKeepsIInv == ASSUME NEW T, DispatchIInv(T), DispatchStep(T) PROVE DispatchIInv(T)'
<1> USE DispatchConstants
<1>0. DispatchTypeOK(T) /\ (\A k \in T : TaskOK(k)) /\ ExecutorOK(T)
  BY DEF DispatchIInv
<1>1. ASSUME UNCHANGED <<status, dispatchPc, run, outcome, tasksQueued, executor, stale, execLock, resetPc>>
      PROVE  DispatchIInv(T)'
  BY <1>0, <1>1 DEF DispatchIInv, DispatchTypeOK, TaskOK, ExecutorOK
<1>2. CASE Dispatch!Register
  BY <1>1, <1>2 DEF Dispatch!Register
<1>3. ASSUME NEW k \in T, dispatchPc[k] = "idle",
             \E p \in {"LookupError", "record"} : dispatchPc' = [dispatchPc EXCEPT ![k] = p],
             UNCHANGED <<status, run, outcome, tasksQueued, executor, stale, execLock, resetPc>>
      PROVE  DispatchIInv(T)'
  <2>1. DispatchTypeOK(T)'
    BY <1>0, <1>3 DEF DispatchTypeOK
  <2>2. \A j \in T : TaskOK(j)'
    BY <1>0, <1>3 DEF DispatchTypeOK, TaskOK
  <2>3. \A j \in T : dispatchPc'[j] = "submit" => dispatchPc[j] = "submit"
    BY <1>0, <1>3 DEF DispatchTypeOK
  <2> QED
    BY <1>0, <1>3, <2>1, <2>2, <2>3, QueueStays DEF ExecutorOK
<1>4. ASSUME NEW k \in T, Dispatch!Record(k) PROVE DispatchIInv(T)'
  <2>1. DispatchTypeOK(T)'
    BY <1>0, <1>4 DEF Dispatch!Record, DispatchTypeOK
  <2>2. \A j \in T : TaskOK(j)'
    BY <1>0, <1>4 DEF Dispatch!Record, DispatchTypeOK, TaskOK
  <2>3. \A j \in T : dispatchPc'[j] = "submit" => dispatchPc[j] = "submit"
    BY <1>0, <1>4 DEF Dispatch!Record, DispatchTypeOK
  <2> QED
    BY <1>0, <1>4, <2>1, <2>2, <2>3, QueueStays DEF ExecutorOK, Dispatch!Record
<1>5. ASSUME NEW k \in T, Dispatch!GetExecutor(k) PROVE DispatchIInv(T)'
  <2>1. DispatchTypeOK(T)'
    BY <1>0, <1>5 DEF Dispatch!GetExecutor, DispatchTypeOK
  <2>2. \A j \in T : TaskOK(j)'
    BY <1>0, <1>5 DEF Dispatch!GetExecutor, DispatchTypeOK, TaskOK
  <2> QED
    BY <1>0, <1>5, <2>1, <2>2, QueueStays DEF ExecutorOK, Dispatch!GetExecutor
<1>6. ASSUME NEW k \in T, Dispatch!Submit(k) PROVE DispatchIInv(T)'
  <2>1. run[k] = "no" /\ (k \notin stale => executor = "up")
    BY <1>0, <1>6 DEF Dispatch!Submit, TaskOK, ExecutorOK
  <2>2. CASE k \notin stale
    BY <1>6, <2>1, <2>2, TaskQueued DEF Dispatch!Submit
  <2>3. CASE k \in stale
    <3>1. DispatchTypeOK(T)'
      BY <1>0, <1>6, <2>3 DEF Dispatch!Submit, DispatchTypeOK
    <3>2. \A j \in T : TaskOK(j)'
      BY <1>0, <1>6, <2>3 DEF Dispatch!Submit, DispatchTypeOK, TaskOK
    <3>3. \A j \in T : dispatchPc'[j] = "submit" => dispatchPc[j] = "submit" /\ j # k
      BY <1>0, <1>6, <2>3 DEF Dispatch!Submit, DispatchTypeOK
    <3> QED
      BY <1>0, <1>6, <2>3, <3>1, <3>2, <3>3, QueueStays DEF ExecutorOK, Dispatch!Submit
  <2> QED
    BY <2>2, <2>3
<1>7. ASSUME NEW k \in T, Dispatch!Return(k) PROVE DispatchIInv(T)'
  <2>1. DispatchTypeOK(T)'
    BY <1>0, <1>7 DEF Dispatch!Return, DispatchTypeOK
  <2>2. \A j \in T : TaskOK(j)'
    BY <1>0, <1>7 DEF Dispatch!Return, DispatchTypeOK, TaskOK
  <2>3. \A j \in T : dispatchPc'[j] = "submit" => dispatchPc[j] = "submit"
    BY <1>0, <1>7 DEF Dispatch!Return, DispatchTypeOK
  <2> QED
    BY <1>0, <1>7, <2>1, <2>2, <2>3, QueueStays DEF ExecutorOK, Dispatch!Return
<1>8. ASSUME NEW k \in T, Dispatch!RunBegins(k) \/ Dispatch!RunSettles(k) PROVE DispatchIInv(T)'
  <2>1. DispatchTypeOK(T)'
    BY <1>0, <1>8 DEF Dispatch!RunBegins, Dispatch!RunSettles, DispatchTypeOK
  <2>2. \A j \in T : TaskOK(j)'
    BY <1>0, <1>8 DEF Dispatch!RunBegins, Dispatch!RunSettles, DispatchTypeOK, TaskOK
  <2>3. \A j \in T : /\ run'[j] = "queued" <=> run[j] = "queued"
                     /\ run'[j] \in {"queued", "begin", "fn", "ended"} =>
                          run[j] \in {"queued", "begin", "fn", "ended"}
    BY <1>0, <1>8 DEF Dispatch!RunBegins, Dispatch!RunSettles, DispatchTypeOK
  <2> QED
    BY <1>0, <1>8, <2>1, <2>2, <2>3, QueueStays DEF ExecutorOK, Dispatch!RunBegins, Dispatch!RunSettles
<1>9. ASSUME NEW k \in T, run[k] = "fn", run' = [run EXCEPT ![k] = "ended"],
             \E o \in {"complete", "error", "escaped"} : outcome' = [outcome EXCEPT ![k] = o],
             UNCHANGED <<status, dispatchPc, tasksQueued, executor, stale, execLock, resetPc>>
      PROVE  DispatchIInv(T)'
  <2>1. DispatchTypeOK(T)'
    BY <1>0, <1>9 DEF DispatchTypeOK
  <2>2. \A j \in T : TaskOK(j)'
    BY <1>0, <1>9 DEF DispatchTypeOK, TaskOK
  <2>3. \A j \in T : /\ run'[j] = "queued" <=> run[j] = "queued"
                     /\ run'[j] \in {"queued", "begin", "fn", "ended"} =>
                          run[j] \in {"queued", "begin", "fn", "ended"}
    BY <1>0, <1>9 DEF DispatchTypeOK
  <2> QED
    BY <1>0, <1>9, <2>1, <2>2, <2>3, QueueStays DEF ExecutorOK
<1>10. ASSUME \/ resetPc = "idle" /\ resetPc' = "status" /\ status' = status
              \/ resetPc = "status" /\ resetPc' = "lock" /\ status' = [k \in T |-> None],
              UNCHANGED <<dispatchPc, run, outcome, tasksQueued, executor, stale, execLock>>
       PROVE  DispatchIInv(T)'
  <2>1. DispatchTypeOK(T)'
    BY <1>0, <1>10 DEF DispatchTypeOK
  <2>2. \A j \in T : TaskOK(j)'
    BY <1>0, <1>10 DEF TaskOK
  <2> QED
    BY <1>0, <1>10, <2>1, <2>2, QueueStays DEF ExecutorOK
<1>11. ASSUME resetPc = "lock", resetPc' = "join", execLock' = "reset",
              executor' = IF executor = "none" THEN "none" ELSE "down",
              stale' = {k \in T : dispatchPc[k] = "submit"},
              UNCHANGED <<status, dispatchPc, run, outcome, tasksQueued>>
       PROVE  DispatchIInv(T)'
  <2>1. DispatchTypeOK(T)'
    BY <1>0, <1>11 DEF DispatchTypeOK
  <2>2. \A j \in T : TaskOK(j)'
    BY <1>0, <1>11 DEF TaskOK
  <2> QED
    BY <1>0, <1>11, <2>1, <2>2, QueueStays DEF ExecutorOK
<1>12. ASSUME resetPc = "join", resetPc' = "done", execLock' = None, executor' = "none",
              tasksQueued = <<>>, \A k \in T : run[k] \notin {"begin", "fn", "ended"},
              UNCHANGED <<status, dispatchPc, run, outcome, tasksQueued, stale>>
       PROVE  DispatchIInv(T)'
  <2>1. DispatchTypeOK(T)'
    BY <1>0, <1>12 DEF DispatchTypeOK
  <2>2. \A j \in T : TaskOK(j)'
    BY <1>0, <1>12 DEF TaskOK
  <2>3. \A j \in T : run[j] # "queued"
    <3>1. Len(tasksQueued) = 0
      BY <1>12
    <3> QED
      BY <1>0, <3>1 DEF ExecutorOK
  <2>4. \A j \in T : dispatchPc[j] = "submit" => j \in stale
    BY <1>0, <1>12 DEF ExecutorOK
  <2> QED
    BY <1>0, <1>12, <2>1, <2>2, <2>3, <2>4, QueueStays DEF ExecutorOK
<1> QED
  BY <1>1, <1>2, <1>3, <1>4, <1>5, <1>6, <1>7, <1>8, <1>9, <1>10, <1>11, <1>12, TaskTaken DEF DispatchStep

(* Each part's steps are among these.                                        *)
LEMMA DispatchInitOK ==
  /\ Dispatch!Init => DispatchIInv(Tasks)
  /\ Reset!Init => DispatchIInv(ResetTasks)
<1>1. \A T : <<>> \in Seq(T) /\ Len(<<>>) = 0
  OBVIOUS
<1>2. ASSUME Dispatch!Init PROVE DispatchIInv(Tasks)
  <2>1. DispatchTypeOK(Tasks)
    BY <1>1, <1>2 DEF Dispatch!Init, DispatchTypeOK
  <2>2. \A k \in Tasks : TaskOK(k)
    BY <1>2 DEF Dispatch!Init, TaskOK
  <2>3. ExecutorOK(Tasks)
    BY <1>1, <1>2, DispatchConstants DEF Dispatch!Init, ExecutorOK
  <2> QED
    BY <2>1, <2>2, <2>3 DEF DispatchIInv
<1>3. ASSUME Reset!Init PROVE DispatchIInv(ResetTasks)
  <2>1. DispatchTypeOK(ResetTasks)
    BY <1>1, <1>3 DEF Reset!Init, DispatchTypeOK
  <2>2. \A k \in ResetTasks : TaskOK(k)
    BY <1>3 DEF Reset!Init, TaskOK
  <2>3. ExecutorOK(ResetTasks)
    BY <1>1, <1>3, DispatchConstants DEF Reset!Init, ExecutorOK
  <2> QED
    BY <2>1, <2>2, <2>3 DEF DispatchIInv
<1> QED
  BY <1>2, <1>3

LEMMA DispatchPartStep == [Dispatch!Next]_(Dispatch!vars) => DispatchStep(Tasks)
<1> SUFFICES ASSUME [Dispatch!Next]_(Dispatch!vars) PROVE DispatchStep(Tasks)
  OBVIOUS
<1>1. CASE Dispatch!PoolTakes
  BY <1>1 DEF Dispatch!PoolTakes, DispatchStep
<1>2. CASE Dispatch!Reset
  BY <1>2 DEF Dispatch!Reset, Dispatch!ResetRegistry, Dispatch!ResetStatus, Dispatch!ResetLock,
              Dispatch!ResetJoin, Dispatch!Busy, DispatchStep
<1>3. ASSUME NEW k \in Tasks, Dispatch!Lookup(k) \/ Dispatch!LookupFails(k) \/ Dispatch!FnEnds(k)
      PROVE  DispatchStep(Tasks)
  <2>1. CASE Dispatch!Lookup(k) \/ Dispatch!LookupFails(k)
    BY <1>3, <2>1 DEF Dispatch!Lookup, Dispatch!LookupFails, Dispatch!CanCall, DispatchStep
  <2>2. CASE Dispatch!FnEnds(k)
    BY <1>3, <2>2 DEF Dispatch!FnEnds, DispatchStep
  <2> QED
    BY <1>3, <2>1, <2>2
<1>4. CASE UNCHANGED Dispatch!vars \/ Dispatch!Unregister
  BY <1>4 DEF Dispatch!vars, Dispatch!Unregister, DispatchStep
<1> QED
  BY <1>1, <1>2, <1>3, <1>4 DEF Dispatch!Next, Dispatch!DispatchSteps, Dispatch!RunSteps, DispatchStep

LEMMA ResetPartStep == [Reset!Next]_(Reset!vars) => DispatchStep(ResetTasks)
<1> SUFFICES ASSUME [Reset!Next]_(Reset!vars) PROVE DispatchStep(ResetTasks)
  OBVIOUS
<1>1. CASE Reset!PoolTakes
  BY <1>1 DEF Reset!PoolTakes, DispatchStep
<1>2. CASE Reset!Reset
  BY <1>2 DEF Reset!Reset, Reset!ResetRegistry, Reset!ResetStatus, Reset!ResetLock, Reset!ResetJoin,
              Reset!Busy, DispatchStep
<1>3. ASSUME NEW k \in ResetTasks, Reset!DispatchSteps(k) \/ Reset!RunSteps(k)
      PROVE  DispatchStep(ResetTasks)
  <2>1. CASE Reset!Lookup(k) \/ Reset!LookupFails(k)
    BY <1>3, <2>1 DEF Reset!Lookup, Reset!LookupFails, Reset!CanCall, DispatchStep
  <2>2. CASE Reset!FnEnds(k)
    BY <1>3, <2>2 DEF Reset!FnEnds, DispatchStep
  <2>3. CASE \/ Reset!Record(k) \/ Reset!GetExecutor(k) \/ Reset!Submit(k) \/ Reset!Return(k)
             \/ Reset!RunBegins(k) \/ Reset!RunSettles(k)
    <3>1. \/ Dispatch!Record(k) \/ Dispatch!GetExecutor(k) \/ Dispatch!Submit(k) \/ Dispatch!Return(k)
          \/ Dispatch!RunBegins(k) \/ Dispatch!RunSettles(k)
      BY <2>3 DEF Reset!Record, Reset!GetExecutor, Reset!Submit, Reset!Return, Reset!RunBegins,
                  Reset!RunSettles, Dispatch!Record, Dispatch!GetExecutor, Dispatch!Submit, Dispatch!Return,
                  Dispatch!RunBegins, Dispatch!RunSettles
    <3> QED
      BY <1>3, <3>1 DEF DispatchStep
  <2> QED
    BY <1>3, <2>1, <2>2, <2>3 DEF Reset!DispatchSteps, Reset!RunSteps
<1>4. CASE Reset!Register
  BY <1>4 DEF Reset!Register, Dispatch!Register, DispatchStep
<1>5. CASE UNCHANGED Reset!vars \/ Reset!Unregister
  BY <1>5 DEF Reset!vars, Reset!Unregister, DispatchStep
<1> QED
  BY <1>1, <1>2, <1>3, <1>4, <1>5 DEF Reset!Next

(* A task's status goes forward, except that a reset forgets it.             *)
LEMMA StatusGoesOn ==
  ASSUME NEW T, DispatchIInv(T), DispatchStep(T)
  PROVE  Dispatch!Forgets \/ \A k \in T : Dispatch!Rank(status[k]) <= Dispatch!Rank(status'[k])
<1> USE DispatchConstants
<1>0. DispatchTypeOK(T) /\ \A k \in T : TaskOK(k)
  BY DEF DispatchIInv
<1>1. ASSUME NEW k \in T PROVE Dispatch!Rank(status[k]) \in 0 .. 3
  BY DEF Dispatch!Rank
<1>2. CASE status' = status
  BY <1>1, <1>2
<1>3. CASE Dispatch!Forgets
  BY <1>3
<1>4. ASSUME NEW k \in T, Dispatch!Record(k) \/ Dispatch!RunBegins(k) \/ Dispatch!RunSettles(k),
             NEW j \in T
      PROVE  Dispatch!Rank(status[j]) <= Dispatch!Rank(status'[j])
  <2>1. CASE j # k
    <3>1. status'[j] = status[j]
      BY <1>0, <1>4, <2>1 DEF Dispatch!Record, Dispatch!RunBegins, Dispatch!RunSettles, DispatchTypeOK
    <3> QED
      BY <1>1, <3>1
  <2>2. CASE j = k
    BY <1>0, <1>4, <2>2 DEF Dispatch!Record, Dispatch!RunBegins, Dispatch!RunSettles, DispatchTypeOK,
                            TaskOK, Dispatch!Rank
  <2> QED
    BY <2>1, <2>2
<1> QED
  BY <1>2, <1>3, <1>4
     DEF DispatchStep, Dispatch!Forgets, Dispatch!Register, Dispatch!GetExecutor, Dispatch!Submit, Dispatch!Return

LEMMA TasksAreOver ==
  ASSUME NEW T, DispatchIInv(T)
  PROVE  /\ \A k \in T : Dispatch!Settled(status[k]) => run[k] = "over" /\ status[k] = outcome[k]
         /\ executor = "none" => tasksQueued = <<>> /\ \A k \in T : run[k] \notin {"begin", "fn", "ended"}
<1> USE DispatchConstants
<1>1. \A k \in T : Dispatch!Settled(status[k]) => run[k] = "over" /\ status[k] = outcome[k]
  BY DEF DispatchIInv, TaskOK, Dispatch!Settled
<1>2. ASSUME executor = "none" PROVE \A k \in T : run[k] \notin {"queued", "begin", "fn", "ended"}
  BY <1>2 DEF DispatchIInv, ExecutorOK
<1>3. ASSUME executor = "none" PROVE tasksQueued = <<>>
  <2>1. /\ Len(tasksQueued) \in Nat /\ (Len(tasksQueued) = 0 => tasksQueued = <<>>)
        /\ \A i \in 1 .. Len(tasksQueued) : tasksQueued[i] \in T
    BY LenProperties, EmptySeq, ElementOfSeq DEF DispatchIInv, DispatchTypeOK
  <2>2. \A i \in 1 .. Len(tasksQueued) : FALSE
    BY <1>2, <1>3, <2>1 DEF DispatchIInv, ExecutorOK
  <2> QED
    BY <2>1, <2>2
<1> QED
  BY <1>1, <1>2, <1>3

(* tasks/dispatch.py, by itself and with its reset.                          *)
DispatchTables ==
  /\ DispatchIInv(Tasks) => Dispatch!NoneLeftRunning
  /\ DispatchIInv(ResetTasks) => Reset!NoneLeftRunning
  /\ DispatchIInv(Tasks) /\ [Dispatch!Next]_(Dispatch!vars) => DispatchIInv(Tasks)' /\ Dispatch!MovesForward
  /\ DispatchIInv(ResetTasks) /\ [Reset!Next]_(Reset!vars) => DispatchIInv(ResetTasks)' /\ Reset!MovesForward

LEMMA DispatchTablesHold == DispatchTables
<1>1. DispatchIInv(Tasks) => Dispatch!NoneLeftRunning
  BY TasksAreOver DEF Dispatch!NoneLeftRunning, Dispatch!Busy
<1>2. DispatchIInv(ResetTasks) => Reset!NoneLeftRunning
  BY TasksAreOver DEF Reset!NoneLeftRunning, Reset!Busy, Reset!Settled, Dispatch!Settled
<1>3. DispatchIInv(Tasks) /\ [Dispatch!Next]_(Dispatch!vars) => DispatchIInv(Tasks)' /\ Dispatch!MovesForward
  BY DispatchPartStep, DispatchKeepsIInv, StatusGoesOn DEF Dispatch!MovesForward
<1>4. DispatchIInv(ResetTasks) /\ [Reset!Next]_(Reset!vars) => DispatchIInv(ResetTasks)' /\ Reset!MovesForward
  <2>1. \A s : Reset!Rank(s) = Dispatch!Rank(s)
    BY DEF Reset!Rank, Dispatch!Rank
  <2>2. ASSUME DispatchIInv(ResetTasks), [Reset!Next]_(Reset!vars)
        PROVE  /\ DispatchIInv(ResetTasks)'
               /\ Dispatch!Forgets \/ \A k \in ResetTasks : Dispatch!Rank(status[k]) <= Dispatch!Rank(status'[k])
    BY <2>2, ResetPartStep, DispatchKeepsIInv, StatusGoesOn
  <2> QED
    BY <2>1, <2>2 DEF Reset!MovesForward, Reset!Forgets, Dispatch!Forgets
<1> QED
  BY <1>1, <1>2, <1>3, <1>4 DEF DispatchTables

-----------------------------------------------------------------------------
(* A step of the process is a step of one part and of no other.              *)
LEMMA ProcessIsItsParts ==
  [Next]_vars =>
    /\ [Singleton!Next]_(Singleton!vars) /\ [BGE!Next]_(BGE!vars) /\ [Qwen!Next]_(Qwen!vars)
    /\ [Proxy!Next]_(Proxy!vars) /\ [Pages!Next]_(Pages!vars)
    /\ part' = part /\ (part = "transformers" => [Transformers!Next]_(Transformers!vars))
    /\ part = "llamacpp" => [Llama!Next]_(Llama!vars)
    /\ IF part = "reset" THEN [Reset!Next]_(Reset!vars) ELSE [Dispatch!Next]_(Dispatch!vars)
<1> SUFFICES ASSUME [Next]_vars
             PROVE  /\ [Singleton!Next]_(Singleton!vars) /\ [BGE!Next]_(BGE!vars) /\ [Qwen!Next]_(Qwen!vars)
                    /\ [Proxy!Next]_(Proxy!vars) /\ [Pages!Next]_(Pages!vars) /\ part' = part
                    /\ part = "transformers" => [Transformers!Next]_(Transformers!vars)
                    /\ part = "llamacpp" => [Llama!Next]_(Llama!vars)
                    /\ IF part = "reset" THEN [Reset!Next]_(Reset!vars) ELSE [Dispatch!Next]_(Dispatch!vars)
  OBVIOUS
<1> USE DEF singletonVars, dispatchVars, textVars, proxyVars, pageVars, bgeVars, qwenVars, Singleton!vars,
        BGE!vars, Qwen!vars, Proxy!vars, Pages!vars, Transformers!vars, Llama!vars, Dispatch!vars, Reset!vars
<1>1. CASE SingletonSteps
  BY <1>1 DEF SingletonSteps
<1>2. CASE DispatchSteps
  BY <1>2 DEF DispatchSteps
<1>3. CASE ResetSteps
  BY <1>3 DEF ResetSteps
<1>4. CASE LlamaSteps
  BY <1>4 DEF LlamaSteps
<1>5. CASE TransformersSteps
  BY <1>5 DEF TransformersSteps
<1>6. CASE ProxySteps
  BY <1>6 DEF ProxySteps
<1>7. CASE PagesSteps
  BY <1>7 DEF PagesSteps
<1>8. CASE BGESteps
  BY <1>8 DEF BGESteps
<1>9. CASE QwenSteps
  BY <1>9 DEF QwenSteps
<1>10. CASE UNCHANGED vars
  BY <1>10 DEF vars
<1> QED
  BY <1>1, <1>2, <1>3, <1>4, <1>5, <1>6, <1>7, <1>8, <1>9, <1>10 DEF Next

ProcessIInv ==
  /\ SingletonIInv /\ BGEIInv /\ QwenIInv /\ RemoteIInv /\ PagesIInv
  /\ part = "transformers" => TransformersIInv
  /\ part = "llamacpp" => LlamaIInv
  /\ IF part = "reset" THEN DispatchIInv(ResetTasks) ELSE DispatchIInv(Tasks)

LEMMA ProcessKeepsIInv == Spec => []ProcessIInv
<1>1. Init => ProcessIInv
  BY SingletonInitOK, BGEInitOK, QwenInitOK, RemoteInitOK, PagesInitOK, TextSteps, DispatchInitOK
     DEF Init, ProcessIInv
<1>2. ProcessIInv /\ [Next]_vars => ProcessIInv'
  BY ProcessIsItsParts, SingletonStep, BGEStep, QwenStep, RemoteStep, PagesStep, TextSteps,
     DispatchTablesHold
     DEF ProcessIInv, DispatchTables
<1> QED
  BY <1>1, <1>2, PTL DEF Spec

(* text/backends/ and multimodal/pipeline.py: whichever backend runs, a      *)
(* stream that is not abandoned gives, in order and once each, the tokens    *)
(* the model made, and all of them if it ends; a proxied stream that ends    *)
(* has given every token its server sent; a document's pages come in order.  *)
THEOREM NoTokenIsLost == Spec => []StreamsAreWhole
<1>1. ProcessIInv => StreamsAreWhole
  BY TransformersAreWhole, LlamaIsWhole, EndsYieldAll, PagesAreInOrder DEF ProcessIInv, StreamsAreWhole
<1> QED
  BY <1>1, ProcessKeepsIInv, PTL

(* tasks/dispatch.py: a task that get_task_status() calls complete or error  *)
(* is over, as its runner ended; no task is left on an executor that the     *)
(* reset has forgotten.                                                      *)
THEOREM TasksEndAsRun == Spec => []NoneLeftRunning
<1>1. ProcessIInv => NoneLeftRunning
  BY DispatchTablesHold DEF DispatchTables, ProcessIInv, NoneLeftRunning
<1> QED
  BY <1>1, ProcessKeepsIInv, PTL

(* tasks/dispatch.py: whatever the pool overtakes, a poller sees the status  *)
(* of a task go from queued over running to its end, and back to unknown     *)
(* only in a reset.                                                          *)
THEOREM PollersSeeProgress == Spec => StatusMovesForward
<1>1. ProcessIInv /\ [Next]_vars =>
        [IF part = "reset" THEN Reset!MovesForward ELSE Dispatch!MovesForward]_vars
  BY ProcessIsItsParts, DispatchTablesHold DEF DispatchTables, ProcessIInv
<1>2. Spec => [][Next]_vars
  BY DEF Spec
<1> QED
  BY <1>1, <1>2, ProcessKeepsIInv, PTL DEF StatusMovesForward

(* The process keeps its promises, whichever part runs.                      *)
THEOREM ProcessIsSafe ==
  Spec => /\ [](/\ NoStrayScheduler /\ LoadedOnce /\ KeptCallsSucceed
                /\ StreamsAreWhole /\ NoneLeftRunning)
          /\ StatusMovesForward
<1>1. ProcessIInv => NoStrayScheduler /\ LoadedOnce /\ KeptCallsSucceed
  <2>1. SingletonIInv => NoStrayScheduler
    BY DEF SingletonIInv, CallerOK, NoStrayScheduler, Singleton!NoStrayScheduler
  <2>2. BGEIInv => LoadedOnce
    BY BGEConstants DEF BGEIInv, BGECallOK, BGE!Places, LoadedOnce, BGE!LoadedOnce
  <2>3. QwenIInv => KeptCallsSucceed
    BY QwenConstants DEF QwenIInv, QwenCallOK, Locked, KeptCallsSucceed, Qwen!KeptCallsSucceed, Qwen!At
  <2> QED
    BY <2>1, <2>2, <2>3 DEF ProcessIInv
<1> QED
  BY <1>1, NoTokenIsLost, TasksEndAsRun, PollersSeeProgress, ProcessKeepsIInv, PTL
=============================================================================
