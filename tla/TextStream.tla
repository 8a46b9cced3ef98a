----------------------------- MODULE TextStream -----------------------------
(* Calls on one in-process text backend (text/backends/llamacpp.py and      *)
(* transformers.py). A streaming call starts a producer thread and fetches  *)
(* every token with a queue.get() run on the event loop's default executor, *)
(* whose threads it shares with the calls that generate in one piece. With  *)
(* transformers the producer itself reads from the streamer of a third      *)
(* thread, which runs model.generate.                                       *)
EXTENDS Naturals, Sequences, SequencesExt

CONSTANTS Streams,   \* calls of generate_stream_async
          Wholes,    \* calls of generate_async, or of chat through /chat
          MaxTokens, \* tokens of a full answer
          PoolSize,  \* threads of the default executor
          Backend    \* "llamacpp" or "transformers"

ConstantsOK == /\ Backend \in {"llamacpp", "transformers"}
               /\ PoolSize \in Nat \ {0} /\ MaxTokens \in Nat \ {0}
               /\ Streams \cap Wholes = {}

VARIABLES pc,       \* call -> "idle", "waiting" for its job, "yield", or how it ended
          backlog,  \* jobs (calls) waiting for a thread of the executor, in order
          pool,     \* jobs running on a thread of the executor
          model,    \* call -> its run of the model
          made,     \* call -> tokens the model has made for it
          relay,    \* call -> tokens in its streamer, in order (transformers)
          producer, \* call -> its producer thread
          queue,    \* call -> its token_queue, Done last
          held,     \* call -> the token its consumer holds, or NoToken
          yielded,  \* call -> the tokens its consumer has passed on
          context   \* the call whose tokens are in the model's context, or NoCall

vars == <<pc, backlog, pool, model, made, relay, producer, queue, held, yielded,
          context>>

Calls == Streams \cup Wholes
Done == 0     \* the _DONE sentinel; the tokens of a call are 1, 2, ...
NoToken == 0
NoCall == 0
Ended == {"ended", "failed", "gone"}

Init == /\ pc = [c \in Calls |-> "idle"]
        /\ backlog = <<>>
        /\ pool = {}
        /\ model = [c \in Calls |-> "unused"]
        /\ made = [c \in Calls |-> 0]
        /\ relay = [c \in Calls |-> <<>>]
        /\ producer = [c \in Calls |-> "none"]
        /\ queue = [c \in Calls |-> <<>>]
        /\ held = [c \in Calls |-> NoToken]
        /\ yielded = [c \in Calls |-> <<>>]
        /\ context = NoCall

Goto(c, place) == pc' = [pc EXCEPT ![c] = place]
Submit(c) == backlog' = Append(backlog, c)
Put(c, x) == queue' = [queue EXCEPT ![c] = Append(@, x)]

\* generate_async, generate_stream_async: the producer thread is started, and
\* the first job goes to the executor.
Start(c) ==
  /\ pc[c] = "idle"
  /\ Goto(c, "waiting")
  /\ Submit(c)
  /\ producer' = [producer EXCEPT ![c] = IF c \in Streams THEN "running" ELSE @]
  /\ model' = [model EXCEPT ![c] = IF c \in Streams THEN "running" ELSE @]
  /\ context' = IF c \in Streams THEN c ELSE context
  /\ UNCHANGED <<pool, made, relay, queue, held, yielded>>

\* A free thread of the executor takes the oldest job.
RunJob ==
  /\ backlog # <<>>
  /\ Cardinality(pool) < PoolSize
  /\ LET c == Head(backlog) IN
       /\ pool' = pool \cup {c}
       /\ model' = [model EXCEPT ![c] = IF c \in Wholes THEN "running" ELSE @]
       /\ context' = IF c \in Wholes THEN c ELSE context
  /\ backlog' = Tail(backlog)
  /\ UNCHANGED <<pc, made, relay, producer, queue, held, yielded>>

\* The model makes one more token of call c: into the call's queue (the
\* producer's loop over llama.cpp), its streamer, or the answer it builds up.
MakeToken(c) ==
  /\ model[c] = "running"
  /\ made[c] < MaxTokens
  /\ made' = [made EXCEPT ![c] = @ + 1]
  /\ IF c \in Wholes THEN UNCHANGED <<relay, queue>>
     ELSE IF Backend = "llamacpp" THEN Put(c, made[c] + 1) /\ UNCHANGED relay
     ELSE /\ relay' = [relay EXCEPT ![c] = Append(@, made[c] + 1)]
          /\ UNCHANGED queue
  /\ UNCHANGED <<pc, backlog, pool, model, producer, held, yielded, context>>

\* Mutant: the sentinel is put only after a normal end.
StopModelSilently(c, ok) ==
  /\ model[c] = "running"
  /\ ok => made[c] = MaxTokens
  /\ model' = [model EXCEPT ![c] = IF ok THEN "ended" ELSE "failed"]
  /\ \/ /\ c \in Wholes
        /\ pool' = pool \ {c}
        /\ Goto(c, IF pc[c] = "gone" THEN "gone"
                   ELSE IF ok THEN "ended" ELSE "failed")
        /\ UNCHANGED <<producer, queue, relay>>
     \/ /\ c \in Streams /\ Backend = "llamacpp"
        /\ producer' = [producer EXCEPT ![c] = "ended"]
        /\ IF ok THEN Put(c, Done) ELSE UNCHANGED queue
        /\ UNCHANGED <<pc, pool, relay>>
     \/ /\ c \in Streams /\ Backend = "transformers"
        /\ relay' = [relay EXCEPT ![c] = IF ok THEN Append(@, Done) ELSE @]
        /\ UNCHANGED <<pc, pool, producer, queue>>
  /\ UNCHANGED <<backlog, made, held, yielded, context>>

\* The model's run for call c is over: all tokens made, or it raised. A whole
\* call leaves its executor thread; llama.cpp's producer puts the sentinel in
\* its `finally`; model.generate ends its streamer only when it succeeds.
StopModel(c, ok) ==
  /\ model[c] = "running"
  /\ ok => made[c] = MaxTokens
  /\ model' = [model EXCEPT ![c] = IF ok THEN "ended" ELSE "failed"]
  /\ \/ /\ c \in Wholes
        /\ pool' = pool \ {c}
        /\ Goto(c, IF pc[c] = "gone" THEN "gone"
                   ELSE IF ok THEN "ended" ELSE "failed")
        /\ UNCHANGED <<producer, queue, relay>>
     \/ /\ c \in Streams /\ Backend = "llamacpp"
        /\ producer' = [producer EXCEPT ![c] = "ended"]
        /\ Put(c, Done)
        /\ UNCHANGED <<pc, pool, relay>>
     \/ /\ c \in Streams /\ Backend = "transformers"
        /\ relay' = [relay EXCEPT ![c] = IF ok THEN Append(@, Done) ELSE @]
        /\ UNCHANGED <<pc, pool, producer, queue>>
  /\ UNCHANGED <<backlog, made, held, yielded, context>>

\* transformers' producer: the streamer's next token, or its end, into the queue.
Relay(c) ==
  /\ producer[c] = "running"
  /\ relay[c] # <<>>
  /\ relay' = [relay EXCEPT ![c] = Tail(@)]
  /\ Put(c, Head(relay[c]))
  /\ producer' = [producer EXCEPT ![c] = IF Head(relay[c]) = Done THEN "ended" ELSE @]
  /\ UNCHANGED <<pc, backlog, pool, model, made, held, yielded, context>>

\* Mutant: the job takes the newest token.
GetTokenNewest(c) ==
  /\ c \in pool \cap Streams
  /\ queue[c] # <<>>
  /\ pool' = pool \ {c}
  /\ LET n == Len(queue[c]) IN
       /\ queue' = [queue EXCEPT ![c] = SubSeq(@, 1, n - 1)]
       /\ IF pc[c] = "gone" THEN UNCHANGED <<pc, held>>
          ELSE IF queue[c][n] = Done THEN Goto(c, "ended") /\ UNCHANGED held
          ELSE Goto(c, "yield") /\ held' = [held EXCEPT ![c] = queue[c][n]]
  /\ UNCHANGED <<backlog, model, made, relay, producer, yielded, context>>

\* token_queue.get() returns on its executor thread; the consumer, if it still
\* waits, breaks on the sentinel and goes on to yield any other token.
GetToken(c) ==
  /\ c \in pool \cap Streams
  /\ queue[c] # <<>>
  /\ pool' = pool \ {c}
  /\ queue' = [queue EXCEPT ![c] = Tail(@)]
  /\ LET token == Head(queue[c]) IN
       IF pc[c] = "gone" THEN UNCHANGED <<pc, held>>
       ELSE IF token = Done THEN Goto(c, "ended") /\ UNCHANGED held
       ELSE Goto(c, "yield") /\ held' = [held EXCEPT ![c] = token]
  /\ UNCHANGED <<backlog, model, made, relay, producer, yielded, context>>

\* `yield token`, and the next get() is submitted.
Yield(c) ==
  /\ pc[c] = "yield"
  /\ yielded' = [yielded EXCEPT ![c] = Append(@, held[c])]
  /\ held' = [held EXCEPT ![c] = NoToken]
  /\ Goto(c, "waiting")
  /\ Submit(c)
  /\ UNCHANGED <<pool, model, made, relay, producer, queue, context>>

\* The caller goes away (the client disconnects). A job still in the backlog is
\* cancelled with its future; a running one keeps its thread.
Cancel(c) ==
  /\ pc[c] \in {"waiting", "yield"}
  /\ Goto(c, "gone")
  /\ IF \E i \in DOMAIN backlog : backlog[i] = c
     THEN \E i \in DOMAIN backlog : backlog[i] = c /\ backlog' = RemoveAt(backlog, i)
     ELSE UNCHANGED backlog
  /\ UNCHANGED <<pool, model, made, relay, producer, queue, held, yielded,
                 context>>

Next == \/ RunJob
        \/ \E c \in Calls :
             \/ Start(c) \/ MakeToken(c) \/ Relay(c) \/ GetToken(c)
             \/ Yield(c) \/ Cancel(c)
             \/ \E ok \in BOOLEAN : StopModel(c, ok)

Spec == Init /\ [][Next]_vars

\* Threads run: the model's, the one that relays its tokens, the executor's and
\* the event loop. A caller need not come, and need not go away.
Generates(c) == MakeToken(c) \/ \E ok \in BOOLEAN : StopModel(c, ok)
Consumes(c) == GetToken(c) \/ Yield(c)
Fairness == /\ WF_vars(RunJob)
            /\ \A c \in Calls :
                 WF_vars(Generates(c)) /\ WF_vars(Relay(c)) /\ WF_vars(Consumes(c))
FairSpec == Spec /\ Fairness

-----------------------------------------------------------------------------
Numbers(c) == [i \in 1..made[c] |-> i]
HeldBy(c) == IF held[c] = NoToken THEN <<>> ELSE <<held[c]>>
(* The tokens before the sentinel, which comes last if it is there. *)
Tokens(s) == IF s # <<>> /\ s[Len(s)] = Done THEN SubSeq(s, 1, Len(s) - 1) ELSE s

\* Between the model and the consumer a stream loses, repeats and reorders
\* nothing: what was yielded, what the consumer holds, what is queued and what
\* is in the streamer are, in this order, the tokens the model made.
NothingLost ==
  \A c \in Streams : pc[c] # "gone" =>
    yielded[c] \o HeldBy(c) \o Tokens(queue[c]) \o Tokens(relay[c]) = Numbers(c)

\* A stream that ends has yielded everything its model run made.
EndIsTheEnd ==
  \A c \in Streams : pc[c] = "ended" =>
    yielded[c] = Numbers(c) /\ model[c] # "running"

\* base.py:77: "safe to construct once and call concurrently". Whatever other
\* calls do, fail or leave behind, a call that is not abandoned ends.
Waiting(c) == pc[c] = "waiting"
Over(c) == pc[c] \in Ended
EveryCallEnds == \A c \in Calls : Waiting(c) ~> Over(c)

\* An abandoned call gives the executor its thread back.
ThreadsComeBack == \A c \in Calls : c \in pool ~> c \notin pool

\* base.py:77-78: callers share the one model that was loaded. The tokens made
\* for a call follow from its own prompt, so the context the model continues
\* from is the call's own when a token is made.
OwnContext ==
  [][\A c \in Calls : made'[c] # made[c] => context = c]_vars
=============================================================================
