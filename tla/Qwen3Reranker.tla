--------------------------- MODULE Qwen3Reranker ---------------------------
(* The generative reranker adapter (reranker/adapters/qwen3.py). Threads    *)
(* score batches on one adapter while unload() may release its weights.     *)
(* load() and unload() assign four fields one after another under the lock; *)
(* _score_pairs reads them without it, and only the forward pass is locked. *)
(* The padding side is a field of the tokenizer that all threads share.     *)
EXTENDS Naturals

CONSTANTS Threads,    \* threads that call rerank()
          Batches,    \* sub-batches of batch_size a call is split into
          MaxUnloads, \* bound on the number of unload() calls
          Unloader,   \* the thread that calls unload()
          None

ConstantsOK == Batches \in Nat \ {0} /\ None # Unloader /\ {None, Unloader} \cap Threads = {}

VARIABLES tokenizer, \* _tokenizer: the number of the load that made it, 0 for None
          model,     \* _model is set
          ids,       \* which of _yes_id and _no_id are set
          side,      \* tokenizer number -> its padding_side
          lock,      \* holder of _lock, or None
          pc,        \* thread -> where its call is
          tok,       \* thread -> the tokenizer its batch uses
          saved,     \* thread -> its original_side
          encoded,   \* thread -> the side its batch was padded on, or None
          left,      \* thread -> batches still to score
          unloading, \* what unload() assigns next, "idle" outside it
          unloads,   \* unload() calls so far
          kept,      \* thread -> no unload() began since its call did
          alone      \* thread -> no other call tokenized while its batch did

vars == <<tokenizer, model, ids, side, lock, pc, tok, saved, encoded, left,
          unloading, unloads, kept, alone>>
fields == <<tokenizer, model, ids>>
call == <<tok, saved, encoded, left>>
watch == <<kept, alone>>
unload == <<unloading, unloads>>

Sides == {"left", "right"}
Tokenizers == 1..(MaxUnloads + 1)
Publishing == {"tokenizer", "model", "yes", "no"}
Tokenizing == {"save", "set", "encode", "restore"}
Places == {"idle", "test", "load", "loading", "prompts", "device", "forward",
           "forwarding", "readYes", "readNo", "noYes", "ok",
           "badScores", "loadFailed", "error"} \cup Publishing \cup Tokenizing

TypeOK == /\ tokenizer \in {0} \cup Tokenizers
          /\ model \in BOOLEAN
          /\ ids \subseteq {"yes", "no"}
          /\ side \in [Tokenizers -> Sides]
          /\ lock \in Threads \cup {Unloader, None}
          /\ pc \in [Threads -> Places]
          /\ tok \in [Threads -> {0} \cup Tokenizers]
          /\ saved \in [Threads -> Sides]
          /\ encoded \in [Threads -> Sides \cup {None}]
          /\ left \in [Threads -> 0..Batches]
          /\ unloading \in {"idle"} \cup Publishing
          /\ unloads \in 0..MaxUnloads
          /\ kept \in [Threads -> BOOLEAN]
          /\ alone \in [Threads -> BOOLEAN]

Init == /\ tokenizer = 0
        /\ model = FALSE
        /\ ids = {}
        /\ side = [k \in Tokenizers |-> "right"]
        /\ lock = None
        /\ pc = [t \in Threads |-> "idle"]
        /\ tok = [t \in Threads |-> 0]
        /\ saved = [t \in Threads |-> "right"]
        /\ encoded = [t \in Threads |-> None]
        /\ left = [t \in Threads |-> 0]
        /\ unloading = "idle"
        /\ unloads = 0
        /\ kept = [t \in Threads |-> TRUE]
        /\ alone = [t \in Threads |-> TRUE]

At(t, place) == pc[t] = place
Goto(t, place) == pc' = [pc EXCEPT ![t] = place]

\* rerank() with candidates: the first thing is `self._model is None`.
Rerank(t) ==
  /\ At(t, "idle")
  /\ Goto(t, IF model THEN "prompts" ELSE "load")
  /\ left' = [left EXCEPT ![t] = Batches]
  /\ kept' = [kept EXCEPT ![t] = unloading = "idle"]
  /\ UNCHANGED <<fields, side, lock, tok, saved, encoded, unload, alone>>

\* load() takes the lock; another load may have come first.
LoadBegin(t) ==
  /\ At(t, "load")
  /\ lock = None
  /\ lock' = t
  /\ Goto(t, "loading")
  /\ UNCHANGED <<fields, side, call, unload, watch>>

\* from_pretrained and the token ids, into locals; either may raise.
Load(t) ==
  /\ At(t, "loading")
  /\ \/ model /\ Goto(t, "prompts") /\ lock' = None
     \/ ~model /\ Goto(t, "tokenizer") /\ UNCHANGED lock
     \/ ~model /\ Goto(t, "loadFailed") /\ lock' = None
  /\ UNCHANGED <<fields, side, call, unload, watch>>

\* Mutant: the model is published before the tokenizer.
PublishModelFirst(t) ==
  /\ \/ /\ At(t, "tokenizer")
        /\ model' = TRUE
        /\ Goto(t, "model")
        /\ UNCHANGED <<tokenizer, ids, lock>>
     \/ /\ At(t, "model")
        /\ tokenizer' = unloads + 1
        /\ Goto(t, "yes")
        /\ UNCHANGED <<model, ids, lock>>
     \/ /\ pc[t] \in {"yes", "no"}
        /\ ids' = ids \cup {pc[t]}
        /\ Goto(t, IF At(t, "yes") THEN "no" ELSE "prompts")
        /\ lock' = IF At(t, "no") THEN None ELSE lock
        /\ UNCHANGED <<tokenizer, model>>
  /\ UNCHANGED <<side, call, unload, watch>>

\* The four assignments at the end of load(), in their order.
Publish(t) ==
  /\ \/ /\ At(t, "tokenizer")
        /\ tokenizer' = unloads + 1
        /\ Goto(t, "model")
        /\ UNCHANGED <<model, ids, lock>>
     \/ /\ At(t, "model")
        /\ model' = TRUE
        /\ Goto(t, "yes")
        /\ UNCHANGED <<tokenizer, ids, lock>>
     \/ /\ pc[t] \in {"yes", "no"}
        /\ ids' = ids \cup {pc[t]}
        /\ Goto(t, IF At(t, "yes") THEN "no" ELSE "prompts")
        /\ lock' = IF At(t, "no") THEN None ELSE lock
        /\ UNCHANGED <<tokenizer, model>>
  /\ UNCHANGED <<side, call, unload, watch>>

\* The prompts of a batch and `tokenizer = self._tokenizer`: None has neither a
\* chat template nor a padding side to set.
BuildPrompts(t) ==
  /\ At(t, "prompts")
  /\ tok' = [tok EXCEPT ![t] = tokenizer]
  /\ encoded' = [encoded EXCEPT ![t] = None]
  /\ Goto(t, IF tokenizer = 0 THEN "error" ELSE "save")
  /\ LET others == {u \in Threads \ {t} : pc[u] \in Tokenizing}
     IN alone' = [u \in Threads |->
                    IF tokenizer = 0 THEN alone[u]
                    ELSE IF u = t THEN others = {}
                    ELSE alone[u] /\ u \notin others]
  /\ UNCHANGED <<fields, side, lock, saved, left, unload, kept>>

\* Save the tokenizer's padding side, set "left", encode, and put it back: four
\* accesses to a field of a shared object, none of them under the lock.
Pad(t) ==
  /\ \/ /\ At(t, "save")
        /\ saved' = [saved EXCEPT ![t] = side[tok[t]]]
        /\ Goto(t, "set")
        /\ UNCHANGED <<side, encoded>>
     \/ /\ At(t, "set")
        /\ side' = [side EXCEPT ![tok[t]] = "left"]
        /\ Goto(t, "encode")
        /\ UNCHANGED <<saved, encoded>>
     \/ /\ At(t, "encode")
        /\ encoded' = [encoded EXCEPT ![t] = side[tok[t]]]
        /\ Goto(t, "restore")
        /\ UNCHANGED <<side, saved>>
     \/ /\ At(t, "restore")
        /\ side' = [side EXCEPT ![tok[t]] = saved[t]]
        /\ Goto(t, "device")
        /\ UNCHANGED <<saved, encoded>>
  /\ UNCHANGED <<fields, lock, tok, left, unload, watch>>

\* `model = self._model` and its device.
GetDevice(t) ==
  /\ At(t, "device")
  /\ Goto(t, IF model THEN "forward" ELSE "error")
  /\ UNCHANGED <<fields, side, lock, call, unload, watch>>

\* The forward pass, under the lock. The call holds its own reference to the
\* model, which an unload() does not take away.
ForwardBegin(t) ==
  /\ At(t, "forward")
  /\ lock = None
  /\ lock' = t
  /\ Goto(t, "forwarding")
  /\ UNCHANGED <<fields, side, call, unload, watch>>

ForwardEnd(t) ==
  /\ At(t, "forwarding")
  /\ lock' = IF lock = t THEN None ELSE lock
  /\ Goto(t, "readYes")
  /\ UNCHANGED <<fields, side, call, unload, watch>>

\* The two indexings by _yes_id and _no_id, after the lock is released. An index
\* of None adds an axis instead of choosing a column: with both ids gone the
\* call returns nested lists for scores, with one gone torch.stack raises.
ReadYes(t) ==
  /\ At(t, "readYes")
  /\ Goto(t, IF "yes" \in ids THEN "readNo" ELSE "noYes")
  /\ UNCHANGED <<fields, side, lock, call, unload, watch>>

ReadNo(t) ==
  /\ \/ /\ At(t, "readNo") /\ "no" \in ids
        /\ left' = [left EXCEPT ![t] = @ - 1]
        /\ Goto(t, IF left[t] > 1 THEN "prompts" ELSE "ok")
     \/ /\ At(t, "readNo") /\ "no" \notin ids
        /\ Goto(t, "error")
        /\ UNCHANGED left
     \/ /\ At(t, "noYes")
        /\ Goto(t, IF "no" \in ids THEN "error" ELSE "badScores")
        /\ UNCHANGED left
  /\ UNCHANGED <<fields, side, lock, tok, saved, encoded, unload, watch>>

\* The caller has its answer.
Answer(t) ==
  /\ pc[t] \in {"ok", "badScores", "loadFailed", "error"}
  /\ Goto(t, "idle")
  /\ tok' = [tok EXCEPT ![t] = 0]
  /\ saved' = [saved EXCEPT ![t] = "right"]
  /\ encoded' = [encoded EXCEPT ![t] = None]
  /\ left' = [left EXCEPT ![t] = 0]
  /\ UNCHANGED <<fields, side, lock, unload, watch>>

\* unload(): the fields one by one, under the lock.
Unload ==
  /\ \/ /\ unloading = "idle"
        /\ unloads < MaxUnloads
        /\ lock = None
        /\ lock' = Unloader
        /\ unloading' = "model"
        /\ kept' = [t \in Threads |-> FALSE]
        /\ UNCHANGED <<fields, unloads>>
     \/ /\ unloading = "model"
        /\ model' = FALSE
        /\ unloading' = "tokenizer"
        /\ UNCHANGED <<tokenizer, ids, lock, unloads, kept>>
     \/ /\ unloading = "tokenizer"
        /\ tokenizer' = 0
        /\ unloading' = "yes"
        /\ UNCHANGED <<model, ids, lock, unloads, kept>>
     \/ /\ unloading = "yes"
        /\ ids' = ids \ {"yes"}
        /\ unloading' = "no"
        /\ UNCHANGED <<tokenizer, model, lock, unloads, kept>>
     \/ /\ unloading = "no"
        /\ ids' = ids \ {"no"}
        /\ unloading' = "idle"
        /\ unloads' = unloads + 1
        /\ lock' = None
        /\ UNCHANGED <<tokenizer, model, kept>>
  /\ UNCHANGED <<side, pc, call, alone>>

Next == \/ \E t \in Threads :
             \/ Rerank(t) \/ LoadBegin(t) \/ Load(t) \/ Publish(t)
             \/ BuildPrompts(t) \/ Pad(t) \/ GetDevice(t)
             \/ ForwardBegin(t) \/ ForwardEnd(t) \/ ReadYes(t) \/ ReadNo(t)
             \/ Answer(t)
        \/ Unload

Spec == Init /\ [][Next]_vars

\* base.py:35-37: the model is guarded by the lock. One forward pass at a time.
OneForward ==
  \A t, u \in Threads :
    At(t, "forwarding") /\ At(u, "forwarding") => t = u

\* A call reads the fields without the lock, also while a load assigns them one
\* after another. As long as nothing is unloaded during the call it never finds
\* one missing: the model, which it tests, is assigned after the tokenizer, and
\* the ids, assigned last, are read only after a wait for the loader's lock.
KeptCallsSucceed ==
  \A t \in Threads : kept[t] => pc[t] \notin {"error", "noYes", "badScores"}

\* A batch tokenized while no other was is padded on the left, whatever side
\* earlier overlapping calls left in the shared tokenizer.
LoneBatchesPadLeft == \A t \in Threads : alone[t] => encoded[t] # "right"

\* qwen3.py:204: "Left-pad so the last token position is consistent across all
\* sequences". The logits of the last position are those of padding otherwise.
PaddedLeft == \A t \in Threads : encoded[t] # "right"

\* base.py:97-100: _score_pairs "must return a list of the same length as
\* candidates", a score (a float) per candidate; a call that lost its weights to
\* an unload() fails, and does not answer with something else.
ScoresAreNumbers == \A t \in Threads : pc[t] # "badScores"
=============================================================================
