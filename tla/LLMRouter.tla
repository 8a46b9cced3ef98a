----------------------------- MODULE LLMRouter ------------------------------
(***************************************************************************)
(* circuitforge_core/llm/router.py: one LLMRouter shared by several calls  *)
(* of complete() and embed(), each going through its fallback order. A     *)
(* backend with a cf_orch block is first allocated at the orchestrator,    *)
(* and that lease has to be given back; any other is pinged. What servers  *)
(* and orchestrator answer is open, except that a Reliable backend never   *)
(* fails: allocated or reached, its calls succeed.                         *)
(***************************************************************************)
EXTENDS Naturals, Sequences, SequencesExt

CONSTANTS
  Calls,     \* one call of complete() or embed() each
  Backends,  \* names in config["backends"]
  Config,    \* per backend its type and its flags: enabled, images, orch
  Orders,    \* the fallback orders a call may be given
  Reliable   \* the backends that do not fail

Types == {"openai_compat", "anthropic", "vision_service"}

ConstantsOK ==
  /\ Config \in [Backends -> [type : Types, enabled : BOOLEAN, images : BOOLEAN, orch : BOOLEAN]]
  /\ Orders \subseteq Seq(Backends)
  /\ Reliable \subseteq Backends

VARIABLES
  call,    \* per call its arguments: kind, images, order
  pc,      \* "idle", "select", "check", "request", "release", "done"
  at,      \* per call its position in its order
  leases,  \* pairs <<call, backend>> allocated and not given back
  reply,   \* per call what the last request gave: "none", "text", "error"
  outcome, \* "none", "refused", "exhausted", "not pulled", "exit raised", "answered"
  tags,    \* _ollama_tags_cache for the embedding model: "unknown", "has", "lacks"
  pulled   \* the backends whose server has that model

vars == <<call, pc, at, leases, reply, outcome, tags, pulled>>

Backend(c) == call[c].order[at[c]]
Cfg(c) == Config[Backend(c)]
MoreToTry(c) == at[c] <= Len(call[c].order)

Init ==
  /\ call \in [Calls -> [kind : {"complete", "embed"}, images : BOOLEAN, order : Orders]]
  /\ \A c \in Calls : call[c].kind = "embed" => ~call[c].images
  /\ pc = [c \in Calls |-> "idle"]
  /\ at = [c \in Calls |-> 1]
  /\ leases = {}
  /\ reply = [c \in Calls |-> "none"]
  /\ outcome = [c \in Calls |-> "none"]
  /\ tags = [b \in Backends |-> "unknown"]
  /\ pulled \in SUBSET {b \in Backends : Config[b].type = "openai_compat"}

Return(c, o) ==
  /\ pc' = [pc EXCEPT ![c] = "done"]
  /\ outcome' = [outcome EXCEPT ![c] = o]

(* The entry of complete() and embed(): refused in DEMO_MODE. *)
Start(c) ==
  /\ pc[c] = "idle"
  /\ \/ /\ pc' = [pc EXCEPT ![c] = "select"]
        /\ UNCHANGED outcome
     \/ Return(c, "refused")
  /\ UNCHANGED <<call, at, leases, reply, tags, pulled>>

(* The skip rules at the head of the two loops. *)
Eligible(c) ==
  /\ Cfg(c).enabled
  /\ IF call[c].kind = "embed" THEN Cfg(c).type = "openai_compat"
     ELSE /\ Cfg(c).type = "vision_service" => call[c].images
          /\ call[c].images => (Cfg(c).images \/ Cfg(c).type = "vision_service")

NextBackend(c) == at' = [at EXCEPT ![c] = @ + 1]

Skip(c) ==
  /\ pc[c] = "select"
  /\ MoreToTry(c)
  /\ ~Eligible(c)
  /\ NextBackend(c)
  /\ UNCHANGED <<call, pc, leases, reply, outcome, tags, pulled>>

Exhausted(c) ==
  /\ pc[c] = "select"
  /\ ~MoreToTry(c)
  /\ Return(c, "exhausted")
  /\ UNCHANGED <<call, at, leases, reply, tags, pulled>>

(* embed() looks at the tags before its request, complete() does not. *)
Reached(c) == pc' = [pc EXCEPT ![c] = IF call[c].kind = "embed" THEN "check" ELSE "request"]

(* _try_cf_orch_alloc() returns a context: the lease is open. *)
Allocate(c) ==
  /\ pc[c] = "select"
  /\ MoreToTry(c) /\ Eligible(c)
  /\ Cfg(c).orch /\ Cfg(c).type # "anthropic"
  /\ leases' = leases \cup {<<c, Backend(c)>>}
  /\ Reached(c)
  /\ UNCHANGED <<call, at, reply, outcome, tags, pulled>>

(* No allocation: the backend is pinged (anthropic: its key looked up) and *)
(* skipped when that fails.                                                *)
\* Mutant: a service the orchestrator would have started is pinged first.
ReachFirst(c) ==
  /\ pc[c] = "select"
  /\ MoreToTry(c) /\ Eligible(c)
  /\ \/ Reached(c) /\ UNCHANGED at
     \/ (Backend(c) \in Reliable => Cfg(c).orch) /\ NextBackend(c) /\ UNCHANGED pc
  /\ UNCHANGED <<call, leases, reply, outcome, tags, pulled>>

Reach(c) ==
  /\ pc[c] = "select"
  /\ MoreToTry(c) /\ Eligible(c)
  /\ Cfg(c).orch /\ Cfg(c).type # "anthropic" => Backend(c) \notin Reliable
  /\ \/ Reached(c) /\ UNCHANGED at
     \/ Backend(c) \notin Reliable /\ NextBackend(c) /\ UNCHANGED pc
  /\ UNCHANGED <<call, leases, reply, outcome, tags, pulled>>

(* _check_ollama_model_pulled(): the cached tags, or those /api/tags gives *)
(* now, or none when it fails. It raises outside the try of embed().       *)
CheckPulled(c) ==
  /\ pc[c] = "check"
  /\ LET b == Backend(c) IN
     \E t \in IF tags[b] # "unknown" THEN {tags[b]}
              ELSE {"unknown", IF b \in pulled THEN "has" ELSE "lacks"} :
       /\ tags' = [tags EXCEPT ![b] = t]
       /\ IF t = "lacks" THEN Return(c, "not pulled")
          ELSE pc' = [pc EXCEPT ![c] = "request"] /\ UNCHANGED outcome
  /\ UNCHANGED <<call, at, leases, reply, pulled>>

(* The request of the backend. *)
Request(c) ==
  /\ pc[c] = "request"
  /\ \E r \in {"text", "error"} :
       /\ r = "error" => Backend(c) \notin Reliable
       /\ reply' = [reply EXCEPT ![c] = r]
  /\ pc' = [pc EXCEPT ![c] = "release"]
  /\ UNCHANGED <<call, at, leases, outcome, tags, pulled>>

(* The finally clause gives the lease back, then the call returns or goes  *)
(* on. Only the vision path lets an exception of __exit__ out.             *)
\* Mutant: the lease is given back after a success only.
ReleaseOnSuccess(c) ==
  /\ pc[c] = "release"
  /\ leases' = IF reply[c] = "text" THEN leases \ {<<c, Backend(c)>>} ELSE leases
  /\ IF reply[c] = "text" THEN Return(c, "answered") /\ UNCHANGED at
     ELSE pc' = [pc EXCEPT ![c] = "select"] /\ NextBackend(c) /\ UNCHANGED outcome
  /\ UNCHANGED <<call, reply, tags, pulled>>

Release(c) ==
  /\ pc[c] = "release"
  /\ leases' = leases \ {<<c, Backend(c)>>}
  /\ \/ /\ reply[c] = "text"
        /\ Return(c, "answered")
        /\ UNCHANGED at
     \/ /\ reply[c] = "error"
        /\ pc' = [pc EXCEPT ![c] = "select"]
        /\ NextBackend(c)
        /\ UNCHANGED outcome
     \/ /\ Cfg(c).type = "vision_service"
        /\ <<c, Backend(c)>> \in leases
        /\ Return(c, "exit raised")
        /\ UNCHANGED at
  /\ UNCHANGED <<call, reply, tags, pulled>>

(* `ollama pull`, run by the user at any time. *)
Pull(b) ==
  /\ Config[b].type = "openai_compat"
  /\ b \notin pulled
  /\ pulled' = pulled \cup {b}
  /\ UNCHANGED <<call, pc, at, leases, reply, outcome, tags>>

Work(c) ==
  \/ Start(c) \/ Skip(c) \/ Exhausted(c) \/ Allocate(c) \/ Reach(c)
  \/ CheckPulled(c) \/ Request(c) \/ Release(c)

Next ==
  \/ \E c \in Calls : Work(c)
  \/ \E b \in Backends : Pull(b)

(* Pings, tag lookups and requests have timeouts, so a call always goes on. *)
Fairness == \A c \in Calls : WF_vars(Work(c))

Spec == Init /\ [][Next]_vars
FairSpec == Spec /\ Fairness

-----------------------------------------------------------------------------
TypeOK ==
  /\ pc \in [Calls -> {"idle", "select", "check", "request", "release", "done"}]
  /\ \A c \in Calls : at[c] \in 1..(Len(call[c].order) + 1)
  /\ leases \subseteq Calls \X Backends
  /\ reply \in [Calls -> {"none", "text", "error"}]
  /\ outcome \in [Calls -> {"none", "refused", "exhausted", "not pulled", "exit raised", "answered"}]
  /\ tags \in [Backends -> {"unknown", "has", "lacks"}]
  /\ pulled \subseteq Backends

(* A call that has no request under way holds no allocation; a call of     *)
(* complete() keeps none when it is over, whichever way it ended.          *)
LeasesGivenBack ==
  \A l \in leases :
    \/ pc[l[1]] \in {"check", "request", "release"} /\ l[2] = Backend(l[1])
    \/ outcome[l[1]] = "not pulled"

(* What a call could use, said from the documentation of complete(): an    *)
(* enabled backend that takes images when there are some, a vision service *)
(* only then.                                                              *)
Serves(b, c) ==
  /\ Config[b].enabled
  /\ IF call[c].images THEN Config[b].images \/ Config[b].type = "vision_service"
     ELSE Config[b].type # "vision_service"

(* complete() neither gives up nor falls through to a later backend when   *)
(* an earlier one of its order serves the call and does not fail, the ones *)
(* that only an allocation starts included.                                *)
ReliableIsNotBypassed ==
  \A c \in Calls :
    call[c].kind = "complete" /\ outcome[c] \in {"answered", "exhausted"} =>
      \A i \in 1..(at[c] - 1) : ~(call[c].order[i] \in Reliable /\ Serves(call[c].order[i], c))

(* Every call ends: the fallback chain runs out or somebody answers. *)
Begun(c) == pc[c] = "select"
Ended(c) == pc[c] = "done"
EveryCallEnds == \A c \in Calls : Begun(c) ~> Ended(c)

(* router.py:202, every allocation is given back in a finally block: a     *)
(* call that is over holds none. embed() raises between allocation and try.*)
NoLeaseAfterReturn == \A l \in leases : pc[l[1]] # "done"

(* router.py:464, embed() raises when all eligible backends are        *)
(* exhausted: no later backend of the order could have been tried.         *)
EmbedTriesAll ==
  \A c \in Calls :
    outcome[c] = "not pulled" =>
      ~ \E i \in (at[c] + 1)..Len(call[c].order) :
          LET b == call[c].order[i]
          IN Config[b].enabled /\ Config[b].type = "openai_compat" /\ b \in Reliable

(* router.py:177-180, the error names its fix: embed() does not report a   *)
(* model as missing once it was pulled.                                    *)
PullIsTheFix ==
  [][\A c \in Calls :
       outcome[c] = "none" /\ outcome'[c] = "not pulled" => Backend(c) \notin pulled]_vars
=============================================================================
