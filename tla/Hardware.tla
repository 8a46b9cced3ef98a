------------------------------ MODULE Hardware -------------------------------
(***************************************************************************)
(* circuitforge_core/hardware, its two questions.                          *)
(* What is this machine: detect_hardware() tries the detectors in order    *)
(* and never fails, select_tier() finds the tier of the VRAM and           *)
(* generate_profile() writes the configuration the LLM router works from.  *)
(* Will a model fit: model_vram_estimate() asks the HuggingFace Hub for    *)
(* the parameter count and, as best it can, for the architecture. Sizes    *)
(* there are in MB of 10^6 bytes, where the code's are GB of 10^9; the     *)
(* VRAM available is in MiB.                                               *)
(***************************************************************************)
EXTENDS Integers, Sequences, SequencesExt

CONSTANTS
  Sizes,      \* MB of VRAM of the cards tried
  Models,     \* millions of parameters of the models tried, 0 for unpublished
  Quants,     \* bits per parameter of the quantization levels asked for, 0 for unknown ones
  Available,  \* MiB of VRAM of the machines
  Layers, Contexts,
  None

ConstantsOK ==
  /\ Sizes \subseteq Nat
  /\ Models \subseteq Nat /\ Quants \subseteq Nat /\ Available \subseteq Nat
  /\ Layers \subseteq Nat /\ Contexts \subseteq Nat
  /\ None \notin Nat

VARIABLES
  machine,  \* detector -> the cards it meets
  tried,    \* the number of detectors that have found nothing
  spec,     \* the HardwareSpec, or None
  config,   \* the LLMConfig, or None
  pc,       \* "ask", "params", "config", "done", or the exception that left the call
  request,  \* the arguments of the call
  weights,  \* MB
  kv,       \* MB
  fits      \* TRUE, FALSE, or None

profileVars == <<machine, tried, spec, config>>
estimateVars == <<pc, request, weights, kv, fits>>

-----------------------------------------------------------------------------
\* What a detector meets: cards, or nothing (no tool, an answer it cannot
\* read, an exception).
Cards == {<<a>> : a \in Sizes} \cup {<<a, b>> : a, b \in Sizes}

Detectors == <<"nvidia", "amd", "apple">>

ProfileInit ==
  /\ machine \in [Range(Detectors) -> {<<>>} \cup Cards]
  /\ tried = 0 /\ spec = None /\ config = None

(* The loop of detect_hardware(): a detector that returns None or raises   *)
(* is passed over.                                                         *)
TryDetector ==
  /\ spec = None /\ tried < Len(Detectors)
  /\ LET vendor == Detectors[tried + 1]
         met == machine[vendor]
     IN  IF met # <<>>
         THEN /\ spec' = [vendor |-> vendor, vram |-> Head(met),
                          cards |-> IF vendor = "apple" THEN 1 ELSE Len(met)]
              /\ UNCHANGED tried
         ELSE tried' = tried + 1 /\ UNCHANGED spec
  /\ UNCHANGED <<machine, config>>

(* The CPU-only fallback. *)
FallBackToCpu ==
  /\ spec = None /\ tried = Len(Detectors)
  /\ spec' = [vendor |-> "cpu", vram |-> 0, cards |-> 0]
  /\ UNCHANGED <<machine, tried, config>>

(* VRAM_TIERS: bounds, whether there are candidates for vllm, and services *)
(* (those that generate_profile() asks for).                               *)
Tier(min, max, profile, candidates, services) ==
  [min |-> min, max |-> max, profile |-> profile, candidates |-> candidates,
   services |-> services]
Seeing == {"cf-vision", "cf-docuvision"}

\* Mutant: a 4 GB card gets the service and still no candidates.
ServicesOf4gbVllm == {"vllm", "cf-vision"}
ServicesOf4gb == {"cf-vision"}

VramTiers ==
  <<Tier(0, 1, "cpu-16gb", FALSE, {}),
    Tier(1, 3000, "single-gpu-2gb", FALSE, {}),
    Tier(3000, 5000, "single-gpu-4gb", FALSE, ServicesOf4gb),
    Tier(5000, 7000, "single-gpu-6gb", TRUE, {"vllm"} \cup Seeing),
    Tier(7000, 12000, "single-gpu-8gb", TRUE, {"vllm"} \cup Seeing),
    Tier(12000, 20000, "single-gpu-16gb", TRUE, {"vllm"} \cup Seeing),
    Tier(20000, 1000000000, "single-gpu-24gb", TRUE, {"vllm"} \cup Seeing)>>

(* select_tier(): the first tier that has the size, the last one for more. *)
SelectTier(vram) ==
  LET fitting == {k \in DOMAIN VramTiers : VramTiers[k].min <= vram /\ vram < VramTiers[k].max}
  IN  VramTiers[IF fitting = {} THEN Len(VramTiers) ELSE Min(fitting)]

(* generate_profile(): vllm is a backend when there are candidates and in  *)
(* the fallback orders whenever the tier has the service.                  *)
Backends(tier) ==
  {"ollama"}
    \cup (IF "vllm" \in tier.services /\ tier.candidates THEN {"vllm"} ELSE {})
    \cup (IF "cf-vision" \in tier.services THEN {"vision_service"} ELSE {})
    \cup (IF "cf-docuvision" \in tier.services THEN {"docuvision_service"} ELSE {})

\* The keys of a backend that LLMBackendConfig.to_dict() writes, and those
\* without which complete() cannot use it.
Keys == {"enabled", "url", "model", "model_candidates"}
Subscripted == {"type"}

GenerateProfile ==
  /\ spec # None /\ config = None
  /\ LET tier == SelectTier(spec.vram) IN
     config' =
       [profile |-> tier.profile,
        backends |-> Backends(tier),
        keys |-> Keys,
        fallback |-> (IF "vllm" \in tier.services THEN <<"vllm">> ELSE <<>>) \o <<"ollama">>,
        vision |-> (IF "cf-vision" \in tier.services THEN <<"vision_service">> ELSE <<>>)
                     \o <<"ollama">>]
  /\ UNCHANGED <<machine, tried, spec>>

ProfileNext == TryDetector \/ FallBackToCpu \/ GenerateProfile
ProfileSpec == ProfileInit /\ [][ProfileNext]_profileVars

-----------------------------------------------------------------------------
Overhead == 600  \* _DEFAULT_OVERHEAD_GB
HeadDim == 128   \* hidden_size / num_attention_heads of the models tried
Heads == 32

Questions == [model : Models, quant : Quants, ctx : Contexts, available : Available \cup {None}]

\* config.json: absent or without the fields of the architecture ("other"),
\* or with them; num_key_value_heads may be absent (0), or null.
Configs == [kind : {"other", "decoder", "nullHeads", "notJson"}, layers : Layers, kvHeads : {0, 8}]

EstimateInit ==
  /\ pc = "ask" /\ request \in Questions
  /\ weights = 0 /\ kv = 0 /\ fits = None

(* _quant_bits(): KeyError becomes ValueError.                             *)
QuantBits ==
  /\ pc = "ask"
  /\ pc' = IF request.quant = 0 THEN "ValueError" ELSE "params"
  /\ UNCHANGED <<request, weights, kv, fits>>

(* _fetch_param_count(): the request fails, has another status than 200,   *)
(* or there is no count; ModelVramLookupError each time. An answer that is *)
(* no JSON raises outside the `try`.                                       *)
FetchParamCount ==
  /\ pc = "params"
  /\ \/ pc' \in {"ModelVramLookupError", "JSONDecodeError"} /\ UNCHANGED weights
     \/ /\ request.model # 0
        /\ weights' = (request.model * request.quant) \div 8
        /\ pc' = "config"
  /\ UNCHANGED <<request, kv, fits>>

(* _kv_cache_gb(): 0 without the architecture. A null num_key_value_heads  *)
(* is not replaced by the default of get(), and None * float is an error.  *)
KvCache(json) ==
  IF json.kind = "other" THEN 0
  ELSE LET heads == IF json.kvHeads = 0 THEN Heads ELSE json.kvHeads
       IN  (2 * json.layers * heads * HeadDim * request.ctx * 2) \div 1000000

\* Mutant: the overhead is left out.
FitsBare(params, layered, mib) == (params + layered) * 1024 <= mib * 1000

(* total_gb <= available_vram_mb / 1024, with the total in MB.             *)
Fits(params, layered, mib) == (params + layered + Overhead) * 1024 <= mib * 1000

(* _fetch_arch_config() is best-effort: only ModelVramLookupError is       *)
(* caught. Then the total is compared.                                     *)
Estimate ==
  /\ pc = "config"
  /\ \E json \in Configs :
       IF json.kind \in {"nullHeads", "notJson"}
       THEN /\ pc' = IF json.kind = "notJson" THEN "JSONDecodeError" ELSE "TypeError"
            /\ UNCHANGED <<kv, fits>>
       ELSE /\ kv' = KvCache(json)
            /\ fits' = IF request.available = None THEN None
                       ELSE Fits(weights, kv', request.available)
            /\ pc' = "done"
  /\ UNCHANGED <<request, weights>>

EstimateNext == QuantBits \/ FetchParamCount \/ Estimate
EstimateSpec == EstimateInit /\ [][EstimateNext]_estimateVars

-----------------------------------------------------------------------------
(* The router walks a fallback order and subscripts `backends` with each   *)
(* name (llm/router.py:278): whatever was detected, every name in an order *)
(* is a backend, and the last resort is one that runs without a GPU.       *)
FallbacksExist ==
  config # None =>
    /\ Range(config.fallback) \cup Range(config.vision) \subseteq config.backends
    /\ Last(config.fallback) = "ollama" /\ Last(config.vision) = "ollama"

(* hardware/models.py:45, "Matches the schema consumed by LLMRouter": every *)
(* backend has the keys that LLMRouter.complete() subscripts.              *)
MatchesRouterSchema == config # None => Subscripted \subseteq config.keys
(* vram_estimate.py:4-5, "can this hardware run model X": the estimate is  *)
(* in bytes of powers of ten and the VRAM in powers of two, and a model    *)
(* that is said to fit does: its bytes are at most those of the machine    *)
(* (10^6 / 2^20 = 15625 / 16384), and one that is said not to fit needs    *)
(* more than 93 % of them.                                                 *)
FitsMeansItFits ==
  (pc = "done" /\ fits # None) =>
    LET total == weights + kv + Overhead IN
    /\ fits => total * 15625 <= request.available * 16384
    /\ ~fits => total * 15625 > ((request.available * 16384) \div 100) * 93

(* vram_estimate.py:151-153, the two exceptions that "Raises" names.       *)
FailsAsDocumented == pc \notin {"TypeError", "JSONDecodeError"}
=============================================================================
