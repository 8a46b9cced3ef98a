--------------------------- MODULE DocumentIngest ----------------------------
(***************************************************************************)
(* circuitforge_core/documents: ingest() asks the cf-docuvision service,   *)
(* then the LLM router, and answers with a document whatever fails.        *)
(***************************************************************************)
EXTENDS Naturals

CONSTANT None

VARIABLES
  docuvision,  \* "down", "sick", "broken" (healthy, and /extract fails) or "well"
  router,      \* the router at hand: None, "given" by the caller, or "configured"
  vision,      \* what a vision backend of the router would answer, "error" for none
  pc,          \* "health", "extract", "fallback", "ask", "parse", "done"
  raw,         \* the answer of the router, or None
  document     \* source and content of the answer, or None

vars == <<docuvision, router, vision, pc, raw, document>>

(* What a model makes of the prompt: the JSON array asked for, an array of *)
(* something else than objects, some other JSON, plain text, or an error.  *)
Answers == {"elements", "strings", "object", "text", "error"}

Init ==
  /\ docuvision \in {"down", "sick", "broken", "well"}
  /\ router \in {None, "given", "configured"}
  /\ vision \in Answers
  /\ pc = "health" /\ raw = None /\ document = None

-----------------------------------------------------------------------------
Return(source, content) ==
  /\ pc' = "done"
  /\ document' = [source |-> source, content |-> content]

(* DocuvisionClient.is_healthy(): any exception is "no".                   *)
IsHealthy ==
  /\ pc = "health"
  /\ pc' = IF docuvision \in {"broken", "well"} THEN "extract" ELSE "fallback"
  /\ UNCHANGED <<docuvision, router, vision, raw, document>>

(* DocuvisionClient.extract(): the service answers, or it fails between    *)
(* the two requests, with an error status, or with what does not parse.    *)
Extract ==
  /\ pc = "extract"
  /\ \/ docuvision = "well" /\ Return("docuvision", "layout")
     \/ pc' = "fallback" /\ UNCHANGED document
  /\ UNCHANGED <<docuvision, router, vision, raw>>

(* The router given, or one built from the configuration.                  *)
FindRouter ==
  /\ pc = "fallback"
  /\ \/ router = None /\ Return("none", "empty")
     \/ router # None /\ pc' = "ask" /\ UNCHANGED document
  /\ UNCHANGED <<docuvision, router, vision, raw>>

(* The public methods of LLMRouter.                                        *)
RouterMethods == {"complete", "embed"}

(* _llm_ingest(): calls generate_vision(); AttributeError, when there is   *)
(* no such method, is caught as any error of the fallback is.              *)
AskRouter ==
  /\ pc = "ask"
  /\ \/ /\ "generate_vision" \in RouterMethods /\ vision # "error"
        /\ raw' = vision /\ pc' = "parse" /\ UNCHANGED document
     \/ /\ "generate_vision" \notin RouterMethods \/ vision = "error"
        /\ Return("llm_error", "empty") /\ UNCHANGED raw
  /\ UNCHANGED <<docuvision, router, vision>>

(* A list gives its elements and plain text one paragraph; JSON that is no *)
(* list gives nothing; an item that is no object raises AttributeError,    *)
(* which only ingest() catches.                                            *)
Parse ==
  /\ pc = "parse"
  /\ CASE raw = "elements" -> Return("llm_fallback", "elements")
       [] raw = "text"     -> Return("llm_fallback", "paragraph")
       [] raw = "object"   -> Return("llm_fallback", "empty")
       [] raw = "strings"  -> Return("llm_error", "empty")
  /\ UNCHANGED <<docuvision, router, vision, raw>>

Next == IsHealthy \/ Extract \/ FindRouter \/ AskRouter \/ Parse
Spec == Init /\ [][Next]_vars

-----------------------------------------------------------------------------
(* documents/ingest.py:4-5, "Primary path: cf-docuvision", "Fallback path: *)
(* LLMRouter vision call (lower fidelity, no layout/bbox)": when a router  *)
(* is at hand whose model can read the image, what it reads is returned.   *)
(* LLMRouter has no generate_vision(), so the fallback never reads.        *)
FallbackReads ==
  (pc = "done" /\ document.source # "docuvision"
     /\ router # None /\ vision \in {"elements", "text"})
    => document.source = "llm_fallback"
=============================================================================
