----------------------------- MODULE Multimodal -----------------------------
(* The vision and text pipeline over the pages of a document                *)
(* (pipeline/multimodal.py). run() yields a result per page, stream() the   *)
(* tokens of each page; both are generators, which go on only when their    *)
(* consumer asks. On a small GPU swap_fn is called between the two models.  *)
EXTENDS Naturals, Sequences

CONSTANTS Pages,    \* pages of the document
          MaxTokens \* tokens the text model makes for a page

ConstantsOK == Pages \in Nat /\ MaxTokens \in Nat

VARIABLES mode,      \* "run" or "stream"
          serialise, \* vram_serialise, with a swap_fn
          page,      \* the page in work, counted from 1
          pc,        \* where the generator is
          doc,       \* whether the page's extraction gave a document
          tokens,    \* tokens of the page so far
          gpu,       \* the models resident on the GPU
          out        \* what the consumer got: the page and whether it is an error

vars == <<mode, serialise, page, pc, doc, tokens, gpu, out>>

Init == /\ mode \in {"run", "stream"}
        /\ serialise \in BOOLEAN
        /\ page = 0
        /\ pc = "next"
        /\ doc = FALSE
        /\ tokens = 0
        /\ gpu = {}
        /\ out = <<>>

Yield(kind) == out' = Append(out, [page |-> page, kind |-> kind])

\* for page_idx, page_bytes in enumerate(pages)
NextPage ==
  /\ pc = "next"
  /\ IF page = Pages THEN pc' = "end" /\ UNCHANGED page
                     ELSE pc' = "extract" /\ page' = page + 1
  /\ tokens' = 0
  /\ UNCHANGED <<mode, serialise, doc, gpu, out>>

\* _extract() and the test of its error: a document, an exception whose text is
\* yielded as the page's error, or an exception whose text is empty, which
\* `if err` takes for no error.
Extract ==
  /\ pc = "extract"
  /\ gpu' = gpu \cup {"vision"}
  /\ \/ doc' = TRUE /\ pc' = "swap" /\ UNCHANGED out
     \/ doc' = FALSE /\ pc' = "swap" /\ UNCHANGED out
     \/ doc' = FALSE /\ pc' = "next" /\ Yield("error")
  /\ UNCHANGED <<mode, serialise, page, tokens>>

\* _maybe_swap(): swap_fn offloads the vision model. Nothing catches what it
\* raises.
Swap ==
  /\ pc = "swap"
  /\ \/ /\ pc' = "prompt"
        /\ gpu' = IF serialise THEN gpu \ {"vision"} ELSE gpu
     \/ serialise /\ pc' = "swapRaised" /\ UNCHANGED gpu
  /\ UNCHANGED <<mode, serialise, page, doc, tokens, out>>

\* prompt_fn(page_idx, doc), which reads the document's raw_text.
Prompt ==
  /\ pc = "prompt"
  /\ pc' = IF doc THEN "generate" ELSE "raised"
  /\ UNCHANGED <<mode, serialise, page, doc, tokens, gpu, out>>

\* _generate() or _stream_tokens(): run() yields one result, stream() every
\* token; an exception becomes the error of the page, after tokens or not.
Generate ==
  /\ pc = "generate"
  /\ gpu' = gpu \cup {"text"}
  /\ \/ /\ mode = "run"
        /\ Yield("text")
        /\ pc' = "next"
        /\ UNCHANGED tokens
     \/ /\ Yield("error")
        /\ pc' = "next"
        /\ UNCHANGED tokens
     \/ /\ mode = "stream" /\ tokens < MaxTokens
        /\ Yield("text")
        /\ tokens' = tokens + 1
        /\ UNCHANGED pc
     \/ /\ mode = "stream" /\ tokens = MaxTokens
        /\ pc' = "next"
        /\ UNCHANGED <<out, tokens>>
  /\ UNCHANGED <<mode, serialise, page, doc>>

\* The consumer drops the generator at a yield, or never resumes it.
Close == /\ pc \in {"next", "generate"}
         /\ out # <<>>
         /\ pc' = "closed"
         /\ UNCHANGED <<mode, serialise, page, doc, tokens, gpu, out>>

Next == NextPage \/ Extract \/ Swap \/ Prompt \/ Generate \/ Close

Spec == Init /\ [][Next]_vars

\* What the consumer has got is in page order; run() gives exactly one result for
\* each page done, and stream() nothing more for a page after its error.
PagesInOrder ==
  /\ mode = "run" /\ pc = "next" => Len(out) = page
  /\ \A i \in 1..Len(out) - 1 :
       \/ out[i].page < out[i + 1].page
       \/ /\ out[i].page = out[i + 1].page
          /\ mode = "stream" /\ out[i].kind = "text"

\* multimodal.py:53-55 within a page: when the text model starts, the vision
\* model that extracted the page has been offloaded.
SwappedBeforeText == pc = "generate" /\ serialise => "vision" \notin gpu

\* A page whose document was extracted cannot take the later pages with it,
\* whatever the text model raises.
TextErrorsAreResults == pc = "raised" => ~doc

\* multimodal.py:53-55: "Use this on 8GB GPUs where Dolphin-v2 and the text model
\* cannot be resident simultaneously".
NeverBothResident == serialise => gpu # {"vision", "text"}

\* multimodal.py:86-87: a page's error is "Non-None if extraction or generation
\* failed for this page". No failed extraction is raised.
FailuresAreResults == pc # "raised"
=============================================================================
