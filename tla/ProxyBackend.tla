---------------------------- MODULE ProxyBackend ----------------------------
(***************************************************************************)
(* circuitforge_core/text/backends: ollama.py and vllm.py, which pass a    *)
(* call on to a model server over HTTP, and the choice of a backend in     *)
(* base.py. The synchronous and the asynchronous variant of a method make  *)
(* the same requests. What the servers send is external: lines of a stream *)
(* with numbered tokens, ended by the server, by an error in the stream or *)
(* by a broken connection.                                                 *)
(***************************************************************************)
EXTENDS Naturals, Sequences, SequencesExt

CONSTANTS Calls, MaxTokens

ConstantsOK == MaxTokens \in Nat

VARIABLES
  backend,  \* the process's backend, "mock", or "ValueError"
  pc,       \* call -> "idle", "sent", "reading", "yielded", "ended", "left", "raised"
  op,       \* call -> "stream", "generate" or "chat"
  wire,     \* call -> the lines that were sent and are not read
  server,   \* call -> "open", "closed" or "reset", the server's end of the stream
  made,     \* call -> how many tokens the server has sent
  line,     \* call -> the line whose token was yielded
  yielded   \* call -> the tokens the consumer was given

vars == <<backend, pc, op, wire, server, made, line, yielded>>

Paths == {"ollama://", "vllm://", ".gguf", "directory of .gguf", "repository"}
Valid == {"llamacpp", "transformers", "ollama", "vllm", "classifier"}

(* _select_backend(): the argument, or else CF_TEXT_BACKEND, decides       *)
(* without a look at the path.                                             *)
SelectBackend(path, override) ==
  CASE override # "" -> IF override \in Valid THEN override ELSE "ValueError"
    [] path = "ollama://" -> "ollama"
    [] path = "vllm://" -> "vllm"
    [] path \in {".gguf", "directory of .gguf"} -> "llamacpp"
    [] OTHER -> "transformers"

(* make_text_backend(): "classifier" is valid and yet has no text backend. *)
MakeTextBackend(path, override, mock) ==
  CASE mock -> "mock"
    [] ~mock /\ SelectBackend(path, override) = "classifier" -> "ValueError"
    [] OTHER -> SelectBackend(path, override)

NoLine == [token |-> 0, done |-> FALSE]

Init ==
  /\ \E path \in Paths, override \in Valid \cup {"", "other"}, mock \in BOOLEAN :
       backend = MakeTextBackend(path, override, mock)
  /\ pc = [c \in Calls |-> "idle"]
  /\ op = [c \in Calls |-> "stream"]
  /\ wire = [c \in Calls |-> <<>>]
  /\ server = [c \in Calls |-> "open"]
  /\ made = [c \in Calls |-> 0]
  /\ line = [c \in Calls |-> NoLine]
  /\ yielded = [c \in Calls |-> <<>>]

Go(c, where) == pc' = [pc EXCEPT ![c] = where]

-----------------------------------------------------------------------------
Sends(c, o) ==
  /\ pc[c] = "idle" /\ backend \in {"ollama", "vllm"}
  /\ op' = [op EXCEPT ![c] = o]
  /\ UNCHANGED <<backend, wire, server, made, line, yielded>>

Generate(c) == Sends(c, "generate") /\ Go(c, "sent")
Stream(c) == Sends(c, "stream") /\ Go(c, "sent")

(* vLLM's chat() makes dictionaries of the messages. That of Ollama puts   *)
(* them into the JSON as they are, and a ChatMessage cannot be encoded.    *)
Chat(c) == Sends(c, "chat") /\ Go(c, IF backend = "vllm" THEN "sent" ELSE "raised")

(* The server answers, or it cannot be reached, answers too late or with   *)
(* an error, which raise_for_status() raises before anything is yielded.   *)
(* An answer that is not what it should be raises too (vLLM).              *)
Respond(c) ==
  /\ pc[c] = "sent"
  /\ \/ Go(c, IF op[c] = "stream" THEN "reading" ELSE "ended")
     \/ Go(c, "raised")
  /\ UNCHANGED <<backend, op, wire, server, made, line, yielded>>

(* The server sends a line: a token, a blank or a comment, the last line,  *)
(* which with Ollama may carry a token, or an error. It then closes.       *)
Serve(c) ==
  /\ pc[c] \in {"reading", "yielded"} /\ server[c] = "open"
  /\ \E token \in {0, made[c] + 1}, last \in {"none", "done", "error"} :
       /\ token <= MaxTokens
       /\ token = 0 /\ last = "none" => wire[c] = <<>>  \* bound: no two blanks in a row
       /\ token > 0 /\ last # "none" => backend = "ollama" /\ last = "done"
       /\ wire' = [wire EXCEPT ![c] = Append(@, [token |-> token, done |-> last = "done"])]
       /\ made' = [made EXCEPT ![c] = IF token > 0 THEN token ELSE @]
       /\ server' = [server EXCEPT ![c] = IF last = "none" THEN "open" ELSE "closed"]
  /\ UNCHANGED <<backend, pc, op, line, yielded>>

(* The connection breaks, with what was not read yet lost in part.         *)
Reset(c) ==
  /\ pc[c] \in {"reading", "yielded"} /\ server[c] # "reset"
  /\ server' = [server EXCEPT ![c] = "reset"]
  /\ \E n \in 0..Len(wire[c]) : wire' = [wire EXCEPT ![c] = SubSeq(@, 1, n)]
  /\ UNCHANGED <<backend, pc, op, made, line, yielded>>

(* Ollama's stream is over with the line that says so, that of vLLM when   *)
(* the server closes it: "[DONE]" is a line like a blank one.              *)
Breaks(l) == backend = "ollama" /\ l.done
After(l) == IF Breaks(l) THEN "ended" ELSE "reading"

(* A line without a token, an error among them, is passed over.            *)
ReadLine(c) ==
  LET l == Head(wire[c]) IN
  /\ pc[c] = "reading" /\ wire[c] # <<>>
  /\ wire' = [wire EXCEPT ![c] = Tail(@)]
  /\ IF l.token = 0
     THEN Go(c, After(l)) /\ UNCHANGED <<line, yielded>>
     ELSE /\ Go(c, "yielded")
          /\ line' = [line EXCEPT ![c] = l]
          /\ yielded' = [yielded EXCEPT ![c] = Append(@, l.token)]
  /\ UNCHANGED <<backend, op, server, made>>

(* The consumer asks for more, or closes the generator.                    *)
Resume(c) ==
  /\ pc[c] = "yielded"
  /\ Go(c, After(line[c])) \/ Go(c, "left")
  /\ UNCHANGED <<backend, op, wire, server, made, line, yielded>>

(* Nothing more comes: the end, a broken connection, or 180 s of silence.  *)
NoMoreLines(c) ==
  /\ pc[c] = "reading" /\ wire[c] = <<>>
  /\ Go(c, IF server[c] = "closed" THEN "ended" ELSE "raised")
  /\ UNCHANGED <<backend, op, wire, server, made, line, yielded>>

Next ==
  \E c \in Calls :
    \/ Generate(c) \/ Stream(c) \/ Chat(c) \/ Respond(c) \/ Serve(c) \/ Reset(c)
    \/ ReadLine(c) \/ Resume(c) \/ NoMoreLines(c)

Spec == Init /\ [][Next]_vars

-----------------------------------------------------------------------------
(* text/backends/base.py:121, "yields tokens": a stream that ends by       *)
(* itself has given the consumer every token the server sent, in order,    *)
(* whichever line or silence ended it; a broken one raises.                *)
EndYieldsAll ==
  \A c \in Calls :
    pc[c] = "ended" /\ op[c] = "stream" => yielded[c] = [i \in 1..made[c] |-> i]

(* base.py:127, `messages: list[ChatMessage]`: a chat is sent.             *)
ChatIsSent == [][\A c \in Calls : Chat(c) => pc'[c] = "sent"]_vars
=============================================================================
