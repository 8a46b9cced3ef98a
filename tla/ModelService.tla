---------------------------- MODULE ModelService ----------------------------
(***************************************************************************)
(* The app.py of text, vision, stt, tts, musicgen, video and reranker: a   *)
(* FastAPI service over one loaded model. A handler written `async def`    *)
(* runs on the event loop, one written `def` in the server's thread pool,  *)
(* and the text service hands its model to the loop's executor. The order  *)
(* of the checks, the `await` between them and the thread the model runs   *)
(* in are what differs from service to service.                            *)
(***************************************************************************)
EXTENDS Naturals, FiniteSets, Sequences, SequencesExt

CONSTANTS
  Requests,
  Threads,   \* threads of the server's pool
  Executor,  \* threads of the event loop's default executor
  Nobody

ConstantsOK == Threads \in Nat \ {0} /\ Executor \in Nat \ {0} /\ Nobody \notin Requests

VARIABLES
  service,   \* the service of this process, with what it has loaded
  pc,        \* request -> "idle", "arrived", "reading", "queued", "running", "ready", "answered"
  endpoint,  \* request -> the endpoint it was sent to
  faults,    \* request -> what is wrong with it
  loop,      \* the request whose model run holds the event loop, or Nobody
  status,    \* request -> the status code of its answer, 0 before
  files      \* the requests with a temporary file

vars == <<service, pc, endpoint, faults, loop, status, files>>

(* The text service hands its model to the executor; TextRunHere calls it  *)
(* from the handler, as the other services do.                             *)
TextRunHere == "here"
TextRun == "executor"

(* An endpoint's handler: how it is written, what it checks in order,      *)
(* "read" being the await of the uploaded file, and where the model runs.  *)
Def(checks, run) == [def |-> "def", checks |-> checks, run |-> run]
Async(checks, run) == [def |-> "async", checks |-> checks, run |-> run]
SyncHealth == Def(<<>>, "none")
AsyncHealth == Async(<<>>, "none")

(* A role that is none of the three raises in /chat and /v1 before         *)
(* anything that is modelled here, and is left out.                        *)
TextHandlers ==
  [health      |-> SyncHealth,
   generate    |-> Async(<<"filterOnly", "absent">>, TextRun),
   chat        |-> Async(<<"filterOnly", "absent">>, TextRun),
   completions |-> Async(<<"absent">>, TextRun),
   filter      |-> Async(<<"textOnly">>, TextRun)]
VisionHandlers ==
  [asyncHealth |-> AsyncHealth,
   classify    |-> Async(<<"read", "empty", "labels">>, "here"),
   embed       |-> Async(<<"noEmbed", "read", "empty">>, "here"),
   caption     |-> Async(<<"noCaption", "read", "empty">>, "here")]
SttHandlers == [asyncHealth |-> AsyncHealth, transcribe |-> Async(<<"read", "empty">>, "here")]
TtsHandlers == [health |-> SyncHealth, synthesize |-> Async(<<"blank", "read">>, "here")]
MusicgenHandlers ==
  [health |-> SyncHealth, continue |-> Async(<<"range", "read", "empty">>, "here")]
VideoHandlers ==
  [health   |-> SyncHealth,
   describe |-> Def(<<>>, "here"),
   find     |-> Def(<<>>, "here"),
   upload   |-> Async(<<>>, "here")]
RerankHandlers == [asyncHealth |-> AsyncHealth, rerank |-> Async(<<"empty">>, "here")]

(* The text service has either a text model or a classifier, the vision    *)
(* service SigLIP or a VLM.                                                *)
Handlers ==
  [text |-> TextHandlers, classifier |-> TextHandlers,
   siglip |-> VisionHandlers, vlm |-> VisionHandlers,
   stt |-> SttHandlers, tts |-> TtsHandlers, musicgen |-> MusicgenHandlers,
   video |-> VideoHandlers, reranker |-> RerankHandlers]

Code == [empty |-> 400, labels |-> 400, blank |-> 422, range |-> 422, absent |-> 503,
         filterOnly |-> 501, textOnly |-> 501, noEmbed |-> 501, noCaption |-> 501]

(* The answer to what the model raised: FileNotFoundError ("missing") and  *)
(* ValueError ("value") have a clause in some handlers only, everything    *)
(* else is a 500, the server's where the handler has no clause at all.     *)
Raised(e, error) ==
  CASE error = "missing" /\ e \in {"describe", "find"} -> 404
    [] error = "value" /\ e \in {"chat", "completions", "find"} -> 422
    [] OTHER -> 500

(* What the process lacks, whatever the request.                           *)
Lacks ==
  [text |-> {"textOnly"}, classifier |-> {"filterOnly", "absent"},
   siglip |-> {"noCaption"}, vlm |-> {"noEmbed"},
   stt |-> {}, tts |-> {}, musicgen |-> {}, video |-> {}, reranker |-> {}]

Init ==
  /\ service \in DOMAIN Handlers
  /\ pc = [r \in Requests |-> "idle"]
  /\ endpoint \in [Requests -> DOMAIN Handlers[service]]
  /\ faults = [r \in Requests |-> {}]
  /\ loop = Nobody
  /\ status = [r \in Requests |-> 0]
  /\ files = {}

-----------------------------------------------------------------------------
H(r) == Handlers[service][endpoint[r]]
In(state) == {r \in Requests : pc[r] = state}
InPool == {r \in In("running") : H(r).def = "def"}
InExecutor == {r \in In("running") : H(r).run = "executor"}

Arrive(r) ==
  /\ pc[r] = "idle"
  /\ \E wrong \in SUBSET (Range(H(r).checks) \cap {"empty", "labels", "blank", "range"}) :
       faults' = [faults EXCEPT ![r] = wrong \cup Lacks[service]]
  /\ pc' = [pc EXCEPT ![r] = "arrived"]
  /\ UNCHANGED <<service, endpoint, loop, status, files>>

Answer(r, code) ==
  /\ pc' = [pc EXCEPT ![r] = "answered"]
  /\ status' = [status EXCEPT ![r] = code]

(* The handler runs these of its checks, the first that fails answers.     *)
(* Then the model runs on the event loop, or is handed over.               *)
Failed(r, checks) == {i \in checks : H(r).checks[i] \in faults[r]}
Go(r, checks) ==
  LET failed == Failed(r, checks) IN
  \/ /\ \E i \in failed : (\A j \in failed : i <= j) /\ Answer(r, Code[H(r).checks[i]])
     /\ UNCHANGED <<loop, files>>
  \/ /\ failed = {} /\ H(r).run = "none"
     /\ Answer(r, 200) /\ UNCHANGED <<loop, files>>
  \/ /\ failed = {} /\ H(r).run = "executor"
     /\ pc' = [pc EXCEPT ![r] = "queued"] /\ UNCHANGED <<loop, status, files>>
  \/ /\ failed = {} /\ H(r).run = "here"
     /\ pc' = [pc EXCEPT ![r] = "running"]
     /\ loop' = r
     /\ files' = IF endpoint[r] = "upload" THEN files \cup {r} ELSE files
     /\ UNCHANGED status

Awaits(r) == Contains(H(r).checks, "read")
AwaitAt(r) == CHOOSE i \in DOMAIN H(r).checks : H(r).checks[i] = "read"
BeforeAwait(r) == 1 .. AwaitAt(r) - 1
AfterAwait(r) == AwaitAt(r) + 1 .. Len(H(r).checks)

(* The event loop takes the request: a `def` handler goes to the pool, an  *)
(* `async def` one starts, and stops where it reads the file, unless an    *)
(* earlier check has answered or there is none (/synthesize).              *)
Accept(r) ==
  /\ loop = Nobody /\ pc[r] = "arrived"
  /\ \/ /\ H(r).def = "def"
        /\ pc' = [pc EXCEPT ![r] = "queued"]
        /\ UNCHANGED <<loop, status, files>>
     \/ /\ H(r).def = "async" /\ (~Awaits(r) \/ endpoint[r] = "synthesize")
        /\ Go(r, DOMAIN H(r).checks)
     \/ /\ H(r).def = "async" /\ Awaits(r)
        /\ IF Failed(r, BeforeAwait(r)) # {} THEN Go(r, BeforeAwait(r))
           ELSE pc' = [pc EXCEPT ![r] = "reading"] /\ UNCHANGED <<loop, status, files>>
  /\ UNCHANGED <<service, endpoint, faults>>

(* `await image.read()` returns. *)
Resume(r) ==
  /\ loop = Nobody /\ pc[r] = "reading"
  /\ Go(r, AfterAwait(r))
  /\ UNCHANGED <<service, endpoint, faults>>

(* A thread takes the request: of the pool, for a `def` handler, or of the *)
(* executor, for the text service's model.                                 *)
StartThread(r) ==
  /\ pc[r] = "queued"
  /\ IF H(r).def = "def" THEN Cardinality(InPool) < Threads
                         ELSE Cardinality(InExecutor) < Executor
  /\ pc' = [pc EXCEPT ![r] = IF H(r).run = "none" THEN "ready" ELSE "running"]
  /\ status' = [status EXCEPT ![r] = IF H(r).run = "none" THEN 200 ELSE 0]
  /\ UNCHANGED <<service, endpoint, faults, loop, files>>

(* The model run ends or raises. On the event loop the handler goes on at  *)
(* once; its `finally` deletes the uploaded file.                          *)
FinishRun(r) ==
  /\ pc[r] = "running"
  /\ \E code \in {200} \cup {Raised(endpoint[r], error) : error \in {"missing", "value", "other"}} :
       status' = [status EXCEPT ![r] = code]
  /\ pc' = [pc EXCEPT ![r] = IF loop = r THEN "answered" ELSE "ready"]
  /\ loop' = IF loop = r THEN Nobody ELSE loop
  /\ files' = files \ {r}
  /\ UNCHANGED <<service, endpoint, faults>>

(* Back on the event loop, which sends what a thread has answered.         *)
Respond(r) ==
  /\ loop = Nobody /\ pc[r] = "ready"
  /\ pc' = [pc EXCEPT ![r] = "answered"]
  /\ UNCHANGED <<service, endpoint, faults, loop, status, files>>

Next ==
  \E r \in Requests :
    Arrive(r) \/ Accept(r) \/ Resume(r) \/ StartThread(r) \/ FinishRun(r) \/ Respond(r)

Spec == Init /\ [][Next]_vars

(* The event loop and the threads take what is there; nothing says that a  *)
(* run of the model ends.                                                  *)
Fairness ==
  \A r \in Requests : /\ WF_vars(Accept(r))
                      /\ WF_vars(Resume(r))
                      /\ WF_vars(StartThread(r))
                      /\ WF_vars(Respond(r))
FairSpec == Spec /\ Fairness

-----------------------------------------------------------------------------
Health == {"health", "asyncHealth"}

(* text/app.py:211, a health check in the thread pool beside model runs in *)
(* the executor: it is answered however long a model run takes. So it is   *)
(* in a classifier, which runs in the executor too.                        *)
HealthWhileBusy ==
  \A r \in Requests :
    (service \in {"text", "classifier"} /\ pc[r] = "arrived" /\ endpoint[r] \in Health)
      ~> pc[r] = "answered"

(* vision/__init__.py:36 and tts/__init__.py:21, "max_concurrent: 1": a    *)
(* service whose handlers run the model on the event loop runs it once at  *)
(* a time, and only for a request without a fault.                         *)
OneRunAtATime ==
  service \in {"siglip", "vlm", "stt", "tts", "musicgen"} =>
    /\ Cardinality(In("running")) <= 1
    /\ \A r \in In("running") : Failed(r, DOMAIN H(r).checks) = {}

(* video/app.py:150, "caption it, then delete the temp file".              *)
UploadsLeaveNothing == \A r \in files : pc[r] = "running"

(* vision/app.py:90, stt/app.py:61: /health answers as in the text service *)
(* (cf-orch polls it, video/app.py:14). It does not while a run lasts that *)
(* is on the event loop, nor when `def` handlers fill the pool.            *)
HealthWhileBusyEverywhere ==
  \A r \in Requests : (pc[r] = "arrived" /\ endpoint[r] \in Health) ~> pc[r] = "answered"
=============================================================================
