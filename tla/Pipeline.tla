------------------------------ MODULE Pipeline ------------------------------
(***************************************************************************)
(* circuitforge_core/pipeline: recorder.py, crystallizer.py, registry.py   *)
(* and executor.py. A reviewed run is recorded on disk; when enough        *)
(* approved runs of its input are there, they are crystallized into a      *)
(* workflow, which replaces LLM calls until a step fails. Runs are         *)
(* evaluated concurrently. write_text() truncates the file as it opens it  *)
(* and then writes the text from its start, in one write(): where two have *)
(* the file open, the later text covers the earlier one only as far as it  *)
(* goes. A reader skips a file it cannot parse. Runs are numbered by       *)
(* timestamp.                                                              *)
(***************************************************************************)
EXTENDS Naturals, Sequences, FiniteSets, FiniteSetsExt, SequencesExt

CONSTANTS
  RunData,      \* a sequence of runs: hash, approved, steps
  Hashes,       \* the input hashes
  Threshold,    \* config.threshold
  Strategy,     \* config.strategy
  LlmFallback,  \* llm_fallback of the Executor
  Similarity,   \* per two hashes the score of similarity_fn; without one, all are 0
  FuzzyThreshold

Runs == DOMAIN RunData

ConstantsOK ==
  /\ RunData \in Seq(Range(RunData)) /\ "idle" \notin Hashes
  /\ Threshold \in Nat \ {0}
  /\ Strategy \in {"most_recent", "majority"}
  /\ LlmFallback \in BOOLEAN
  /\ FuzzyThreshold \in Nat \ {0}
  /\ \A h, g \in Hashes : Similarity[h][g] \in Nat
  /\ \A r \in Runs : RunData[r].hash \in Hashes /\ RunData[r].approved \in BOOLEAN
  /\ \A r \in Runs : RunData[r].steps \in Seq(Range(RunData[r].steps)) /\ RunData[r].steps # <<>>

NoWorkflow == [runs |-> {}, steps |-> <<>>, active |-> FALSE]

VARIABLES
  pc,       \* per run its evaluation: "new", "load", "register", "store", "done"
  draft,    \* per run the workflow its evaluation made
  recorded, \* the runs whose file can be read
  files,    \* per hash the workflow last written to its file, or NoWorkflow
  size,     \* per hash the length of its file
  deact,    \* deactivate(): "idle", or the hash, the data it read, and if it writes
  exec,     \* the Executor: what it looks for, its copy of the workflow, steps done, where it is
  result,   \* its last ExecutionResult
  overlapped \* history: the hashes whose file was last opened while it was open

vars == <<pc, draft, recorded, files, size, deact, exec, result, overlapped>>
registryVars == <<files, size, deact, overlapped>>

NoResult == [success |-> FALSE, deterministic |-> FALSE, steps |-> 0, raised |-> FALSE]

NoDeactivation == [hash |-> "idle", data |-> NoWorkflow, open |-> FALSE]

NotRunning == [at |-> "idle", hash |-> "none", wf |-> NoWorkflow, done |-> 0]

Init ==
  /\ pc = [r \in Runs |-> "new"]
  /\ draft = [r \in Runs |-> NoWorkflow]
  /\ recorded = {}
  /\ files = [h \in Hashes |-> NoWorkflow]
  /\ size = [h \in Hashes |-> 0]
  /\ deact = NoDeactivation
  /\ exec = NotRunning
  /\ result = NoResult
  /\ overlapped = {}

(* The length of a workflow's JSON text, by its run ids, its steps and the *)
(* letter by which "false" is longer than "true".                          *)
Text(wf) == 1 + Cardinality(wf.runs) + Len(wf.steps) + (IF wf.active THEN 0 ELSE 1)

(* json.loads() takes a text with nothing behind it. *)
Readable(h) == files[h] # NoWorkflow /\ size[h] = Text(files[h])

(* write_text(): open("w"), then the write and the close.                  *)
Writers(h) == {r \in Runs : pc[r] = "store" /\ RunData[r].hash = h}
IsOpen(h) == Writers(h) # {} \/ (deact.open /\ deact.hash = h)

NoteOpening(h) == overlapped' = IF IsOpen(h) THEN overlapped \cup {h} ELSE overlapped \ {h}

Open(h) == size' = [size EXCEPT ![h] = 0] /\ NoteOpening(h)

Write(h, wf) ==
  /\ files' = [files EXCEPT ![h] = wf]
  /\ size' = [size EXCEPT ![h] = Max({@, Text(wf)})]

(* Recorder.record(), as of its write: before it a reader skips the file. *)
\* Mutant: the new run is recorded after the runs were loaded.
RecordLater(r) ==
  /\ pc[r] = "new"
  /\ pc' = [pc EXCEPT ![r] = IF RunData[r].approved THEN "load" ELSE "done"]
  /\ recorded' = recorded \cup {q \in Runs : pc[q] \in {"register", "store", "done"}}
  /\ UNCHANGED <<draft, registryVars, exec, result>>

Record(r) ==
  /\ pc[r] = "new"
  /\ recorded' = recorded \cup {r}
  /\ pc' = [pc EXCEPT ![r] = IF RunData[r].approved THEN "load" ELSE "done"]
  /\ UNCHANGED <<draft, registryVars, exec, result>>

(* Recorder.load_approved(). *)
LoadApproved(h) == {r \in recorded : RunData[r].approved /\ RunData[r].hash = h}

NewestFirst(rs) == Reverse(SetToSortSeq(rs, <))

(* _majority_steps(), over the runs newest first: per position the action  *)
(* with most votes, the earlier one on a tie, as the last run has it.      *)
MajorityStep(s, i) ==
  LET Votes(k) == Cardinality({j \in DOMAIN s : RunData[s[j]].steps[i].action = RunData[s[k]].steps[i].action})
      winner   == Min({k \in DOMAIN s : \A j \in DOMAIN s : Votes(j) <= Votes(k)})
      last     == Max({k \in DOMAIN s : RunData[s[k]].steps[i].action = RunData[s[winner]].steps[i].action})
  IN RunData[s[last]].steps[i]

SameLength(rs) == \A q, r \in rs : Len(RunData[q].steps) = Len(RunData[r].steps)

(* crystallize(): the canonical steps of a set of approved runs. *)
CanonicalSteps(rs) ==
  LET s == NewestFirst(rs) IN
  IF Strategy = "most_recent" THEN RunData[Max(rs)].steps
  ELSE IF SameLength(rs) THEN [i \in 1..Len(RunData[s[1]].steps) |-> MajorityStep(s, i)]
  ELSE RunData[s[Len(s)]].steps

(* The rest of evaluate_new_run(). *)
Evaluate(r) ==
  /\ pc[r] = "load"
  /\ LET rs == LoadApproved(RunData[r].hash) IN
     IF Cardinality(rs) < Threshold THEN pc' = [pc EXCEPT ![r] = "done"] /\ UNCHANGED draft
     ELSE /\ pc' = [pc EXCEPT ![r] = "register"]
          /\ draft' = [draft EXCEPT ![r] = [runs |-> rs, steps |-> CanonicalSteps(rs), active |-> TRUE]]
  /\ UNCHANGED <<recorded, registryVars, exec, result>>

(* Registry.register(), by the product with what it was given. *)
\* Mutant: the file is opened without being truncated.
RegisterOver(r) ==
  /\ pc[r] = "register"
  /\ NoteOpening(RunData[r].hash) /\ UNCHANGED size
  /\ pc' = [pc EXCEPT ![r] = "store"]
  /\ UNCHANGED <<draft, recorded, files, deact, exec, result>>

Register(r) ==
  /\ pc[r] = "register"
  /\ Open(RunData[r].hash)
  /\ pc' = [pc EXCEPT ![r] = "store"]
  /\ UNCHANGED <<draft, recorded, files, deact, exec, result>>

Store(r) ==
  /\ pc[r] = "store"
  /\ Write(RunData[r].hash, draft[r])
  /\ pc' = [pc EXCEPT ![r] = "done"]
  /\ UNCHANGED <<draft, recorded, deact, exec, result, overlapped>>

(* Registry.deactivate(): read, which raises on a file it cannot parse,    *)
(* then write back what was read.                                          *)
Deactivate(h) ==
  /\ deact.hash = "idle"
  /\ Readable(h)
  /\ deact' = [hash |-> h, data |-> files[h], open |-> FALSE]
  /\ UNCHANGED <<pc, draft, recorded, files, size, exec, result, overlapped>>

DeactivateOpen ==
  /\ deact.hash # "idle" /\ ~deact.open
  /\ Open(deact.hash)
  /\ deact' = [deact EXCEPT !.open = TRUE]
  /\ UNCHANGED <<pc, draft, recorded, files, exec, result>>

DeactivateWrite ==
  /\ deact.open
  /\ Write(deact.hash, [deact.data EXCEPT !.active = FALSE])
  /\ deact' = NoDeactivation
  /\ UNCHANGED <<pc, draft, recorded, exec, result, overlapped>>

(* Registry.match(), the first half of find().                             *)
Match(h) == IF Readable(h) /\ files[h].active THEN files[h] ELSE NoWorkflow

Run(h) ==
  /\ exec.at = "idle"
  /\ exec' = IF Match(h) # NoWorkflow THEN [exec EXCEPT !.at = "step", !.wf = Match(h)]
             ELSE [exec EXCEPT !.at = "fuzzy", !.hash = h]
  /\ UNCHANGED <<pc, draft, recorded, registryVars, result>>

(* Registry.fuzzy_match() reads the files again: the active workflow that  *)
(* is most similar, the first in the directory's order on a tie, if it is  *)
(* similar enough. Executor.run_with_fallback() goes on with it or without.*)
FuzzyMatch ==
  LET near == {g \in Hashes : Match(g) # NoWorkflow /\ Similarity[g][exec.hash] >= FuzzyThreshold}
      best == {g \in near : \A k \in near : Similarity[k][exec.hash] <= Similarity[g][exec.hash]}
  IN
  /\ exec.at = "fuzzy"
  /\ \/ best = {} /\ exec' = [NotRunning EXCEPT !.at = "fallback"]
     \/ \E g \in best : exec' = [NotRunning EXCEPT !.at = "step", !.wf = files[g]]
  /\ UNCHANGED <<pc, draft, recorded, registryVars, result>>

Finish(res) ==
  /\ result' = res
  /\ exec' = [exec EXCEPT !.at = "returned"]

(* Executor.execute(): one step_fn() call. *)
\* Mutant: a failed step is passed over.
RunStepOn ==
  /\ exec.at = "step"
  /\ IF exec.done = Len(exec.wf.steps)
     THEN Finish([success |-> TRUE, deterministic |-> TRUE, steps |-> exec.done, raised |-> FALSE])
     ELSE /\ \/ exec' = [exec EXCEPT !.done = @ + 1]
             \/ exec' = [exec EXCEPT !.wf.steps = Tail(@)]
          /\ UNCHANGED result
  /\ UNCHANGED <<pc, draft, recorded, registryVars>>

RunStep ==
  /\ exec.at = "step"
  /\ IF exec.done = Len(exec.wf.steps)
     THEN Finish([success |-> TRUE, deterministic |-> TRUE, steps |-> exec.done, raised |-> FALSE])
     ELSE /\ \/ exec' = [exec EXCEPT !.done = @ + 1]
             \/ exec' = [exec EXCEPT !.at = "fallback"]
          /\ UNCHANGED result
  /\ UNCHANGED <<pc, draft, recorded, registryVars>>

(* _llm_fallback_result(). *)
Fallback ==
  /\ exec.at = "fallback"
  /\ IF LlmFallback
     THEN \E ok \in BOOLEAN :
            Finish([success |-> ok, deterministic |-> FALSE, steps |-> exec.done, raised |-> FALSE])
     ELSE Finish([success |-> FALSE, deterministic |-> TRUE, steps |-> exec.done, raised |-> FALSE])
  /\ UNCHANGED <<pc, draft, recorded, registryVars>>

Again ==
  /\ exec.at = "returned"
  /\ exec' = NotRunning
  /\ result' = NoResult
  /\ UNCHANGED <<pc, draft, recorded, registryVars>>

Evaluation(r) == Record(r) \/ Evaluate(r) \/ Register(r) \/ Store(r)

Next ==
  \/ \E r \in Runs : Evaluation(r)
  \/ \E h \in Hashes : Deactivate(h) \/ Run(h)
  \/ DeactivateOpen \/ DeactivateWrite \/ FuzzyMatch \/ RunStep \/ Fallback \/ Again

Spec == Init /\ [][Next]_vars

-----------------------------------------------------------------------------
Approved(h) == {r \in Runs : RunData[r].approved /\ RunData[r].hash = h}

(* A stored workflow, and one that is being executed, rests on Threshold   *)
(* approved runs of its own input that are on disk.                        *)
EnoughApprovals ==
  /\ \A h \in Hashes : files[h] # NoWorkflow =>
       files[h].runs \subseteq Approved(h) \cap recorded /\ Cardinality(files[h].runs) >= Threshold
  /\ exec.at = "step" => Cardinality(exec.wf.runs) >= Threshold

(* No approval is lost between evaluations that overlap: once they are     *)
(* over, an input with Threshold approved runs has a workflow, whoever of  *)
(* them saw the others' records, and a file that can be read unless two    *)
(* had it open at once, one of which opened it last.                       *)
Quiet == ~deact.open /\ \A r \in Runs : pc[r] = "done"
EnoughRunsCrystallize ==
  Quiet =>
    \A h \in Hashes : Cardinality(Approved(h)) >= Threshold =>
      files[h] # NoWorkflow /\ (Readable(h) \/ h \in overlapped)

(* registry.py:68, load_all() returns all workflows, and :44, register()    *)
(* persists one: a file that nobody writes any more can be read.           *)
WorkflowsCanBeLoaded == Quiet => \A h \in Hashes : files[h] # NoWorkflow => Readable(h)

(* crystallizer.py:35-37, the latest approved run's steps verbatim, under  *)
(* most_recent and where majority falls back to it.                        *)
MostRecentVerbatim ==
  \A h \in Hashes :
    LET rs == files[h].runs IN
    files[h] # NoWorkflow /\ (Strategy = "most_recent" \/ ~SameLength(rs)) =>
      files[h].steps = RunData[Max(rs)].steps

(* Under majority no position of a workflow has an action that fewer runs  *)
(* proposed there than some other.                                         *)
MajorityWins ==
  \A h \in Hashes :
    LET rs == files[h].runs
        Votes(i, a) == Cardinality({r \in rs : RunData[r].steps[i].action = a}) IN
    files[h] # NoWorkflow /\ SameLength(rs) =>
      \A r \in rs : \A i \in DOMAIN RunData[r].steps :
        Votes(i, RunData[r].steps[i].action) <= Votes(i, files[h].steps[i].action)

(* A deterministic success executed an approved run's steps, every one of  *)
(* them, even if the workflow was replaced or deactivated meanwhile.       *)
DeterministicMeansApproved ==
  exec.at = "returned" /\ result.success /\ result.deterministic =>
    \E r \in recorded :
      /\ RunData[r].approved
      /\ exec.wf.steps = RunData[r].steps
      /\ result.steps = Len(RunData[r].steps)

(* executor.py:64-65, without LLM fallback a miss raises RuntimeError. *)
MissRaises == exec.at = "returned" /\ ~LlmFallback /\ exec.wf = NoWorkflow => result.raised

(* executor.py:31-32, used_deterministic says that a workflow was used. *)
DeterministicMeansWorkflow ==
  exec.at = "returned" /\ result.deterministic => exec.wf # NoWorkflow
=============================================================================
