------------------------------ MODULE MCLibrary ------------------------------
(* What the library does in its callers' threads, with no thread, task or    *)
(* process of its own: the sync store (the module extended here, about which *)
(* LibraryProofs proves theorems), the caches of cloud_session and of the  *)
(* license check, crystallized workflows under both strategies, the score of *)
(* a job listing, what the hardware module makes of a machine, and the       *)
(* redaction of a text. They share nothing: a behaviour runs the part that   *)
(* `part` names.                                                             *)
EXTENDS SyncStore, Sequences, TLC

CONSTANTS u, v, tab1, tab2, tab3,
          Accounts, Requests, SessionTTL, SessionEnd,
          Calls, Products, IssuedFor, LicenseTTL, LicenseEnd,
          RunData, Hashes, Threshold, LlmFallback, Similarity, FuzzyThreshold,
          Models, Quants, Available, Layers, Contexts,
          Sizes,
          Ages, Weekdays, Reposts, Requirements, Lengths, Applicants, Rates,
          Length, Labels, MaxSpans

VARIABLES part,
          cloudMode, sessionClock, tierOf, told, sessionCache, sessionPc, in, asked, tier,
          keySet, clock, licence, revokedAt, cache, pc, args, now, result,
          workflowPc, draft, recorded, files, size, deact, exec, workflowResult, overlapped,
          listing, enrichment,
          vramPc, request, weights, kv, fits,
          machine, tried, spec, config,
          spans, todo, redacted

\* Devices of one user, of which tab3 is of another.
MCOwner == [d \in Devices |-> IF d = tab3 THEN v ELSE u]

Dial(x) == [action |-> "dial", params |-> x]
Press(x) == [action |-> "press", params |-> x]

(* Three reviewed runs of one input with different proposals, of which two  *)
(* have the same length, a rejected one, and one run of another input.      *)
MCRunData ==
  << [hash |-> "h1", approved |-> TRUE,  steps |-> <<Dial(1), Press(1)>>],
     [hash |-> "h1", approved |-> TRUE,  steps |-> <<Dial(2), Dial(2)>>],
     [hash |-> "h1", approved |-> FALSE, steps |-> <<Press(2)>>],
     [hash |-> "h1", approved |-> TRUE,  steps |-> <<Press(3)>>],
     [hash |-> "h2", approved |-> TRUE,  steps |-> <<Dial(3)>>] >>

\* Three runs, of which one has another length, that agree on the first step.
Votes ==
  << [hash |-> "h1", approved |-> TRUE, steps |-> <<Dial(1), Press(1)>>],
     [hash |-> "h1", approved |-> TRUE, steps |-> <<Dial(1), Press(2)>>],
     [hash |-> "h1", approved |-> TRUE, steps |-> <<Press(4)>>] >>

(* Two inputs that are alike, but not for every registry alike enough. *)
Alike == [h \in {"h1", "h2"} |-> [g \in {"h1", "h2"} |-> IF h = g THEN 10 ELSE 9]]

Session == INSTANCE CloudSession
  WITH Users <- Accounts, TTL <- SessionTTL, MaxTime <- SessionEnd,
       clock <- sessionClock, cache <- sessionCache, pc <- sessionPc, now <- asked
Licence == INSTANCE License WITH TTL <- LicenseTTL, MaxTime <- LicenseEnd
Recent == INSTANCE Pipeline
  WITH Strategy <- "most_recent", pc <- workflowPc, result <- workflowResult
Majority == INSTANCE Pipeline
  WITH RunData <- Votes, Hashes <- {"h1", "h2"}, Threshold <- 3,
       Strategy <- "majority", LlmFallback <- FALSE, Similarity <- Alike, FuzzyThreshold <- 10,
       pc <- workflowPc, result <- workflowResult
Score == INSTANCE JobQuality
Hardware == INSTANCE Hardware WITH pc <- vramPc
Filter == INSTANCE PIIFilter WITH result <- redacted

ASSUME LibraryAssumption ==
  /\ Session!ConstantsOK /\ Licence!ConstantsOK
  /\ Recent!ConstantsOK /\ Majority!ConstantsOK
  /\ Score!ConstantsOK /\ Hardware!ConstantsOK /\ Filter!ConstantsOK

sessionVars ==
  <<cloudMode, sessionClock, tierOf, told, sessionCache, sessionPc, in, asked, tier>>
licenceVars == <<keySet, clock, licence, revokedAt, cache, pc, args, now, result>>
workflowVars ==
  <<workflowPc, draft, recorded, files, size, deact, exec, workflowResult, overlapped>>
scoreVars == <<listing, enrichment>>
vramVars == <<vramPc, request, weights, kv, fits>>
profileVars == <<machine, tried, spec, config>>
filterVars == <<spans, todo, redacted>>

SyncSteps ==
  /\ part = "sync" /\ Next
  /\ UNCHANGED <<part, sessionVars, licenceVars, workflowVars, scoreVars, vramVars, profileVars, filterVars>>
SessionSteps ==
  /\ part = "session" /\ Session!Next
  /\ UNCHANGED <<part, vars, licenceVars, workflowVars, scoreVars, vramVars, profileVars, filterVars>>
LicenceSteps ==
  /\ part = "licence" /\ Licence!Next
  /\ UNCHANGED <<part, vars, sessionVars, workflowVars, scoreVars, vramVars, profileVars, filterVars>>
RecentSteps ==
  /\ part = "most_recent" /\ Recent!Next
  /\ UNCHANGED <<part, vars, sessionVars, licenceVars, scoreVars, vramVars, profileVars, filterVars>>
MajoritySteps ==
  /\ part = "majority" /\ Majority!Next
  /\ UNCHANGED <<part, vars, sessionVars, licenceVars, scoreVars, vramVars, profileVars, filterVars>>
ScoreSteps ==
  /\ part = "score" /\ Score!Next
  /\ UNCHANGED <<part, vars, sessionVars, licenceVars, workflowVars,
                 vramVars, profileVars, filterVars>>
VramSteps ==
  /\ part = "vram" /\ Hardware!EstimateNext
  /\ UNCHANGED <<part, vars, sessionVars, licenceVars, workflowVars,
                 scoreVars, profileVars, filterVars>>
ProfileSteps ==
  /\ part = "profile" /\ Hardware!ProfileNext
  /\ UNCHANGED <<part, vars, sessionVars, licenceVars, workflowVars,
                 scoreVars, vramVars, filterVars>>
FilterSteps ==
  /\ part = "filter" /\ Filter!Next
  /\ UNCHANGED <<part, vars, sessionVars, licenceVars, workflowVars,
                 scoreVars, vramVars, profileVars>>

\* A part that does not run has one initial state.
AccountsInit ==
  /\ Init /\ Session!Init /\ Licence!Init
  /\ part # "session" => ~cloudMode /\ \A a \in Accounts : tierOf[a] = "free"
  /\ part # "licence" => ~keySet /\ licence = "free"
WorkflowInit == IF part = "majority" THEN Majority!Init ELSE Recent!Init
ScoreInit ==
  IF part = "score" THEN Score!Init
  ELSE listing = (CHOOSE l \in Score!Listing : TRUE) /\ enrichment = None
VramInit ==
  IF part = "vram" THEN Hardware!EstimateInit
  ELSE /\ vramPc = "ask" /\ request = (CHOOSE r \in Hardware!Questions : TRUE)
       /\ weights = 0 /\ kv = 0 /\ fits = None
ProfileInit ==
  IF part = "profile" THEN Hardware!ProfileInit
  ELSE /\ machine = [d \in {"nvidia", "amd", "apple"} |-> <<>>]
       /\ tried = 0 /\ spec = None /\ config = None
FilterInit ==
  IF part = "filter" THEN Filter!Init ELSE spans = <<>> /\ todo = <<>> /\ redacted = Filter!Text

MCInit ==
  /\ part \in {"sync", "session", "licence", "most_recent", "majority",
               "score", "vram", "profile", "filter"}
  /\ AccountsInit /\ WorkflowInit
  /\ ScoreInit /\ VramInit /\ ProfileInit /\ FilterInit
MCNext == \/ SyncSteps \/ SessionSteps \/ LicenceSteps
          \/ RecentSteps \/ MajoritySteps
          \/ ScoreSteps \/ VramSteps \/ ProfileSteps \/ FilterSteps
allVars ==
  <<part, vars, sessionVars, licenceVars, workflowVars, scoreVars, vramVars, profileVars, filterVars>>
MCSpec == MCInit /\ [][MCNext]_allVars

(* The sync store by itself. *)
WipeInit == part = "sync" /\ MCInit
WipeSpec == WipeInit /\ [][SyncSteps]_<<part, vars>>

(* The properties of the parts beside SyncStore's own. *)
TierIsRecent == Session!TierIsRecent
RevocationIsSeen == Licence!RevocationIsSeen
EnoughRunsCrystallize == part = "most_recent" => Recent!EnoughRunsCrystallize
DeterministicMeansApproved == part = "most_recent" => Recent!DeterministicMeansApproved
ScoreFollowsEvidence == Score!ScoreFollowsEvidence
FitsMeansItFits == Hardware!FitsMeansItFits
FallbacksExist == Hardware!FallbacksExist
NothingPersonalSurvives == Filter!NothingPersonalSurvives
MCSymmetry == Permutations(Requests) \cup Permutations(Calls)
=============================================================================
