------------------------------ MODULE Feedback ------------------------------
(***************************************************************************)
(* circuitforge_core/api/feedback.py: submit_feedback() makes sure that the*)
(* three labels of an issue exist and files it, in requests to a Forgejo   *)
(* server that may refuse one, or do what one asks and lose the answer.    *)
(* FastAPI runs submissions in threads, so several go on at once.          *)
(* Forgejo is external: it allows two labels of one name, and lists the    *)
(* first page of the labels.                                               *)
(***************************************************************************)
EXTENDS Naturals, Sequences, FiniteSets

CONSTANTS
  Submissions,
  PageSize,  \* labels of the page that GET /labels returns
  None

ConstantsOK == PageSize \in Nat \ {0} /\ None \notin Nat

VARIABLES
  token,     \* FORGEJO_BOT_TOKEN or FORGEJO_API_TOKEN is set
  demo,      \* _is_demo()
  type,      \* per submission, the type of its FeedbackRequest
  pc,        \* per submission: "idle", "list", "labels", "issue", "answered"
  existing,  \* per submission, the labels _ensure_labels() was shown
  ids,       \* per submission, its label_ids
  status,    \* per submission, the HTTP status of its answer
  number,    \* per submission, the issue_number of its answer
  labels,    \* the repository's labels
  issues     \* the repository's issues, by number

vars == <<token, demo, type, pc, existing, ids, status, number, labels, issues>>
config == <<token, demo, type>>

Init ==
  /\ token \in BOOLEAN /\ demo \in BOOLEAN
  /\ type \in [Submissions -> {"bug", "other"}]
  /\ pc = [s \in Submissions |-> "idle"]
  /\ existing = [s \in Submissions |-> {}]
  /\ ids = [s \in Submissions |-> <<>>]
  /\ status = [s \in Submissions |-> None]
  /\ number = [s \in Submissions |-> None]
  /\ labels \in {{}, {[name |-> "needs-triage", id |-> 1]}}
  /\ issues = <<>>

LabelNames(s) ==
  <<"beta-feedback", "needs-triage", IF type[s] = "bug" THEN "bug" ELSE "question">>

Answer(s, code) ==
  /\ pc' = [pc EXCEPT ![s] = "answered"]
  /\ status' = [status EXCEPT ![s] = code]

Submit(s) ==
  /\ pc[s] = "idle"
  /\ \/ ~token /\ Answer(s, 503)
     \/ token /\ demo /\ Answer(s, 403)
     \/ token /\ ~demo /\ pc' = [pc EXCEPT ![s] = "list"] /\ UNCHANGED status
  /\ UNCHANGED <<config, existing, ids, number, labels, issues>>

-----------------------------------------------------------------------------
(* _ensure_labels() *)

Page(shown) ==
  /\ shown \subseteq labels
  /\ Cardinality(shown) = IF Cardinality(labels) < PageSize THEN Cardinality(labels)
                                                            ELSE PageSize

(* A refused GET stands for a repository without labels; one that raises   *)
(* ends the request.                                                       *)
ListLabels(s) ==
  /\ pc[s] = "list"
  /\ \/ /\ \E shown \in SUBSET labels :
             (shown = {} \/ Page(shown)) /\ existing' = [existing EXCEPT ![s] = shown]
        /\ pc' = [pc EXCEPT ![s] = "labels"]
        /\ UNCHANGED status
     \/ Answer(s, 500) /\ UNCHANGED existing
  /\ UNCHANGED <<config, ids, number, labels, issues>>

Wanted(s) == LabelNames(s)[Len(ids[s]) + 1]
Shown(s) == {l \in existing[s] : l.name = Wanted(s)}

\* The dictionary of the names keeps the last of two labels.
UseLabel(s) ==
  /\ pc[s] = "labels" /\ Len(ids[s]) < 3 /\ Shown(s) # {}
  /\ \E l \in Shown(s) : ids' = [ids EXCEPT ![s] = Append(@, l.id)]
  /\ UNCHANGED <<config, pc, existing, status, number, labels, issues>>

Fresh(s) == [name |-> Wanted(s), id |-> Cardinality(labels) + 1]

LabelRefused(s) == Answer(s, 502) /\ UNCHANGED <<labels, ids>>

\* Mutant: a label that cannot be created is left out.
CreateLabelOrNot(s) ==
  /\ pc[s] = "labels" /\ Len(ids[s]) < 3 /\ Shown(s) = {}
  /\ \/ /\ labels' = labels \cup {Fresh(s)}
        /\ ids' = [ids EXCEPT ![s] = Append(@, Fresh(s).id)]
        /\ UNCHANGED <<pc, status>>
     \/ ids' = [ids EXCEPT ![s] = Append(@, 0)] /\ UNCHANGED <<labels, pc, status>>
  /\ UNCHANGED <<config, existing, number, issues>>

CreateLabel(s) ==
  /\ pc[s] = "labels" /\ Len(ids[s]) < 3 /\ Shown(s) = {}
  /\ \/ /\ labels' = labels \cup {Fresh(s)}
        /\ ids' = [ids EXCEPT ![s] = Append(@, Fresh(s).id)]
        /\ UNCHANGED <<pc, status>>
     \/ LabelRefused(s)
     \/ labels' \in {labels, labels \cup {Fresh(s)}} /\ Answer(s, 500) /\ UNCHANGED ids
  /\ UNCHANGED <<config, existing, number, issues>>

LabelsDone(s) ==
  /\ pc[s] = "labels" /\ Len(ids[s]) = 3
  /\ pc' = [pc EXCEPT ![s] = "issue"]
  /\ UNCHANGED <<config, existing, ids, status, number, labels, issues>>

-----------------------------------------------------------------------------
Issue(s) == [by |-> s, labels |-> {l \in labels : \E i \in 1..3 : ids[s][i] = l.id}]

(* POST /issues, the second step of several that can fail: refused, or     *)
(* raised with the issue filed or not. Forgejo is taken to file nothing    *)
(* when it answers with an error, and to answer for itself: a gateway's    *)
(* 504 for an issue that was filed is a 502 here too (feedback.py:176).    *)
FileIssue(s) ==
  /\ pc[s] = "issue"
  /\ \/ /\ issues' = Append(issues, Issue(s))
        /\ number' = [number EXCEPT ![s] = Len(issues) + 1]
        /\ Answer(s, 200)
     \/ Answer(s, 502) /\ UNCHANGED <<issues, number>>
     \/ issues' \in {issues, Append(issues, Issue(s))} /\ Answer(s, 500) /\ UNCHANGED number
  /\ UNCHANGED <<config, existing, ids, labels>>

Next == \E s \in Submissions :
  Submit(s) \/ ListLabels(s) \/ UseLabel(s) \/ CreateLabel(s) \/ LabelsDone(s) \/ FileIssue(s)

Spec == Init /\ [][Next]_vars

-----------------------------------------------------------------------------
(* A submission that is answered with an issue number has its own issue of *)
(* that number, with exactly the three labels of its type; one refused for *)
(* its configuration, or with 502, has none. Whatever other submissions    *)
(* do, and whichever request failed before.                                *)
FeedbackIsWhole ==
  \A s \in Submissions :
    /\ status[s] = 200 =>
         /\ issues[number[s]].by = s
         /\ Cardinality(issues[number[s]].labels) = 3
         /\ {l.name : l \in issues[number[s]].labels} = {LabelNames(s)[i] : i \in 1..3}
    /\ status[s] \in {403, 502, 503} => \A n \in DOMAIN issues : issues[n].by # s

(* _ensure_labels(): what it does not find it creates. Two labels of one   *)
(* name exist when submissions overlap, GET is refused or the page is full.*)
OneLabelPerName == \A l, m \in labels : l.name = m.name => l = m
=============================================================================
