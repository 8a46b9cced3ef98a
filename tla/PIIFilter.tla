------------------------------ MODULE PIIFilter ------------------------------
(***************************************************************************)
(* circuitforge_core/text/filter.py: _redact() replaces the spans the      *)
(* classifier found by their labels, from right to left, so that the       *)
(* offsets of those still to come stay valid. A text is the sequence of    *)
(* its characters 1, 2, ...; those of a label in brackets are 0.           *)
(***************************************************************************)
EXTENDS Integers, Sequences, SequencesExt, FiniteSets

CONSTANTS
  Length,    \* of the text
  Labels,    \* lengths of the labels
  MaxSpans

ConstantsOK == Length \in Nat /\ Labels \subseteq Nat /\ MaxSpans \in Nat

VARIABLES
  spans,  \* what the classifier found, in its order
  todo,   \* the spans not replaced yet
  result  \* the text so far

vars == <<spans, todo, result>>

Span == {s \in [start : 0..Length, end : 0..Length, label : Labels] : s.start < s.end}
Apart(s, t) == s.end <= t.start \/ t.end <= s.start

\* aggregation_strategy="simple" groups neighbouring tokens: spans are apart.
Found ==
  {found \in BoundedSeq(Span, MaxSpans) :
     \A i, j \in DOMAIN found : i # j => Apart(found[i], found[j])}

Text == [i \in 1..Length |-> i]

Init == spans \in Found /\ todo = spans /\ result = Text

-----------------------------------------------------------------------------
\* Mutant: the spans are taken in the order they were found.
NextFound == 1

\* sorted(spans, key=start, reverse=True) is stable: the first of the last.
Next1 ==
  CHOOSE i \in DOMAIN todo : \A j \in DOMAIN todo :
    todo[j].start < todo[i].start \/ (todo[j].start = todo[i].start /\ i <= j)

Marker(s) == [i \in 1..(s.label + 2) |-> 0]

(* One turn of the loop. *)
Redact ==
  /\ todo # <<>>
  /\ LET s == todo[Next1] IN
     result' = SubSeq(result, 1, s.start) \o Marker(s) \o SubSeq(result, s.end + 1, Len(result))
  /\ todo' = RemoveAt(todo, Next1)
  /\ UNCHANGED spans

Next == Redact
Spec == Init /\ [][Next]_vars

-----------------------------------------------------------------------------
Covered(i) == \E j \in DOMAIN spans : spans[j].start < i /\ i <= spans[j].end

\* The characters of the markers that stand for some spans.
Letters(S) == UNION {{s} \X (1..(s.label + 2)) : s \in S}

\* The marker of s is in the text, right of what was left of s and left of the rest.
Replaced(s) ==
  \E p \in 0..Len(result) :
    /\ p + s.label + 2 <= Len(result)
    /\ \A i \in 1..(s.label + 2) : result[p + i] = 0
    /\ \A i \in 1..p : result[i] <= s.start
    /\ \A i \in (p + s.label + 3)..Len(result) : result[i] = 0 \/ result[i] > s.end

(* filter.py:29, redacted_text is a "safe-to-send copy with each span      *)
(* replaced": when the loop has ended, no character of a span is left,     *)
(* every other one is, in its order, and each span has one marker, at its  *)
(* place.                                                                  *)
NothingPersonalSurvives ==
  todo = <<>> =>
    /\ Range(result) \ {0} = {c \in 1..Length : ~Covered(c)}
    /\ \A i, j \in DOMAIN result : i < j /\ result[i] # 0 /\ result[j] # 0 => result[i] < result[j]
    /\ \A j \in DOMAIN spans : Replaced(spans[j])
    /\ Cardinality({i \in DOMAIN result : result[i] = 0}) = Cardinality(Letters(Range(spans)))
=============================================================================
