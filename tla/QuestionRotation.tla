------------------------- MODULE QuestionRotation --------------------------
(***************************************************************************)
(* rotateQuestions of content/open-questions.ts: from the store's snapshot *)
(* to the question that is being asked, the ones that wait and the ones    *)
(* that are finished.  A snapshot is a partial map: a question outside its *)
(* domain has no recorded event and keeps its seeded state.                *)
(***************************************************************************)
EXTENDS QuestionLifecycle

CONSTANT Position   \* Position[q]: the index of q in the dataset

ASSUME PositionAssumption ==
  /\ Position \in [Questions -> Nat]
  /\ \A q, r \in Questions : Position[q] = Position[r] => q = r

Facts == [state : States, sequence : Nat]

EffectiveState(snapshot, q) ==
  IF q \in DOMAIN snapshot THEN snapshot[q].state ELSE Seeded[q]

OpenIn(snapshot) == {q \in Questions : EffectiveState(snapshot, q) = "open"}

\* MUTANT: the dataset's order alone, so that a reopened question takes its old place.
PrecedesByPosition(snapshot, q, r) == Position[q] < Position[r]

\* The comparison of the sort: group 0 by dataset index, group 1 by sequence.
\* Equal keys keep the dataset's order, because Array.prototype.sort is stable.
Precedes(snapshot, q, r) ==
  LET group(x) == IF x \in DOMAIN snapshot THEN 1 ELSE 0
      key(x)   == IF x \in DOMAIN snapshot THEN snapshot[x].sequence ELSE Position[x]
  IN  \/ group(q) < group(r)
      \/ group(q) = group(r) /\ key(q) < key(r)
      \/ group(q) = group(r) /\ key(q) = key(r) /\ Position[q] < Position[r]

\* The head of the sorted list: a singleton, or empty where the code has null.
Active(snapshot) ==
  {q \in OpenIn(snapshot) :
     \A r \in OpenIn(snapshot) \ {q} : Precedes(snapshot, q, r)}
=============================================================================
