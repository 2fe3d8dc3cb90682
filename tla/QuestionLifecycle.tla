------------------------- MODULE QuestionLifecycle -------------------------
(***************************************************************************)
(* The vocabulary of domain/questions and of the lifecycle port            *)
(* (application/questions/question-lifecycle): states, the requests the    *)
(* change route can be sent, the answers it gives.                         *)
(***************************************************************************)
EXTENDS Integers

CONSTANTS
  Questions,   \* the ids of the dataset (content/open-questions.ts)
  Callers,     \* adults, each with at most one request to the server in flight
  Seeded,      \* the state the dataset gives each question
  NoRequest    \* stands for the request of a caller that has not called yet

States == {"open", "closed"}

\* An action ("close", "reopen") names the state it produces, so a request is the
\* question, the state the adult saw, and the state wanted.  Nothing ties the last
\* two together before assertStorableLifecycleRequest.
Requests == [question : Questions, expected : States, next : States]

ASSUME SeededAssumption == Seeded \in [Questions -> States]
ASSUME NoRequestAssumption == NoRequest \notin Requests

Storable(r) == r.expected # r.next

\* 200 and 409 carry a state; 400 ("invalid") and 503 ("unavailable") carry none.
Answers ==
  [kind : {"applied", "stale"}, state : States]
    \cup [kind : {"none", "invalid", "unavailable"}, state : {"unknown"}]

Plain(kind) == [kind |-> kind, state |-> "unknown"]
Applied(s)  == [kind |-> "applied", state |-> s]
Stale(s)    == [kind |-> "stale", state |-> s]
=============================================================================
