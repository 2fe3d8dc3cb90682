------------------------- MODULE LifecycleRegister -------------------------
(***************************************************************************)
(* What the question lifecycle port promises to the adults who use it,     *)
(* whatever store is behind it (application/questions/question-lifecycle): *)
(* every question is a register holding "open" or "closed", and append is  *)
(* a compare-and-set on it that answers with one of four outcomes.         *)
(*                                                                         *)
(* A stale answer is not tied to one instant: the port only promises that  *)
(* the expectation was wrong at some moment of the call, and that the      *)
(* state it reports held at some (perhaps later) moment of the call.  An   *)
(* unavailable answer promises nothing: the change may have been made,     *)
(* may never be made, or may still be made after the answer.               *)
(***************************************************************************)
EXTENDS QuestionLifecycle

VARIABLES
  state,       \* state[q]: what the question is in now
  phase,       \* phase[c]: "idle", or "called" while a request is unanswered
  request,     \* request[c]: the caller's latest request
  answer,      \* answer[c]: the answer to it, Plain("none") while there is none
  held,        \* held[c]: the states the requested question was in since the call
  late         \* requests answered "unavailable" that may still take effect

vars == <<state, phase, request, answer, held, late>>

Init ==
  /\ state = Seeded
  /\ phase = [c \in Callers |-> "idle"]
  /\ request = [c \in Callers |-> NoRequest]
  /\ answer = [c \in Callers |-> Plain("none")]
  /\ held = [c \in Callers |-> {}]
  /\ late = {}

\* The request r changes its question; every open call about it sees the state.
Change(r) ==
  /\ state[r.question] = r.expected
  /\ r.expected # r.next
  /\ state' = [state EXCEPT ![r.question] = r.next]
  /\ held' = [d \in Callers |->
                IF phase[d] # "idle" /\ request[d].question = r.question
                  THEN held[d] \cup {r.next} ELSE held[d]]

Finish(c, a) ==
  /\ phase[c] = "called"
  /\ phase' = [phase EXCEPT ![c] = "idle"]
  /\ answer' = [answer EXCEPT ![c] = a]
  /\ UNCHANGED request

Call(c, r) ==
  /\ phase[c] = "idle"
  /\ phase' = [phase EXCEPT ![c] = "called"]
  /\ request' = [request EXCEPT ![c] = r]
  /\ answer' = [answer EXCEPT ![c] = Plain("none")]
  /\ held' = [held EXCEPT ![c] = {state[r.question]}]
  /\ UNCHANGED <<state, late>>

AnswerInvalid(c) ==
  /\ Finish(c, Plain("invalid"))
  /\ request[c].expected = request[c].next
  /\ UNCHANGED <<state, held, late>>

AnswerApplied(c) ==
  /\ Finish(c, Applied(request[c].next))
  /\ Change(request[c])
  /\ UNCHANGED late

AnswerStale(c) ==
  /\ \E s \in held[c] : Finish(c, Stale(s))
  /\ \E s \in held[c] : s # request[c].expected
  /\ UNCHANGED <<state, held, late>>

\* No effect, an effect nobody hears of, or an effect that is still to come.
AnswerUnavailable(c) ==
  /\ Finish(c, Plain("unavailable"))
  /\ \/ UNCHANGED <<state, held, late>>
     \/ Change(request[c]) /\ UNCHANGED late
     \/ /\ \E e \in late' : e.request = request[c] /\ late' = late \cup {e}
        /\ UNCHANGED <<state, held>>

LateEffect(e) ==
  /\ late' = late \ {e}
  /\ Change(e.request) \/ UNCHANGED <<state, held>>
  /\ UNCHANGED <<phase, request, answer>>

Next ==
  \/ \E c \in Callers :
       \/ \E r \in Requests : Call(c, r)
       \/ AnswerInvalid(c)
       \/ AnswerApplied(c)
       \/ AnswerStale(c)
       \/ AnswerUnavailable(c)
  \/ \E e \in late : LateEffect(e)

Spec == Init /\ [][Next]_vars

\* Every call is answered.
Answered == \A c \in Callers : phase[c] # "idle" ~> phase[c] = "idle"
=============================================================================
