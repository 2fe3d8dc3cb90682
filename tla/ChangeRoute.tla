---------------------------- MODULE ChangeRoute ----------------------------
(***************************************************************************)
(* The route that changes a question (api/admin/questions/[questionId])    *)
(* as the caller of a log: a request is handed to append, whose outcome is *)
(* the answer.  Both logs are modelled with it.                            *)
(***************************************************************************)
EXTENDS QuestionRotation

VARIABLES
  phase,     \* phase[c]: where the append of caller c stands
  request,   \* request[c]: the caller's latest request
  answer,    \* answer[c]: what the route answered to it
  held       \* auxiliary: the states its question was in since the call

NothingAsked ==
  /\ phase = [c \in Callers |-> "idle"]
  /\ request = [c \in Callers |-> NoRequest]
  /\ answer = [c \in Callers |-> Plain("none")]
  /\ held = [c \in Callers |-> {}]

\* The question of r is in state s.
Ask(c, r, s) ==
  /\ phase[c] = "idle"
  /\ phase' = [phase EXCEPT ![c] = "called"]
  /\ request' = [request EXCEPT ![c] = r]
  /\ answer' = [answer EXCEPT ![c] = Plain("none")]
  /\ held' = [held EXCEPT ![c] = {s}]

Reply(c, a) ==
  /\ phase' = [phase EXCEPT ![c] = "idle"]
  /\ answer' = [answer EXCEPT ![c] = a]

\* assertStorableLifecycleRequest throws before the store is touched: 400.
Refuse(c) ==
  /\ phase[c] = "called"
  /\ ~Storable(request[c])
  /\ Reply(c, Plain("invalid"))
  /\ UNCHANGED <<request, held>>

RouteOK(steps) ==
  /\ phase \in [Callers -> {"idle", "called"} \cup steps]
  /\ request \in [Callers -> Requests \cup {NoRequest}]
  /\ \A c \in Callers : phase[c] # "idle" => request[c] \in Requests
  /\ answer \in [Callers -> Answers]
  /\ held \in [Callers -> SUBSET States]
=============================================================================
