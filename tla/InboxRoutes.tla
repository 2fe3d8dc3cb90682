---------------------------- MODULE InboxRoutes ----------------------------
(***************************************************************************)
(* The two POST routes as callers of a store: a request is given a receipt *)
(* and handed to appendIfAbsent, whose outcome is the answer.  Both stores *)
(* are modelled with it.                                                   *)
(***************************************************************************)
EXTENDS InboxPort

CONSTANT MaxReceipts   \* bound: how many requests are sent in all

ASSUME MaxReceiptsAssumption == MaxReceipts \in Nat

VARIABLES
  phase,        \* phase[c]: where appendIfAbsent of sender c stands
  sent,         \* sent[c]: the record the route built from the latest request
  answer,       \* answer[c]: what the route answered
  nextReceipt,  \* the receipt of the next request
  told          \* auxiliary: submissions with the receipts given for them

routeVars == <<phase, sent, answer, nextReceipt, told>>

NothingSent ==
  /\ phase = [c \in Senders |-> "idle"]
  /\ sent = [c \in Senders |-> NoRecord]
  /\ answer = [c \in Senders |-> Plain("none")]
  /\ nextReceipt = 1
  /\ told = {}

\* The route mints the receipt and hands the record to the store in one step.
Post(c, s, step) ==
  /\ phase[c] = "idle"
  /\ nextReceipt <= MaxReceipts
  /\ phase' = [phase EXCEPT ![c] = step]
  /\ sent' = [sent EXCEPT ![c] = [submission |-> s, receipt |-> nextReceipt]]
  /\ answer' = [answer EXCEPT ![c] = Plain("none")]
  /\ nextReceipt' = nextReceipt + 1
  /\ UNCHANGED told

\* The store's call goes on to its next step.
Step(c, step) ==
  /\ phase' = [phase EXCEPT ![c] = step]
  /\ UNCHANGED <<sent, answer, nextReceipt, told>>

Reply(c, a) ==
  /\ phase' = [phase EXCEPT ![c] = "idle"]
  /\ answer' = [answer EXCEPT ![c] = a]
  /\ told' = told \cup (IF a.kind \in {"stored", "kept"}
                          THEN {[submission |-> sent[c].submission, receipt |-> a.receipt]}
                          ELSE {})
  /\ UNCHANGED <<sent, nextReceipt>>

\* Records with a receipt that was minted.
Minted == [submission : Submissions, receipt : 1 .. nextReceipt - 1]

RoutesOK(steps) ==
  /\ phase \in [Senders -> {"idle"} \cup steps]
  /\ sent \in [Senders -> Minted \cup {NoRecord}]
  /\ answer \in [Senders -> Answers]
  /\ nextReceipt \in 1 .. MaxReceipts + 1
  /\ told \subseteq Minted

\* A request that is open has a record of its own.
BusyHasRecord == \A c \in Senders : phase[c] # "idle" => sent[c] \in Minted
=============================================================================
