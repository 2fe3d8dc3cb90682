-------------------------- MODULE SubmissionInbox --------------------------
(***************************************************************************)
(* What the inbox port promises to the families that send answers,         *)
(* whatever store is behind it (application/submissions): put if absent.   *)
(* A submission has at most one record for ever; a 201 answer is the act   *)
(* of storing it, a 200 answer carries the receipt it already has.  A 503  *)
(* promises nothing: the record may be stored, or may still be.            *)
(***************************************************************************)
EXTENDS InboxPort

VARIABLES
  inbox,        \* inbox[s]: the record of s, or NoRecord
  phase,        \* phase[c]: "idle", or "called" while the request is unanswered
  sent,         \* sent[c]: the record built from the latest request of c
  answer,       \* answer[c]: the answer to it, Plain("none") while there is none
  nextReceipt,  \* the receipt the next request is given (a random UUID in the code)
  late          \* records answered "unavailable" that may still be stored

vars == <<inbox, phase, sent, answer, nextReceipt, late>>

Init ==
  /\ inbox = [s \in Submissions |-> NoRecord]
  /\ phase = [c \in Senders |-> "idle"]
  /\ sent = [c \in Senders |-> NoRecord]
  /\ answer = [c \in Senders |-> Plain("none")]
  /\ nextReceipt = 1
  /\ late = {}

Put(r) ==
  /\ inbox[r.submission] = NoRecord
  /\ inbox' = [inbox EXCEPT ![r.submission] = r]

Finish(c, a) ==
  /\ phase' = [phase EXCEPT ![c] = "idle"]
  /\ answer' = [answer EXCEPT ![c] = a]
  /\ UNCHANGED <<sent, nextReceipt>>

Send(c, s) ==
  /\ phase[c] = "idle"
  /\ phase' = [phase EXCEPT ![c] = "called"]
  /\ sent' = [sent EXCEPT ![c] = [submission |-> s, receipt |-> nextReceipt]]
  /\ answer' = [answer EXCEPT ![c] = Plain("none")]
  /\ nextReceipt' = nextReceipt + 1
  /\ UNCHANGED <<inbox, late>>

AnswerStored(c) ==
  /\ phase[c] = "called"
  /\ Finish(c, StoredAs(sent[c]))
  /\ Put(sent[c])
  /\ UNCHANGED late

AnswerKept(c) ==
  /\ phase[c] = "called"
  /\ inbox[sent[c].submission] # NoRecord
  /\ Finish(c, KeptAs(inbox[sent[c].submission]))
  /\ UNCHANGED <<inbox, late>>

AnswerUnavailable(c) ==
  /\ phase[c] = "called"
  /\ Finish(c, Plain("unavailable"))
  /\ \/ UNCHANGED <<inbox, late>>
     \/ Put(sent[c]) /\ UNCHANGED late
     \/ late' = late \cup {sent[c]} /\ UNCHANGED inbox

LateEffect(r) ==
  /\ late' = late \ {r}
  /\ Put(r) \/ UNCHANGED inbox
  /\ UNCHANGED <<phase, sent, answer, nextReceipt>>

Next ==
  \/ \E c \in Senders :
       \/ \E s \in Submissions : Send(c, s)
       \/ AnswerStored(c)
       \/ AnswerKept(c)
       \/ AnswerUnavailable(c)
  \/ \E r \in late : LateEffect(r)

Spec == Init /\ [][Next]_vars

\* Every request is answered.
Answered == \A c \in Senders : phase[c] # "idle" ~> phase[c] = "idle"
=============================================================================
