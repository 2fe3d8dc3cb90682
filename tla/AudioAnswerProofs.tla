-------------------------- MODULE AudioAnswerProofs --------------------------
(***************************************************************************)
(* "Angekommen" is said of what has arrived, and a recording is one        *)
(* answer, for every set of questions and any number of recordings and of  *)
(* attempts.                                                               *)
(*                                                                         *)
(* Two things carry this.  A recording is bound once, so that every        *)
(* attempt and every record of it has its one submission: put if absent    *)
(* then keeps one row.  And of the attempts somebody still waits for, no   *)
(* two have the same generation, and the one of the present generation is  *)
(* what the page is sending.                                               *)
(***************************************************************************)
EXTENDS AudioAnswer, TLAPS

Sends == [phase : {"idle", "sending", "sent", "failed"}, recording : Nat,
          receipt : 0 .. MaxAttempts]

Identities == [recording : Nat, submission : Nat, question : Questions \cup {NoQuestion}]

Attempts == [attempt : 1 .. MaxAttempts, generation : Nat, step : Steps, waiting : BOOLEAN,
             receipt : 0 .. MaxAttempts, recording : Recordings, submission : Nat,
             question : Questions]

Rows == [submission : Nat, recording : Recordings, question : Questions,
         receipt : 1 .. MaxAttempts]

PageOK ==
  /\ asked \in Questions \cup {NoQuestion} /\ capturing \in Questions \cup {NoQuestion}
  /\ recordings \in 0 .. MaxRecordings /\ recording \in 0 .. recordings
  /\ spokenFor \in [Recordings -> Questions \cup {NoQuestion}]

\* A capture has a question in front of it, and a recording still to come.
CaptureOK == capturing # NoQuestion => asked # NoQuestion /\ recordings < MaxRecordings

\* The identity is the one minted when its recording appeared.
IdentityOK ==
  /\ identity \in Identities
  /\ identity.submission = identity.recording /\ identity.recording <= recordings
  /\ identity.recording # 0 => identity.question \in Questions

SenderOK ==
  /\ send \in Sends /\ send.recording <= recordings
  /\ attempted \in 0 .. MaxAttempts
  /\ generation \in Nat /\ generation <= recordings + attempted

\* Every attempt carries the submission of its recording, and while that recording is the
\* one bound, its question.
AttemptsOK ==
  /\ attempts \subseteq Attempts
  /\ \A a \in attempts :
       /\ a.submission = a.recording /\ a.recording <= recordings
       /\ a.recording = identity.recording => a.question = identity.question

\* So does every row; and there is one of a submission.
RowsOK ==
  /\ rows \subseteq Rows
  /\ \A r \in rows :
       /\ r.submission = r.recording /\ r.recording <= recordings
       /\ r.recording = identity.recording => r.question = identity.question
  /\ \A r, s \in rows : r.submission = s.submission => r = s

StoredAs(n, receipt) == \E r \in rows : r.recording = n /\ r.receipt = receipt

\* A receipt on its way to the page is the one the recording is stored under.
ReceiptsOK == \A a \in attempts : a.step = "answered" /\ a.receipt # 0 =>
                StoredAs(a.recording, a.receipt)

\* Of the attempts that are waited for, each generation has one, none is of a generation
\* to come, and the one of the present generation is what the page is sending.
WaitingOK ==
  /\ \A a \in attempts : a.waiting => a.generation <= generation
  /\ \A a, b \in attempts :
       a.waiting /\ b.waiting /\ a.generation = b.generation => a = b
  /\ \A a \in attempts : a.waiting /\ a.generation = generation =>
       send.phase = "sending" /\ a.recording = send.recording

SendingOK ==
  send.phase = "sending" => \E a \in attempts : a.waiting /\ a.generation = generation

IInv ==
  /\ PageOK /\ CaptureOK /\ IdentityOK /\ SenderOK
  /\ AttemptsOK /\ RowsOK /\ ReceiptsOK /\ ArrivedIsStored
  /\ WaitingOK /\ SendingOK

----------------------------------------------------------------------------
(* The page *)

LEMMA InitInv == Init => IInv
<1> SUFFICES ASSUME Init PROVE IInv
  OBVIOUS
<1>1. PageOK /\ CaptureOK
  BY NoQuestionAssumption, BoundsAssumption DEF Init, PageOK, CaptureOK, Recordings
<1>2. IdentityOK
  BY BoundsAssumption DEF Init, IdentityOK, NoIdentity, Identities
<1>3. SenderOK
  BY BoundsAssumption DEF Init, SenderOK, Idle, Sending, Sends
<1>4. AttemptsOK /\ RowsOK /\ ReceiptsOK
  BY DEF Init, AttemptsOK, RowsOK, ReceiptsOK
<1>5. ArrivedIsStored /\ WaitingOK /\ SendingOK
  BY DEF Init, ArrivedIsStored, WaitingOK, SendingOK, Idle, Sending
<1> QED BY <1>1, <1>2, <1>3, <1>4, <1>5 DEF IInv

\* A step that leaves the sender, its attempts, the rows and the number of recordings.
LEMMA PageStep ==
  ASSUME IInv, PageOK', CaptureOK',
         UNCHANGED <<recordings, sender, attempts, attempted, rows>>
  PROVE  IInv'
<1> QED BY DEF IInv, sender, IdentityOK, SenderOK, AttemptsOK, RowsOK, ReceiptsOK, StoredAs,
               ArrivedIsStored, WaitingOK, SendingOK

LEMMA CaptureInv ==
  ASSUME IInv, StartRecording \/ CaptureFails \/ Discard PROVE IInv'
<1>1. PageOK'
  BY DEF IInv, PageOK, StartRecording, CaptureFails, Discard
<1>2. CaptureOK'
  BY DEF IInv, PageOK, CaptureOK, StartRecording, CaptureFails, Discard
<1>3. UNCHANGED <<recordings, sender, attempts, attempted, rows>>
  BY DEF StartRecording, CaptureFails, Discard
<1> QED BY <1>1, <1>2, <1>3, PageStep

\* A recording appears: it is a number nothing is bound to yet, and whoever waits for an
\* older attempt waits for a generation that is over.
LEMMA AppearInv ==
  ASSUME IInv, NEW q \in Questions, Appear(q), asked \in Questions,
         recordings < MaxRecordings
  PROVE  IInv'
<1>1. PICK n : n = recordings + 1
  OBVIOUS
<1>2. n \in Recordings /\ n \in Nat /\ n = recordings + 1 /\ recordings' = n
  BY <1>1, BoundsAssumption DEF IInv, PageOK, Recordings, Appear
<1>3. /\ recording' = n /\ spokenFor' = [spokenFor EXCEPT ![n] = q]
      /\ capturing' = NoQuestion
      /\ identity' = [recording |-> n, submission |-> n, question |-> asked]
      /\ generation' = generation + 1
      /\ send' = [phase |-> "idle", recording |-> n, receipt |-> 0]
      /\ UNCHANGED <<asked, attempts, attempted, rows>>
  BY <1>2 DEF Appear, Prepare, Sending
<1>4. PageOK' /\ CaptureOK'
  BY <1>2, <1>3, BoundsAssumption DEF IInv, PageOK, CaptureOK, Recordings
<1>5. IdentityOK'
  BY <1>2, <1>3 DEF IdentityOK, Identities
<1>6. SenderOK'
  BY <1>2, <1>3, BoundsAssumption DEF IInv, SenderOK, PageOK, Sends
<1>7. \A a \in attempts : a.recording \in Nat /\ a.recording < n
  BY <1>2 DEF IInv, AttemptsOK, Attempts, Recordings, PageOK
<1>8. \A r \in rows : r.recording \in Nat /\ r.recording < n
  BY <1>2 DEF IInv, RowsOK, Rows, Recordings, PageOK
<1>9. AttemptsOK'
  BY <1>2, <1>3, <1>7 DEF IInv, AttemptsOK
<1>10. RowsOK'
  BY <1>2, <1>3, <1>8 DEF IInv, RowsOK
<1>11. ReceiptsOK' /\ ArrivedIsStored' /\ SendingOK'
  BY <1>3 DEF IInv, ReceiptsOK, StoredAs, ArrivedIsStored, SendingOK
<1>12. WaitingOK'
  <2>1. \A a \in attempts : a.waiting => a.generation \in Nat /\ a.generation < generation'
    BY <1>3 DEF IInv, WaitingOK, AttemptsOK, Attempts, SenderOK
  <2>2. \A a \in attempts : a.waiting => a.generation <= generation' /\ a.generation # generation'
    BY <1>3, <2>1 DEF IInv, SenderOK
  <2> QED BY <1>3, <2>2 DEF IInv, WaitingOK
<1> QED BY <1>4, <1>5, <1>6, <1>9, <1>10, <1>11, <1>12 DEF IInv

LEMMA FinishRecordingInv ==
  ASSUME IInv, FinishRecording PROVE IInv'
<1>1. PICK q : q = capturing
  OBVIOUS
<1>2. q \in Questions /\ asked \in Questions /\ recordings < MaxRecordings /\ Appear(q)
  BY <1>1 DEF FinishRecording, IInv, CaptureOK, PageOK
<1> QED BY <1>2, AppearInv

LEMMA ChooseFileInv ==
  ASSUME IInv, ChooseFile PROVE IInv'
<1>1. PICK q : q = asked
  OBVIOUS
<1>2. q \in Questions /\ asked \in Questions /\ recordings < MaxRecordings /\ Appear(q)
  BY <1>1 DEF ChooseFile, IInv, PageOK
<1> QED BY <1>2, AppearInv

\* Another question, or none: then nobody waits for what is under way.
LEMMA RotateInv ==
  ASSUME IInv, NEW q \in Questions \cup {NoQuestion}, Rotate(q) PROVE IInv'
<1>1. CASE q # NoQuestion
  <2>1. asked' = q /\ UNCHANGED <<recording, capturing, recordings, spokenFor, sender, attempts,
                                  attempted, rows>>
    BY <1>1 DEF Rotate
  <2>2. PageOK' /\ CaptureOK'
    BY <1>1, <2>1 DEF IInv, PageOK, CaptureOK
  <2> QED BY <2>1, <2>2, PageStep
<1>2. CASE q = NoQuestion
  <2>1. /\ asked' = NoQuestion /\ recording' = 0 /\ capturing' = NoQuestion
        /\ identity' = NoIdentity /\ send' = Idle /\ generation' = 0
        /\ attempts' = {[a EXCEPT !.waiting = FALSE] : a \in attempts}
        /\ UNCHANGED <<recordings, spokenFor, attempted, rows>>
    BY <1>2 DEF Rotate
  <2>2. PageOK' /\ CaptureOK'
    BY <2>1 DEF IInv, PageOK, CaptureOK
  <2>3. IdentityOK' /\ SenderOK'
    BY <2>1, BoundsAssumption
    DEF IInv, PageOK, IdentityOK, SenderOK, NoIdentity, Identities, Idle, Sending, Sends
  <2>4. \A b \in attempts' : b \in Attempts /\ ~b.waiting /\ \E a \in attempts :
          /\ b.submission = a.submission /\ b.recording = a.recording
          /\ b.step = a.step /\ b.receipt = a.receipt
    BY <2>1 DEF IInv, AttemptsOK, Attempts
  <2>5. \A b \in attempts' : b.recording # identity'.recording
    BY <2>1, <2>4 DEF Attempts, Recordings, NoIdentity
  <2>6. AttemptsOK'
    BY <2>1, <2>4, <2>5 DEF IInv, AttemptsOK
  <2>7. RowsOK'
    BY <2>1 DEF IInv, RowsOK, Rows, Recordings, NoIdentity
  <2>8. ReceiptsOK'
    BY <2>1, <2>4 DEF IInv, ReceiptsOK, StoredAs
  <2>9. ArrivedIsStored' /\ SendingOK'
    BY <2>1 DEF ArrivedIsStored, SendingOK, Idle, Sending
  <2>10. WaitingOK'
    BY <2>4 DEF WaitingOK
  <2> QED BY <2>2, <2>3, <2>6, <2>7, <2>8, <2>9, <2>10 DEF IInv
<1> QED BY <1>1, <1>2

----------------------------------------------------------------------------
(* One attempt *)

\* A new attempt has a generation of its own, and everything it carries from the identity.
LEMMA SendInv ==
  ASSUME IInv, Send PROVE IInv'
<1>1. PICK w : w = Wire(attempted')
  OBVIOUS
<1>2. PICK n \in Recordings : n = recording /\ n = identity.recording /\ n <= recordings
  <2>1. recording # 0 /\ identity.recording = recording
    BY DEF Send
  <2>2. recordings \in 0 .. MaxRecordings /\ recording \in 0 .. recordings
    BY DEF IInv, PageOK
  <2>3. recording \in Recordings /\ recording <= recordings
    BY <2>1, <2>2, BoundsAssumption DEF Recordings
  <2> QED BY <2>1, <2>3
<1>3. PICK k \in 1 .. MaxAttempts : k = attempted + 1 /\ attempted' = k
  BY BoundsAssumption DEF Send, IInv, SenderOK
<1>4. PICK g \in Nat : g = generation + 1 /\ generation' = g
  BY DEF Send, IInv, SenderOK
<1>5. w = [attempt |-> k, generation |-> g, step |-> "sniffing", waiting |-> TRUE,
           receipt |-> 0, recording |-> n, submission |-> n, question |-> identity.question]
  BY <1>1, <1>2, <1>3, <1>4 DEF Wire, IInv, IdentityOK
<1>6. /\ send' = [phase |-> "sending", recording |-> n, receipt |-> 0]
      /\ attempts' = attempts \cup {w}
      /\ UNCHANGED <<page, identity, rows>>
  BY <1>1, <1>2 DEF Send, Sending
<1>7. w \in Attempts
  BY <1>2, <1>5, BoundsAssumption DEF Attempts, Steps, IInv, IdentityOK, Recordings
<1>8. PageOK' /\ CaptureOK' /\ IdentityOK'
  BY <1>6 DEF IInv, PageOK, CaptureOK, IdentityOK, page
<1>9. SenderOK'
  BY <1>2, <1>3, <1>4, <1>6, BoundsAssumption
  DEF IInv, SenderOK, Sends, page, Recordings, PageOK
<1>10. AttemptsOK'
  <2>1. /\ w.submission = w.recording /\ w.recording <= recordings
        /\ w.question = identity.question
    BY <1>2, <1>5
  <2> QED BY <2>1, <1>6, <1>7 DEF IInv, AttemptsOK, page
<1>11. RowsOK'
  BY <1>6 DEF IInv, RowsOK, page
<1>12. ReceiptsOK' /\ ArrivedIsStored'
  BY <1>5, <1>6 DEF IInv, ReceiptsOK, StoredAs, ArrivedIsStored
<1>13. \A a \in attempts : a.waiting => a.generation \in Nat /\ a.generation < g
  BY <1>4 DEF IInv, WaitingOK, AttemptsOK, Attempts, SenderOK
<1>14. /\ w.waiting /\ w.generation = g /\ w.recording = n
       /\ send'.phase = "sending" /\ send'.recording = n
  BY <1>5, <1>6
<1>15. WaitingOK'
  <2>1. \A a \in attempts' : a = w \/ a \in attempts
    BY <1>6
  <2>2. \A a \in attempts' : a.waiting => a.generation <= g /\ (a.generation = g => a = w)
    BY <1>4, <1>13, <1>14, <2>1
  <2>3. \A a, b \in attempts' : a.waiting /\ b.waiting /\ a.generation = b.generation => a = b
    BY <1>14, <2>1, <2>2 DEF IInv, WaitingOK
  <2> QED BY <1>4, <1>14, <2>2, <2>3 DEF WaitingOK
<1>16. SendingOK'
  BY <1>4, <1>6, <1>14 DEF SendingOK
<1> QED BY <1>8, <1>9, <1>10, <1>11, <1>12, <1>15, <1>16 DEF IInv

\* b is what a has become: the same attempt, which nobody waits for who did not before.
Becomes(a, b) ==
  /\ b \in Attempts
  /\ b.generation = a.generation /\ b.recording = a.recording
  /\ b.submission = a.submission /\ b.question = a.question
  /\ b.waiting => a.waiting

\* What an attempt that moves on, or ends, keeps.
LEMMA MoveKeeps ==
  ASSUME IInv, NEW a \in attempts, NEW b, Becomes(a, b),
         attempts' \subseteq (attempts \ {a}) \cup {b},
         UNCHANGED <<page, identity, generation, attempted>>
  PROVE  /\ PageOK' /\ CaptureOK' /\ IdentityOK' /\ AttemptsOK'
         /\ \A x \in attempts' : x.waiting => x.generation <= generation'
         /\ \A x, y \in attempts' :
              x.waiting /\ y.waiting /\ x.generation = y.generation => x = y
<1>1. PageOK' /\ CaptureOK' /\ IdentityOK'
  BY DEF IInv, PageOK, CaptureOK, IdentityOK, page
<1>2. AttemptsOK'
  BY DEF IInv, AttemptsOK, Becomes, page
<1>3. \A x \in attempts' : x.waiting => x.generation <= generation'
  BY DEF IInv, WaitingOK, Becomes
<1>4. ASSUME NEW x \in attempts', NEW y \in attempts', x.waiting, y.waiting,
             x.generation = y.generation
      PROVE  x = y
  <2>1. CASE x = b /\ y # b
    <3>1. y \in attempts /\ y # a /\ a.waiting /\ a.generation = y.generation
      BY <1>4, <2>1 DEF Becomes
    <3> QED BY <1>4, <3>1 DEF IInv, WaitingOK
  <2>2. CASE y = b /\ x # b
    <3>1. x \in attempts /\ x # a /\ a.waiting /\ a.generation = x.generation
      BY <1>4, <2>2 DEF Becomes
    <3> QED BY <1>4, <3>1 DEF IInv, WaitingOK
  <2>3. CASE x # b /\ y # b
    BY <1>4, <2>3 DEF IInv, WaitingOK
  <2> QED BY <2>1, <2>2, <2>3
<1> QED BY <1>1, <1>2, <1>3, <1>4

\* An attempt moves on and the page does not change: it is waited for as before, or was
\* not waited for.
LEMMA MovesOnInv ==
  ASSUME IInv, NEW a \in attempts, NEW b, Becomes(a, b),
         attempts' \subseteq (attempts \ {a}) \cup {b},
         attempts \ {a} \subseteq attempts',
         a.waiting => b.waiting /\ b \in attempts',
         UNCHANGED <<page, sender, attempted>>,
         RowsOK', rows \subseteq rows',
         b \in attempts' /\ b.step = "answered" /\ b.receipt # 0 =>
           StoredAs(b.recording, b.receipt)'
  PROVE  IInv'
<1>1. /\ PageOK' /\ CaptureOK' /\ IdentityOK' /\ AttemptsOK'
      /\ \A x \in attempts' : x.waiting => x.generation <= generation'
      /\ \A x, y \in attempts' :
           x.waiting /\ y.waiting /\ x.generation = y.generation => x = y
  BY MoveKeeps DEF sender
<1>2. SenderOK'
  BY DEF IInv, SenderOK, sender, page
<1>3. ReceiptsOK' /\ ArrivedIsStored'
  BY DEF IInv, ReceiptsOK, StoredAs, ArrivedIsStored, sender
<1>4. \A x \in attempts' : x.waiting /\ x.generation = generation' =>
        send'.phase = "sending" /\ x.recording = send'.recording
  BY DEF IInv, WaitingOK, Becomes, sender
<1>5. SendingOK'
  BY DEF IInv, SendingOK, Becomes, sender
<1> QED BY <1>1, <1>2, <1>3, <1>4, <1>5 DEF IInv, WaitingOK

\* An attempt ends for the page: it settles with an outcome, and if it is left it is one
\* that nobody waits for.
LEMMA SettlesInv ==
  ASSUME IInv, NEW a \in attempts, NEW b, Becomes(a, b), ~b.waiting, b.step # "answered",
         attempts' \subseteq (attempts \ {a}) \cup {b},
         attempts \ {a} \subseteq attempts',
         NEW outcome \in Sends, Settle(a, outcome), outcome.phase # "sending",
         outcome.recording = a.recording,
         outcome.phase = "sent" => StoredAs(outcome.recording, outcome.receipt),
         UNCHANGED <<page, identity, generation, attempted, rows>>
  PROVE  IInv'
<1>1. /\ PageOK' /\ CaptureOK' /\ IdentityOK' /\ AttemptsOK'
      /\ \A x \in attempts' : x.waiting => x.generation <= generation'
      /\ \A x, y \in attempts' :
           x.waiting /\ y.waiting /\ x.generation = y.generation => x = y
  BY MoveKeeps
<1>2. RowsOK' /\ ReceiptsOK'
  BY DEF IInv, RowsOK, ReceiptsOK, StoredAs, page
<1>3. CASE a.waiting /\ a.generation = generation
  <2>1. send' = outcome
    BY <1>3 DEF Settle
  <2>2. SenderOK' /\ ArrivedIsStored' /\ SendingOK'
    BY <2>1 DEF IInv, SenderOK, AttemptsOK, ArrivedIsStored, StoredAs, SendingOK, page
  <2>3. \A x \in attempts' : ~(x.waiting /\ x.generation = generation')
    BY <1>3 DEF IInv, WaitingOK
  <2> QED BY <1>1, <1>2, <2>2, <2>3 DEF IInv, WaitingOK
<1>4. CASE ~(a.waiting /\ a.generation = generation)
  <2>1. send' = send
    BY <1>4 DEF Settle
  <2>2. SenderOK' /\ ArrivedIsStored' /\ SendingOK'
    BY <1>4, <2>1 DEF IInv, SenderOK, ArrivedIsStored, SendingOK, page
  <2>3. \A x \in attempts' : x.waiting /\ x.generation = generation' =>
          send'.phase = "sending" /\ x.recording = send'.recording
    BY <2>1 DEF IInv, WaitingOK
  <2> QED BY <1>1, <1>2, <2>2, <2>3 DEF IInv, WaitingOK
<1> QED BY <1>3, <1>4

LEMMA FailedIsAnOutcome ==
  ASSUME IInv, NEW a \in attempts
  PROVE  /\ Failed(a) \in Sends /\ Failed(a).phase = "failed"
         /\ Failed(a).recording = a.recording
<1> QED BY BoundsAssumption DEF Failed, Sending, Sends, IInv, AttemptsOK, Attempts, Recordings

\* An attempt that ends becomes nothing; this stands for it where a lemma wants a b.
LEMMA Gone ==
  ASSUME IInv, NEW a \in attempts
  PROVE  \E b : /\ Becomes(a, b) /\ ~b.waiting /\ b.step = "posted" /\ b.receipt = a.receipt
                /\ b = [a EXCEPT !.waiting = FALSE, !.step = "posted"]
<1>1. PICK b : b = [a EXCEPT !.waiting = FALSE, !.step = "posted"]
  OBVIOUS
<1>2. a \in Attempts
  BY DEF IInv, AttemptsOK
<1>3. Becomes(a, b) /\ ~b.waiting /\ b.step = "posted" /\ b.receipt = a.receipt
  BY <1>1, <1>2 DEF Becomes, Attempts, Steps
<1> QED BY <1>1, <1>3

LEMMA RefuseLocallyInv ==
  ASSUME IInv, NEW a \in attempts, RefuseLocally(a) PROVE IInv'
<1>1. PICK b : Becomes(a, b) /\ ~b.waiting /\ b.step = "posted"
  BY Gone
<1>2. PICK o \in Sends : o = Failed(a) /\ o.phase = "failed" /\ o.recording = a.recording
  BY FailedIsAnOutcome
<1> QED BY <1>1, <1>2, SettlesInv DEF RefuseLocally

LEMMA PostInv ==
  ASSUME IInv, NEW a \in attempts, Post(a) PROVE IInv'
<1>1. PICK b : b = [a EXCEPT !.step = "posted"]
  OBVIOUS
<1>2. a \in Attempts
  BY DEF IInv, AttemptsOK
<1>3. Becomes(a, b) /\ b.step = "posted" /\ b.waiting = a.waiting
  BY <1>1, <1>2 DEF Becomes, Attempts, Steps
<1>4. attempts' = (attempts \ {a}) \cup {b} /\ UNCHANGED <<page, sender, attempted, rows>>
  BY <1>1 DEF Post
<1>5. RowsOK'
  BY <1>4 DEF IInv, RowsOK, page, sender
<1> QED BY <1>3, <1>4, <1>5, MovesOnInv

LEMMA LoseInv ==
  ASSUME IInv, NEW a \in attempts, Lose(a) PROVE IInv'
<1>1. PICK b : Becomes(a, b) /\ b.step = "posted"
  BY Gone
<1>2. attempts' = attempts \ {a} /\ ~a.waiting /\ UNCHANGED <<page, sender, attempted, rows>>
  BY DEF Lose
<1>3. RowsOK'
  BY <1>2 DEF IInv, RowsOK, page, sender
<1> QED BY <1>1, <1>2, <1>3, MovesOnInv

\* Put if absent: one row of a submission, for the question it was bound to.
LEMMA StoredKeeps ==
  ASSUME IInv, NEW a \in attempts, rows' \in {rows, Stored(a)},
         UNCHANGED <<page, sender>>
  PROVE  RowsOK' /\ rows \subseteq rows'
<1>1. a \in Attempts /\ a.submission = a.recording /\ a.recording <= recordings
      /\ (a.recording = identity.recording => a.question = identity.question)
  BY DEF IInv, AttemptsOK
<1>2. PICK r : r = Record(a)
  OBVIOUS
<1>3. /\ r \in Rows /\ r.submission = a.submission /\ r.recording = a.recording
      /\ r.question = a.question
  BY <1>1, <1>2 DEF Record, Rows, Attempts
<1>4. rows' = rows \/ (rows' = rows \cup {r} /\ \A s \in rows : s.submission # r.submission)
  BY <1>2, <1>3 DEF Stored, Held
<1>5. RowsOK'
  BY <1>1, <1>3, <1>4 DEF IInv, RowsOK, page, sender
<1> QED BY <1>4, <1>5

LEMMA AnsweredBecomes ==
  ASSUME IInv, NEW a \in attempts, NEW receipt \in 0 .. MaxAttempts, Answered(a, receipt)
  PROVE  \E b : /\ Becomes(a, b) /\ b.waiting = a.waiting
                /\ b.step = "answered" /\ b.receipt = receipt
                /\ attempts' \subseteq (attempts \ {a}) \cup {b}
                /\ attempts \ {a} \subseteq attempts'
                /\ a.waiting => b \in attempts'
<1>1. PICK b : b = [a EXCEPT !.step = "answered", !.receipt = receipt]
  OBVIOUS
<1>2. a \in Attempts
  BY DEF IInv, AttemptsOK
<1>3. /\ Becomes(a, b) /\ b.waiting = a.waiting
      /\ b.step = "answered" /\ b.receipt = receipt
  BY <1>1, <1>2 DEF Becomes, Attempts, Steps
<1>4. attempts' = (attempts \ {a}) \cup {x \in {b} : a.waiting}
  BY <1>1 DEF Answered
<1> QED BY <1>3, <1>4

LEMMA HandleInv ==
  ASSUME IInv, NEW a \in attempts, Handle(a) PROVE IInv'
<1>1. rows' = Stored(a) /\ UNCHANGED <<page, sender, attempted>>
  BY DEF Handle
<1>2. RowsOK' /\ rows \subseteq rows'
  BY <1>1, StoredKeeps
<1>3. PICK r \in (IF Held(a) = {} THEN {Record(a)} ELSE Held(a)) : Answered(a, r.receipt)
  BY DEF Handle
<1>4. r \in rows' /\ r.recording = a.recording /\ r.receipt \in 1 .. MaxAttempts
  <2>1. a \in Attempts /\ a.submission = a.recording
    BY DEF IInv, AttemptsOK
  <2>2. CASE Held(a) = {}
    BY <1>1, <1>3, <2>1, <2>2 DEF Stored, Record, Attempts
  <2>3. CASE Held(a) # {}
    BY <1>1, <1>3, <2>1, <2>3 DEF Stored, Held, IInv, RowsOK, Rows
  <2> QED BY <2>2, <2>3
<1>5. PICK k \in 0 .. MaxAttempts : k = r.receipt /\ Answered(a, k)
  BY <1>3, <1>4
<1>6. PICK b : /\ Becomes(a, b) /\ b.waiting = a.waiting
               /\ b.step = "answered" /\ b.receipt = k
               /\ attempts' \subseteq (attempts \ {a}) \cup {b}
               /\ attempts \ {a} \subseteq attempts'
               /\ a.waiting => b \in attempts'
  BY <1>5, AnsweredBecomes
<1>7. StoredAs(b.recording, b.receipt)'
  BY <1>4, <1>5, <1>6 DEF StoredAs, Becomes
<1> QED BY <1>1, <1>2, <1>6, <1>7, MovesOnInv

LEMMA RefuseInv ==
  ASSUME IInv, NEW a \in attempts, Refuse(a) PROVE IInv'
<1>1. rows' \in {rows, Stored(a)} /\ Answered(a, 0) /\ UNCHANGED <<page, sender, attempted>>
  BY DEF Refuse
<1>2. RowsOK' /\ rows \subseteq rows'
  BY <1>1, StoredKeeps
<1>3. 0 \in 0 .. MaxAttempts
  BY BoundsAssumption
<1>4. PICK b : /\ Becomes(a, b) /\ b.waiting = a.waiting
               /\ b.step = "answered" /\ b.receipt = 0
               /\ attempts' \subseteq (attempts \ {a}) \cup {b}
               /\ attempts \ {a} \subseteq attempts'
               /\ a.waiting => b \in attempts'
  BY <1>1, <1>3, AnsweredBecomes
<1> QED BY <1>1, <1>2, <1>4, MovesOnInv

LEMMA AnswerInv ==
  ASSUME IInv, NEW a \in attempts, Answer(a) PROVE IInv'
<1>1. PICK b : Becomes(a, b) /\ ~b.waiting /\ b.step = "posted"
  BY Gone
<1>2. /\ attempts' = attempts \ {a} /\ a.step = "answered"
      /\ UNCHANGED <<page, identity, generation, attempted, rows>>
  BY DEF Answer
<1>3. CASE a.receipt = 0
  <2>1. PICK o \in Sends : o = Failed(a) /\ o.phase = "failed" /\ o.recording = a.recording
    BY FailedIsAnOutcome
  <2> QED BY <1>1, <1>2, <1>3, <2>1, SettlesInv DEF Answer
<1>4. CASE a.receipt # 0
  <2>1. PICK o : o = Sending("sent", a.recording, a.receipt)
    OBVIOUS
  <2>2. /\ o \in Sends /\ o.phase = "sent" /\ o.recording = a.recording
        /\ o.receipt = a.receipt
    BY <2>1 DEF Sending, Sends, IInv, AttemptsOK, Attempts, Recordings
  <2>3. StoredAs(o.recording, o.receipt)
    BY <1>2, <1>4, <2>2 DEF IInv, ReceiptsOK
  <2>4. Settle(a, o)
    BY <1>4, <2>1 DEF Answer
  <2> QED BY <1>1, <1>2, <2>2, <2>3, <2>4, SettlesInv
<1> QED BY <1>3, <1>4

LEMMA TimeoutInv ==
  ASSUME IInv, NEW a \in attempts, Timeout(a) PROVE IInv'
<1>1. PICK b : /\ Becomes(a, b) /\ ~b.waiting /\ b.step = "posted"
               /\ b = [a EXCEPT !.waiting = FALSE, !.step = "posted"]
  BY Gone
<1>2. attempts' \subseteq (attempts \ {a}) \cup {b} /\ attempts \ {a} \subseteq attempts'
  <2>1. a.step = "posted" => [a EXCEPT !.waiting = FALSE] = b
    BY <1>1 DEF IInv, AttemptsOK, Attempts
  <2> QED BY <2>1 DEF Timeout
<1>3. PICK o \in Sends : o = Failed(a) /\ o.phase = "failed" /\ o.recording = a.recording
  BY FailedIsAnOutcome
<1> QED BY <1>1, <1>2, <1>3, SettlesInv DEF Timeout

LEMMA StepInv == IInv /\ [Next]_vars => IInv'
<1> SUFFICES ASSUME IInv, [Next]_vars PROVE IInv'
  OBVIOUS
<1>1. CASE StartRecording \/ CaptureFails \/ Discard
  BY <1>1, CaptureInv
<1>2. CASE FinishRecording \/ ChooseFile \/ Send
  BY <1>2, FinishRecordingInv, ChooseFileInv, SendInv
<1>3. ASSUME NEW q \in Questions \cup {NoQuestion}, Rotate(q) PROVE IInv'
  BY <1>3, RotateInv
<1>4. ASSUME NEW a \in attempts,
             \/ RefuseLocally(a) \/ Post(a) \/ Handle(a) \/ Refuse(a)
             \/ Answer(a) \/ Timeout(a) \/ Lose(a)
      PROVE  IInv'
  BY <1>4, RefuseLocallyInv, PostInv, HandleInv, RefuseInv, AnswerInv, TimeoutInv, LoseInv
<1>5. CASE UNCHANGED vars
  BY <1>5, PageStep DEF vars, page, IInv, PageOK, CaptureOK
<1> QED BY <1>1, <1>2, <1>3, <1>4, <1>5 DEF Next

LEMMA Invariant == Spec => []IInv
<1> QED BY InitInv, StepInv, PTL DEF Spec

----------------------------------------------------------------------------
(* What follows *)

LEMMA InvTypes == IInv => TypeOK
<1> SUFFICES ASSUME IInv PROVE TypeOK
  OBVIOUS
<1>1. {recording, recordings, identity.recording, identity.submission, send.recording}
        \subseteq 0 .. MaxRecordings
  BY BoundsAssumption DEF IInv, PageOK, IdentityOK, Identities, SenderOK, Sends
<1>2. /\ identity.question \in Questions \cup {NoQuestion}
      /\ send.phase \in {"idle", "sending", "sent", "failed"}
      /\ send.receipt \in 0 .. MaxAttempts
  BY DEF IInv, IdentityOK, Identities, SenderOK, Sends
<1>3. generation \in 0 .. MaxRecordings + MaxAttempts
  BY BoundsAssumption DEF IInv, SenderOK, PageOK
<1>4. \A a \in attempts : a.step \in Steps /\ a.receipt \in 0 .. MaxAttempts
  BY DEF IInv, AttemptsOK, Attempts
<1>5. rows \subseteq [submission : Nat, recording : Recordings, question : Questions,
                      receipt : 1 .. MaxAttempts]
  BY DEF IInv, RowsOK, Rows
<1> QED BY <1>1, <1>2, <1>3, <1>4, <1>5 DEF IInv, PageOK, SenderOK, TypeOK

\* Every variable of the recording area keeps its type.
THEOREM TypeCorrect == Spec => []TypeOK
<1> QED BY Invariant, InvTypes, PTL

\* The page says "angekommen" only of a recording the server has, under the receipt it
\* gave, whatever was sent again, timed out or came late.
THEOREM ArrivedMeansStored == Spec => []ArrivedIsStored
<1>1. IInv => ArrivedIsStored
  BY DEF IInv
<1> QED BY <1>1, Invariant, PTL

\* A recording is stored once, for the question it was bound to, however often it is sent.
THEOREM AnsweredOnce == Spec => []OneAnswerEach
<1>1. IInv => OneAnswerEach
  BY DEF IInv, RowsOK, OneAnswerEach
<1> QED BY <1>1, Invariant, PTL

\* The page says "is on its way" exactly while an attempt is there whose outcome it will
\* show.
THEOREM OnItsWay == Spec => []OnItsWayHasAnAttempt
<1>1. IInv => OnItsWayHasAnAttempt
  BY InvTypes DEF IInv, WaitingOK, SendingOK, OnItsWayHasAnAttempt
<1> QED BY <1>1, Invariant, PTL
=============================================================================
