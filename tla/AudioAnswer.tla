----------------------------- MODULE AudioAnswer ----------------------------
(***************************************************************************)
(* The recording area of the child's page (components/audio-answer-        *)
(* recorder.tsx): the capture controller, the sender (media/audio-answer-  *)
(* sender.ts) and the question the page shows, against a server that puts  *)
(* if absent and a network that loses answers and delivers late.           *)
(*                                                                         *)
(* Of the capture only what the page reads is kept (its inside is module   *)
(* AudioCapture): whether one runs, and the recording in hand.  The page   *)
(* gets another question whenever its server component runs again, on a    *)
(* category chip already, after an adult has closed or reopened one.       *)
(***************************************************************************)
EXTENDS Naturals

CONSTANTS
  Questions,      \* the questions the page may show
  NoQuestion,     \* none is open, or they cannot be read: no recording area
  MaxRecordings,  \* bound: how many recordings are made or chosen
  MaxAttempts     \* bound: how often send is pressed

ASSUME NoQuestionAssumption == NoQuestion \notin Questions
ASSUME BoundsAssumption == {MaxRecordings, MaxAttempts} \subseteq Nat

VARIABLES
  asked,       \* the questionId prop
  capturing,   \* the question shown when the running capture began, or NoQuestion
  recording,   \* the controller's recording, 0 for none
  recordings,  \* how many there have been
  spokenFor,   \* auxiliary: spokenFor[n]: the question shown when recording n began
  identity,    \* #identity: the recording bound last, its submission and question
  send,        \* #state of the sender
  generation,  \* #generation of the sender
  attempts,    \* send calls that have not ended, and requests still on their way
  attempted,   \* how many send calls there were
  rows         \* the server's records

page == <<asked, capturing, recording, recordings, spokenFor>>

sender == <<identity, send, generation>>

vars == <<page, sender, attempts, attempted, rows>>

Recordings == 1 .. MaxRecordings

NoIdentity == [recording |-> 0, submission |-> 0, question |-> NoQuestion]

Sending(phase, n, receipt) == [phase |-> phase, recording |-> n, receipt |-> receipt]

Idle == Sending("idle", 0, 0)

Init ==
  /\ asked \in Questions
  /\ capturing = NoQuestion
  /\ recording = 0 /\ recordings = 0
  /\ spokenFor = [n \in Recordings |-> NoQuestion]
  /\ identity = NoIdentity /\ send = Idle /\ generation = 0
  /\ attempts = {} /\ attempted = 0
  /\ rows = {}

\* send.phase === "sending", for the recording on the page.
IsSending == send.recording = recording /\ send.phase = "sending"

HasArrived == send.recording = recording /\ send.phase = "sent"

----------------------------------------------------------------------------
(* The capture, and the effect that binds what it made *)

\* "Aufnahme starten" / "Neu aufnehmen": the recording in hand stays in hand.
StartRecording ==
  /\ asked # NoQuestion
  /\ capturing = NoQuestion /\ ~IsSending
  /\ recordings < MaxRecordings
  /\ capturing' = asked
  /\ UNCHANGED <<asked, recording, recordings, spokenFor, sender, attempts, attempted, rows>>

\* The microphone is refused, fails, or heard nothing.
CaptureFails ==
  /\ capturing # NoQuestion
  /\ capturing' = NoQuestion
  /\ UNCHANGED <<asked, recording, recordings, spokenFor, sender, attempts, attempted, rows>>

\* prepare(recording, questionId), by the effect that runs with the recording's first
\* render; its later runs, for the same recording, return at once.
Prepare(n) ==
  /\ identity' = [recording |-> n, submission |-> n, question |-> asked]
  /\ generation' = generation + 1
  /\ send' = Sending("idle", n, 0)

Appear(question) ==
  /\ recordings' = recordings + 1
  /\ recording' = recordings'
  /\ spokenFor' = [spokenFor EXCEPT ![recordings'] = question]
  /\ capturing' = NoQuestion
  /\ Prepare(recordings')
  /\ UNCHANGED <<asked, attempts, attempted, rows>>

\* The capture ends by itself or by "Aufnahme stoppen", whatever is being sent.
FinishRecording ==
  /\ capturing # NoQuestion
  /\ Appear(capturing)

ChooseFile ==
  /\ asked # NoQuestion /\ ~IsSending
  /\ recordings < MaxRecordings
  /\ Appear(asked)

Discard ==
  /\ recording # 0 /\ ~IsSending
  /\ recording' = 0
  /\ capturing' = NoQuestion
  /\ UNCHANGED <<asked, recordings, spokenFor, sender, attempts, attempted, rows>>

\* New props.  With no question the area is unmounted: the controller is released, and
\* the next area has a sender of its own, so that nobody waits for older attempts.
Rotate(q) ==
  /\ q # asked
  /\ asked' = q
  /\ IF q = NoQuestion
       THEN /\ recording' = 0 /\ capturing' = NoQuestion
            /\ identity' = NoIdentity /\ send' = Idle /\ generation' = 0
            /\ attempts' = {[a EXCEPT !.waiting = FALSE] : a \in attempts}
       ELSE UNCHANGED <<recording, capturing, sender, attempts>>
  /\ UNCHANGED <<recordings, spokenFor, attempted, rows>>

----------------------------------------------------------------------------
(* One attempt *)

\* MUTANT: the question read when the recording is sent.
WireNow(attempt) ==
  [attempt |-> attempt, generation |-> generation', step |-> "sniffing", waiting |-> TRUE,
   receipt |-> 0, recording |-> recording, submission |-> identity.submission,
   question |-> asked]

\* What an attempt carries: all of it minted with the identity, nothing from the page.
Wire(attempt) ==
  [attempt |-> attempt, generation |-> generation', step |-> "sniffing", waiting |-> TRUE,
   receipt |-> 0, recording |-> recording, submission |-> identity.submission,
   question |-> identity.question]

\* send(recording): the button is there unless it is on its way or has arrived.
Send ==
  /\ asked # NoQuestion /\ recording # 0
  /\ identity.recording = recording
  /\ ~IsSending /\ ~HasArrived
  /\ attempted < MaxAttempts
  /\ attempted' = attempted + 1
  /\ generation' = generation + 1
  /\ send' = Sending("sending", recording, 0)
  /\ attempts' = attempts \cup {Wire(attempted')}
  /\ UNCHANGED <<page, identity, rows>>

\* MUTANT: the outcome published whatever has happened since.
SettleLate(a, outcome) ==
  IF a.waiting THEN send' = outcome ELSE UNCHANGED send

\* #settle: unless a newer attempt or recording has come since.
Settle(a, outcome) ==
  IF a.waiting /\ a.generation = generation THEN send' = outcome ELSE UNCHANGED send

Failed(a) == Sending("failed", a.recording, 0)

\* Too large, unreadable, or not audio: nothing is posted.
RefuseLocally(a) ==
  /\ a.step = "sniffing"
  /\ attempts' = attempts \ {a}
  /\ Settle(a, Failed(a))
  /\ UNCHANGED <<page, identity, generation, attempted, rows>>

Post(a) ==
  /\ a.step = "sniffing"
  /\ attempts' = (attempts \ {a}) \cup {[a EXCEPT !.step = "posted"]}
  /\ UNCHANGED <<page, sender, attempted, rows>>

Held(a) == {r \in rows : r.submission = a.submission}

\* The route mints a receipt per request.
Record(a) ==
  [submission |-> a.submission, recording |-> a.recording, question |-> a.question,
   receipt |-> a.attempt]

Stored(a) == IF Held(a) = {} THEN rows \cup {Record(a)} ELSE rows

\* The server's answer, if somebody still waits for it.
Answered(a, receipt) ==
  attempts' = (attempts \ {a}) \cup
    {b \in {[a EXCEPT !.step = "answered", !.receipt = receipt]} : a.waiting}

\* The POST handler runs, perhaps after the client has given up: put if absent, and the
\* receipt of the record that is there.
Handle(a) ==
  /\ a.step = "posted"
  /\ rows' = Stored(a)
  /\ \E r \in (IF Held(a) = {} THEN {Record(a)} ELSE Held(a)) : Answered(a, r.receipt)
  /\ UNCHANGED <<page, sender, attempted>>

\* 4xx, or 503 with or without the record stored.
Refuse(a) ==
  /\ a.step = "posted"
  /\ rows' \in {rows, Stored(a)}
  /\ Answered(a, 0)
  /\ UNCHANGED <<page, sender, attempted>>

\* MUTANT: what has left is taken to have arrived, whatever the answer says.
AnswerAnyway(a) ==
  /\ a.step = "answered"
  /\ attempts' = attempts \ {a}
  /\ Settle(a, Sending("sent", a.recording, a.receipt))
  /\ UNCHANGED <<page, identity, generation, attempted, rows>>

Answer(a) ==
  /\ a.step = "answered"
  /\ attempts' = attempts \ {a}
  /\ Settle(a, IF a.receipt = 0 THEN Failed(a) ELSE Sending("sent", a.recording, a.receipt))
  /\ UNCHANGED <<page, identity, generation, attempted, rows>>

\* MUTANT: no timeout while the server has not answered.
TimeoutUnlessAnswered(a) ==
  /\ a.step = "answered" /\ a.waiting
  /\ attempts' = attempts \ {a}
  /\ Settle(a, Failed(a))
  /\ UNCHANGED <<page, identity, generation, attempted, rows>>

\* The network fails or 120 seconds are over: the request may still be handled.
Timeout(a) ==
  /\ a.step \in {"posted", "answered"} /\ a.waiting
  /\ attempts' = (attempts \ {a}) \cup
       {b \in {[a EXCEPT !.waiting = FALSE]} : a.step = "posted"}
  /\ Settle(a, Failed(a))
  /\ UNCHANGED <<page, identity, generation, attempted, rows>>

\* A request the client gave up never reaches the server.
Lose(a) ==
  /\ a.step = "posted" /\ ~a.waiting
  /\ attempts' = attempts \ {a}
  /\ UNCHANGED <<page, sender, attempted, rows>>

Next ==
  \/ StartRecording
  \/ CaptureFails
  \/ FinishRecording
  \/ ChooseFile
  \/ Discard
  \/ \E q \in Questions \cup {NoQuestion} : Rotate(q)
  \/ Send
  \/ \E a \in attempts :
       \/ RefuseLocally(a)
       \/ Post(a)
       \/ Handle(a)
       \/ Refuse(a)
       \/ Answer(a)
       \/ Timeout(a)
       \/ Lose(a)

Spec == Init /\ [][Next]_vars

\* Reading the first bytes settles, and AbortSignal.timeout ends what the network does not.
Proceed == \E a \in attempts : Post(a) \/ Answer(a) \/ Timeout(a)

FairSpec == Spec /\ WF_vars(Proceed)

----------------------------------------------------------------------------
(* Properties *)

Steps == {"sniffing", "posted", "answered"}

TypeOK ==
  /\ asked \in Questions \cup {NoQuestion}
  /\ capturing \in Questions \cup {NoQuestion}
  /\ {recording, recordings, identity.recording, identity.submission, send.recording}
       \subseteq 0 .. MaxRecordings
  /\ spokenFor \in [Recordings -> Questions \cup {NoQuestion}]
  /\ identity.question \in Questions \cup {NoQuestion}
  /\ send.phase \in {"idle", "sending", "sent", "failed"}
  /\ send.receipt \in 0 .. MaxAttempts
  /\ generation \in 0 .. MaxRecordings + MaxAttempts
  /\ \A a \in attempts : a.step \in Steps /\ a.receipt \in 0 .. MaxAttempts
  /\ attempted \in 0 .. MaxAttempts
  /\ rows \subseteq [submission : Nat, recording : Recordings,
                     question : Questions, receipt : 1 .. MaxAttempts]

\* "The one sentence this area may not say without a server receipt is 'angekommen'": it
\* is said only of a recording that is stored, under the receipt the server gave for it.
ArrivedIsStored ==
  send.phase = "sent" =>
    \E r \in rows : r.recording = send.recording /\ r.receipt = send.receipt

\* "one captured recording, one answer": however often it is sent, retried after a
\* timeout and delivered late, a recording is stored once, for the question it was bound
\* to when it appeared.
OneAnswerEach ==
  /\ \A r, s \in rows : r.recording = s.recording => r = s
  /\ \A r \in rows : r.recording = identity.recording => r.question = identity.question

\* The page says "is on its way" exactly while an attempt is there that can still change
\* it: no outcome of an older one overwrites it, and none is waited for in vain.
OnItsWayHasAnAttempt ==
  /\ TypeOK
  /\ send.phase = "sending" <=>
       \E a \in attempts :
         a.waiting /\ a.generation = generation /\ a.recording = send.recording

\* Every attempt ends in a sentence.
EverySendEnds == send.phase = "sending" ~> send.phase # "sending"

\* "A recording is an answer to the question a child was looking at while they spoke"
\* (audio-answer-sender.ts).
StoredForTheQuestionSpokenTo == \A r \in rows : r.question = spokenFor[r.recording]

\* "Recording again or discarding during an upload is possible only after it settles"
\* (audio-answer-recorder.tsx).
NotReplacedMidFlight ==
  [][IsSending /\ recording' # 0 => recording' = recording]_vars

\* "discarding the recording - would throw a child's work away because an adult pressed
\* something on another screen" (audio-answer-recorder.tsx).
SurvivesRotation == [][asked' # asked => recording' = recording]_vars
=============================================================================
