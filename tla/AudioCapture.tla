---------------------------- MODULE AudioCapture ----------------------------
(***************************************************************************)
(* adapters/media/audio-capture-controller.ts: who owns the microphone and *)
(* the preview of a recording, between a child pressing buttons in any     *)
(* order, a permission prompt that may be answered late or never, and a    *)
(* MediaRecorder that ends, fails or throws whenever it likes.             *)
(*                                                                         *)
(* A step is one turn of the event loop.  Recorder and stream of the same  *)
(* acquisition have the same number; 0 stands for null.                    *)
(***************************************************************************)
EXTENDS Naturals, FiniteSets

CONSTANTS
  MaxStreams,      \* bound: how often the microphone is granted
  MaxGenerations   \* bound: how often a capture is given up

ASSUME BoundsAssumption == {MaxStreams, MaxGenerations} \subseteq Nat

Streams == 1 .. MaxStreams

VARIABLES
  available,   \* the browser can record: requestMicrophone and createRecorder exist
  phase,       \* #state.phase
  recording,   \* #state.recording: its preview URL and the recorders heard in it
  failure,     \* #state.failure
  generation,  \* #generation
  pending,     \* generations of the startRecording calls that await the prompt
  streams,     \* how many streams were granted
  stream,      \* #stream
  live,        \* streams whose tracks are not stopped: the microphone is open
  recorder,    \* #recorder
  attached,    \* recorders whose handlers are set
  state,       \* state[r]: what MediaRecorder r does
  chunks,      \* #chunks: the recorders whose data is in it
  urls,        \* preview URLs created and not revoked
  nextUrl,
  thrown       \* auxiliary: prompts and recorders open when a capture was given up

shown == <<phase, recording, failure>>

owned == <<stream, live, recorder, attached, chunks>>

vars == <<available, shown, generation, pending, streams, owned, state, urls, nextUrl,
          thrown>>

NoRecording == [url |-> 0, sound |-> {}]

\* A chosen file is heard in its preview as the sound of nobody.
Init ==
  /\ available \in BOOLEAN
  /\ phase = "ready" /\ recording = NoRecording /\ failure = "none"
  /\ generation = 0
  /\ pending = {}
  /\ streams = 0
  /\ stream = 0 /\ live = {} /\ recorder = 0 /\ attached = {} /\ chunks = {}
  /\ state = [r \in Streams |-> "none"]
  /\ urls = {}
  /\ nextUrl = 1
  /\ thrown = [prompts |-> {}, recorders |-> {}]

----------------------------------------------------------------------------
(* The private methods *)

\* #fail: only a child with nothing in hand sees the error phase.
Fail(reason) ==
  /\ phase' = IF recording = NoRecording THEN "error" ELSE "recorded"
  /\ failure' = reason
  /\ UNCHANGED recording

\* publish of a recording whose preview is made now; the one before is revoked.
Present(sound) ==
  /\ phase' = "recorded"
  /\ failure' = "none"
  /\ recording' = [url |-> nextUrl, sound |-> sound]
  /\ urls' = (urls \ {recording.url}) \cup {nextUrl}
  /\ nextUrl' = nextUrl + 1

\* #releaseMicrophone, while r is #recorder.
ReleaseMicrophone(r) ==
  /\ stream' = 0
  /\ live' = live \ {stream}
  /\ attached' = attached \ {r}

\* #finish of recorder r, with what it delivered.
Finish(r, heard) ==
  /\ ReleaseMicrophone(r)
  /\ chunks' = {}
  /\ IF heard = {}
       THEN Fail("empty-recording") /\ recorder' = r /\ UNCHANGED <<urls, nextUrl>>
       ELSE Present(heard) /\ recorder' = 0

\* What is open now is of a capture given up: a prompt that is not answered, a recorder that
\* has events to come, whatever the controller knows of them.
ThrowAway ==
  thrown' = [prompts   |-> thrown.prompts \cup pending,
             recorders |-> thrown.recorders \cup
                             {r \in Streams : state[r] \in {"recording", "stopping"}}]

\* MUTANT: the stream stopped, its recorder left with its handlers.
CancelCaptureAttached ==
  /\ generation' = generation + 1
  /\ state' = [r \in Streams |->
                 IF r = recorder /\ state[r] = "recording" THEN "stopping" ELSE state[r]]
  /\ stream' = 0
  /\ live' = live \ {stream}
  /\ recorder' = 0
  /\ chunks' = {}
  /\ ThrowAway
  /\ UNCHANGED attached

\* #cancelCapture: handlers first, then the recorder, then the tracks.
CancelCapture ==
  /\ generation' = generation + 1
  /\ attached' = attached \ {recorder}
  /\ state' = [r \in Streams |->
                 IF r = recorder /\ state[r] = "recording" THEN "stopping" ELSE state[r]]
  /\ stream' = 0
  /\ live' = live \ {stream}
  /\ recorder' = 0
  /\ chunks' = {}
  /\ ThrowAway

----------------------------------------------------------------------------
(* What the child does *)

StartRecording ==
  /\ phase \notin {"requesting-permission", "recording"}
  /\ available
  /\ phase' = "requesting-permission"
  /\ failure' = "none"
  /\ pending' = pending \cup {generation}
  /\ UNCHANGED <<available, recording, generation, streams, owned, state, urls, nextUrl,
                 thrown>>

StartUnsupported ==
  /\ phase \notin {"requesting-permission", "recording"}
  /\ ~available
  /\ Fail("recording-unsupported")
  /\ UNCHANGED <<available, generation, pending, streams, owned, state, urls, nextUrl,
                 thrown>>

\* MUTANT: everything the controller holds let go of before the recorder has answered.
StopDetached ==
  /\ phase = "recording" /\ recorder # 0
  /\ state[recorder] = "recording"
  /\ state' = [state EXCEPT ![recorder] = "stopping"]
  /\ attached' = attached \ {recorder}
  /\ UNCHANGED <<available, shown, generation, pending, streams, stream, live, recorder,
                 chunks, urls, nextUrl, thrown>>

\* recorder.stop(): its events come later.
StopRecording ==
  /\ phase = "recording" /\ recorder # 0
  /\ state[recorder] = "recording"
  /\ state' = [state EXCEPT ![recorder] = "stopping"]
  /\ UNCHANGED <<available, shown, generation, pending, streams, owned, urls, nextUrl,
                 thrown>>

\* recorder.stop() throws, as browsers may on a recorder that has stopped.
StopThrows ==
  /\ phase = "recording" /\ recorder # 0
  /\ ReleaseMicrophone(recorder)
  /\ Fail("recording-failed")
  /\ UNCHANGED <<available, generation, pending, streams, recorder, chunks, state, urls,
                 nextUrl, thrown>>

GiveUp ==
  /\ generation < MaxGenerations
  /\ CancelCapture
  /\ urls' = urls \ {recording.url}
  /\ phase' = "ready" /\ recording' = NoRecording /\ failure' = "none"
  /\ UNCHANGED <<available, pending, streams, nextUrl>>

Discard == GiveUp

\* On unmount: as Discard, without telling the listeners.
Release == GiveUp

ChooseFile ==
  /\ generation < MaxGenerations
  /\ CancelCapture
  /\ Present({0})
  /\ UNCHANGED <<available, pending, streams>>

\* A file that is not audio: a sentence, and whatever runs goes on.
ChooseNonAudio ==
  /\ IF phase \in {"requesting-permission", "recording"}
       THEN failure' = "file-not-audio" /\ UNCHANGED <<phase, recording>>
       ELSE Fail("file-not-audio")
  /\ UNCHANGED <<available, generation, pending, streams, owned, state, urls, nextUrl,
                 thrown>>

----------------------------------------------------------------------------
(* What the browser does *)

\* requestMicrophone rejects; a refusal for a capture given up is dropped.
Deny(g) ==
  /\ g \in pending
  /\ pending' = pending \ {g}
  /\ IF g = generation
       THEN \E reason \in {"permission-denied", "microphone-unavailable"} : Fail(reason)
       ELSE UNCHANGED shown
  /\ UNCHANGED <<available, generation, streams, owned, state, urls, nextUrl, thrown>>

\* MUTANT: a stream granted to a capture given up is just dropped.
GrantStaleKept(g) ==
  /\ g \in pending /\ g # generation
  /\ streams < MaxStreams
  /\ pending' = pending \ {g}
  /\ streams' = streams + 1
  /\ live' = live \cup {streams'}
  /\ UNCHANGED <<available, shown, generation, stream, recorder, attached, chunks, state,
                 urls, nextUrl, thrown>>

\* Granted too late: the tracks are stopped at once.
GrantStale(g) ==
  /\ g \in pending /\ g # generation
  /\ streams < MaxStreams
  /\ pending' = pending \ {g}
  /\ streams' = streams + 1
  /\ UNCHANGED <<available, shown, generation, owned, state, urls, nextUrl, thrown>>

\* Granted in time.  The stream, its recorder and start() are one turn.
Granted(g) ==
  /\ g \in pending /\ g = generation
  /\ streams < MaxStreams
  /\ pending' = pending \ {g}
  /\ streams' = streams + 1
  /\ UNCHANGED <<available, generation, thrown>>

GrantAndRecord(g) ==
  /\ Granted(g)
  /\ stream' = streams'
  /\ live' = live \cup {streams'}
  /\ recorder' = streams'
  /\ attached' = attached \cup {streams'}
  /\ chunks' = {}
  /\ state' = [state EXCEPT ![streams'] = "recording"]
  /\ phase' = "recording" /\ failure' = "none"
  /\ UNCHANGED <<recording, urls, nextUrl>>

\* createRecorder throws, and #recorder is still the one before; or start() does.
GrantAndThrow(g) ==
  /\ Granted(g)
  /\ ReleaseMicrophone(recorder)
  /\ recorder' \in {recorder, streams'}
  /\ chunks' = {}
  /\ Fail("recording-failed")
  /\ UNCHANGED <<state, urls, nextUrl>>

\* The recorder fails from inside its own start(): "recording" is not written over that.
GrantAndFail(g) ==
  /\ Granted(g)
  /\ ReleaseMicrophone(streams')
  /\ recorder' = streams'
  /\ chunks' = {}
  /\ state' = [state EXCEPT ![streams'] = "stopping"]
  /\ Fail("recording-failed")
  /\ UNCHANGED <<urls, nextUrl>>

\* The recorder ends from inside its own start().
GrantAndEnd(g) ==
  /\ Granted(g)
  /\ state' = [state EXCEPT ![streams'] = "inactive"]
  /\ \E heard \in SUBSET {streams'} : Finish(streams', heard)

\* dataavailable, with or without data in it, and stop: #chunks.push and #finish.
RecorderEnds(r) ==
  /\ state[r] \in {"recording", "stopping"}
  /\ state' = [state EXCEPT ![r] = "inactive"]
  /\ IF r \in attached
       THEN \E data \in SUBSET {r} : Finish(r, chunks \cup data)
       ELSE UNCHANGED <<shown, owned, urls, nextUrl>>
  /\ UNCHANGED <<available, generation, pending, streams, thrown>>

\* error; dataavailable and stop follow it.
RecorderFails(r) ==
  /\ state[r] = "recording"
  /\ state' = [state EXCEPT ![r] = "stopping"]
  /\ IF r \in attached
       THEN /\ ReleaseMicrophone(r)
            /\ Fail("recording-failed")
            /\ UNCHANGED <<recorder, chunks>>
       ELSE UNCHANGED <<shown, owned>>
  /\ UNCHANGED <<available, generation, pending, streams, urls, nextUrl, thrown>>

Next ==
  \/ StartRecording
  \/ StartUnsupported
  \/ StopRecording
  \/ StopThrows
  \/ Discard
  \/ Release
  \/ ChooseFile
  \/ ChooseNonAudio
  \/ \E g \in pending :
       \/ Deny(g)
       \/ GrantStale(g)
       \/ GrantAndRecord(g)
       \/ GrantAndThrow(g)
       \/ GrantAndFail(g)
       \/ GrantAndEnd(g)
  \/ \E r \in Streams : RecorderEnds(r) \/ RecorderFails(r)

Spec == Init /\ [][Next]_vars

\* A recorder that was stopped fires its events; a prompt may stay open for ever.
FairSpec == Spec /\ \A r \in Streams : WF_vars(state[r] = "stopping" /\ RecorderEnds(r))

----------------------------------------------------------------------------
(* Properties *)

\* Every preview is made by a stream granted or by a capture given up for a file.
Previews == 1 .. MaxStreams + MaxGenerations

Phases == {"ready", "requesting-permission", "recording", "recorded", "error"}

Failures ==
  {"none", "recording-unsupported", "microphone-unavailable", "permission-denied",
   "recording-failed", "empty-recording", "file-not-audio"}

TypeOK ==
  /\ available \in BOOLEAN
  /\ phase \in Phases
  /\ recording \in [url : Previews \cup {0}, sound : SUBSET (0 .. MaxStreams)]
  /\ failure \in Failures
  /\ generation \in 0 .. MaxGenerations
  /\ pending \subseteq 0 .. MaxGenerations
  /\ streams \in 0 .. MaxStreams
  /\ {stream, recorder} \subseteq 0 .. MaxStreams
  /\ live \subseteq Streams /\ attached \subseteq Streams /\ chunks \subseteq Streams
  /\ state \in [Streams -> {"none", "recording", "stopping", "inactive"}]
  /\ urls \subseteq Previews
  /\ nextUrl \in 1 .. MaxStreams + MaxGenerations + 1
  /\ thrown \in [prompts : SUBSET (0 .. MaxGenerations), recorders : SUBSET Streams]

\* "a microphone left open with no way back to it": tracks run only while the page shows
\* the stop button, and then they are the ones it would stop. And the two phases that wait
\* for something do have it to wait for, so no child is stuck on a page whose capture is
\* gone.
MicrophoneIsInHand ==
  /\ TypeOK
  /\ live # {} => phase = "recording" /\ live = {stream} /\ recorder = stream
  /\ phase = "requesting-permission" <=> generation \in pending
  /\ phase = "recording" => recorder \in attached /\ state[recorder] \in {"recording", "stopping"}

\* A recording is heard from one recorder, never mixed with one that was thrown away, and
\* of all previews only the one on the page is held: those before it were revoked.
OneSoundOnePreview ==
  /\ Cardinality(recording.sound) <= 1
  /\ chunks \cup attached \subseteq {recorder}
  /\ urls = {recording.url} \ {0}

\* Of prompts and recorders that were open when the child threw a capture away (discarded
\* it, left, chose a file instead): one is answered, fails or ends.
ThrownAwayAnswers ==
  \/ \E g \in thrown.prompts : g \in pending \ pending'
  \/ \E r \in thrown.recorders : state'[r] # state[r]

\* What was thrown away stays thrown away: however late a prompt or a recorder of it
\* answers, and whatever was asked for since, neither the page nor the capture now in hand,
\* its microphone, its recorder or its preview, changes by that.
GivenUpIsSilent ==
  [][ThrownAwayAnswers => UNCHANGED <<shown, owned, urls, nextUrl>>]_vars

\* A stopped recording ends up on the page, or as a failure; the phase is not left stuck.
StopIsAnswered ==
  \A r \in Streams : phase = "recording" /\ recorder = r /\ state[r] = "stopping"
                       ~> phase # "recording" \/ recorder # r
=============================================================================
