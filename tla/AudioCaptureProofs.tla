------------------------- MODULE AudioCaptureProofs -------------------------
(***************************************************************************)
(* The microphone and the preview are in hand, for any number of captures  *)
(* and of captures given up.                                               *)
(*                                                                         *)
(* The controller holds by its fields what the browser holds by its        *)
(* callbacks.  The invariant says that the two agree: tracks run and       *)
(* handlers are set only in phase "recording", and then they are those of  *)
(* #stream and #recorder, which have the same number; and the prompt the   *)
(* page waits for is the one of the present #generation, older ones being  *)
(* of captures given up.                                                   *)
(*                                                                         *)
(* Of what was thrown away a prompt is of an older generation, and a       *)
(* recorder has no handlers and is not the one in hand (ThrownOK).         *)
(***************************************************************************)
EXTENDS AudioCapture, FiniteSetTheorems, TLAPS

\* The open microphone, the handlers and the recording phase come and go together.
HandsOn ==
  IF phase = "recording"
    THEN /\ recorder # 0 /\ stream = recorder
         /\ live = {recorder} /\ attached = {recorder}
         /\ state[recorder] \in {"recording", "stopping"}
    ELSE live = {} /\ attached = {}

\* A prompt is waited for by the present generation exactly while the page says so.
Waiting ==
  /\ pending \subseteq 0 .. generation
  /\ phase = "requesting-permission" <=> generation \in pending

\* No data is kept from one recorder to the next.
NothingHeard == chunks = {}

\* What a recording is heard from; the preview of the one in hand is the only one.
OneSound == recording.sound = {} \/ \E r \in 0 .. MaxStreams : recording.sound = {r}

OnePreview == urls = {recording.url} \ {0}

\* Every preview has its stream or its capture given up, and a recorder that may still
\* deliver has one to come.
Counted ==
  nextUrl + (IF attached = {} THEN 0 ELSE 1) <= streams + generation + 1

\* TypeOK, spelled out so that each conjunct is a fact of its own.
Typed ==
  /\ available \in BOOLEAN
  /\ phase \in Phases /\ failure \in Failures
  /\ recording \in [url : Previews \cup {0}, sound : SUBSET (0 .. MaxStreams)]
  /\ generation \in 0 .. MaxGenerations
  /\ streams \in 0 .. MaxStreams
  /\ stream \in 0 .. MaxStreams /\ recorder \in 0 .. MaxStreams
  /\ state \in [Streams -> {"none", "recording", "stopping", "inactive"}]
  /\ nextUrl \in Nat \ {0}

IInv ==
  Typed /\ HandsOn /\ Waiting /\ NothingHeard /\ OneSound /\ OnePreview /\ Counted

----------------------------------------------------------------------------
(* The private methods *)

LEMMA NextUrlIsAPreview ==
  ASSUME Typed, nextUrl <= streams + generation + 1
  PROVE  nextUrl \in 1 .. MaxStreams + MaxGenerations + 1
<1> QED BY BoundsAssumption DEF Typed

\* A new preview: the one before is revoked, so that it is the only one.
LEMMA PresentKeeps ==
  ASSUME IInv, NEW sound \in SUBSET (0 .. MaxStreams), Present(sound),
         nextUrl <= streams + generation,
         sound = {} \/ \E r \in 0 .. MaxStreams : sound = {r}
  PROVE  /\ phase' = "recorded" /\ failure' = "none"
         /\ recording' \in [url : Previews \cup {0}, sound : SUBSET (0 .. MaxStreams)]
         /\ nextUrl' \in Nat \ {0} /\ nextUrl' = nextUrl + 1
         /\ OneSound' /\ OnePreview'
<1>1. nextUrl \in Previews
  BY BoundsAssumption DEF IInv, Typed, Previews
<1>2. recording' = [url |-> nextUrl, sound |-> sound]
  BY DEF Present
<1>3. OnePreview'
  BY <1>1, <1>2, BoundsAssumption DEF Present, OnePreview, IInv, Previews
<1>4. OneSound'
  BY <1>2 DEF OneSound
<1>5. nextUrl' \in Nat \ {0} /\ nextUrl' = nextUrl + 1
  BY DEF Present, IInv, Typed
<1> QED BY <1>1, <1>2, <1>3, <1>4, <1>5 DEF Present

LEMMA FailKeeps ==
  ASSUME Typed, NEW reason \in Failures, Fail(reason)
  PROVE  /\ phase' \in {"error", "recorded"} /\ failure' \in Failures
         /\ recording' = recording
<1> QED BY DEF Fail

\* With the recorder that is attached, if any, its stream is released too.
LEMMA ReleaseKeeps ==
  ASSUME IInv, NEW r, ReleaseMicrophone(r),
         phase = "recording" => r = recorder
  PROVE  stream' = 0 /\ live' = {} /\ attached' = {}
<1> QED BY DEF IInv, HandsOn, ReleaseMicrophone

LEMMA CancelKeeps ==
  ASSUME IInv, CancelCapture, generation < MaxGenerations
  PROVE  /\ stream' = 0 /\ live' = {} /\ attached' = {} /\ recorder' = 0 /\ chunks' = {}
         /\ generation' \in 0 .. MaxGenerations /\ generation' = generation + 1
         /\ state' \in [Streams -> {"none", "recording", "stopping", "inactive"}]
<1> QED BY BoundsAssumption DEF IInv, Typed, HandsOn, CancelCapture

----------------------------------------------------------------------------
(* Every step *)

LEMMA InitInv == Init => IInv
<1> SUFFICES ASSUME Init PROVE IInv
  OBVIOUS
<1>1. Typed
  BY BoundsAssumption DEF Init, Typed, Phases, Failures, NoRecording
<1>2. HandsOn /\ Waiting /\ NothingHeard /\ OneSound /\ OnePreview /\ Counted
  BY DEF Init, HandsOn, Waiting, NothingHeard, OneSound, OnePreview, Counted, NoRecording
<1> QED BY <1>1, <1>2 DEF IInv

\* What a step leaves as it was is left as it was.
LEMMA LeftAlone ==
  ASSUME IInv, UNCHANGED vars
  PROVE  IInv'
<1> QED BY DEF IInv, Typed, HandsOn, Waiting, NothingHeard, OneSound, OnePreview, Counted,
               vars, shown, owned

LEMMA StartRecordingInv ==
  ASSUME IInv, StartRecording PROVE IInv'
<1> USE DEF StartRecording, IInv, owned
<1>1. Typed'
  BY DEF Typed, Phases, Failures
<1>2. Waiting'
  BY DEF Typed, Waiting
<1>3. HandsOn' /\ NothingHeard' /\ OneSound' /\ OnePreview' /\ Counted'
  BY DEF HandsOn, NothingHeard, OneSound, OnePreview, Counted
<1> QED BY <1>1, <1>2, <1>3

LEMMA FailedInv ==
  ASSUME IInv, NEW reason \in Failures, Fail(reason),
         phase \notin {"requesting-permission", "recording"},
         UNCHANGED <<available, generation, pending, streams, owned, state, urls, nextUrl>>
  PROVE  IInv'
<1>1. /\ phase' \in {"error", "recorded"} /\ failure' \in Failures
      /\ recording' = recording
  BY FailKeeps DEF IInv
<1>2. Typed'
  BY <1>1 DEF IInv, Typed, Phases, owned
<1>3. HandsOn' /\ Waiting' /\ NothingHeard' /\ OneSound' /\ OnePreview' /\ Counted'
  BY <1>1 DEF IInv, HandsOn, Waiting, NothingHeard, OneSound, OnePreview, Counted, owned
<1> QED BY <1>2, <1>3 DEF IInv

LEMMA StartUnsupportedInv ==
  ASSUME IInv, StartUnsupported PROVE IInv'
<1>1. "recording-unsupported" \in Failures
  BY DEF Failures
<1> QED BY <1>1, FailedInv DEF StartUnsupported

LEMMA ChooseNonAudioInv ==
  ASSUME IInv, ChooseNonAudio PROVE IInv'
<1>1. "file-not-audio" \in Failures
  BY DEF Failures
<1>2. CASE phase \in {"requesting-permission", "recording"}
  <2>1. UNCHANGED <<phase, recording, available, generation, pending, streams, owned, state,
                    urls, nextUrl>> /\ failure' \in Failures
    BY <1>1, <1>2 DEF ChooseNonAudio
  <2> QED BY <2>1 DEF IInv, Typed, HandsOn, Waiting, NothingHeard, OneSound, OnePreview,
                      Counted, owned
<1>3. CASE phase \notin {"requesting-permission", "recording"}
  BY <1>1, <1>3, FailedInv DEF ChooseNonAudio
<1> QED BY <1>2, <1>3

LEMMA StopRecordingInv ==
  ASSUME IInv, StopRecording PROVE IInv'
<1> QED BY DEF StopRecording, IInv, Typed, HandsOn, Waiting, NothingHeard, OneSound,
               OnePreview, Counted, owned, shown, Streams

LEMMA StopThrowsInv ==
  ASSUME IInv, StopThrows PROVE IInv'
<1>1. stream' = 0 /\ live' = {} /\ attached' = {}
  BY ReleaseKeeps DEF StopThrows
<1>2. /\ phase' \in {"error", "recorded"} /\ failure' \in Failures
      /\ recording' = recording
  BY FailKeeps DEF StopThrows, IInv, Failures
<1>3. UNCHANGED <<available, generation, pending, streams, recorder, chunks, state, urls,
                  nextUrl>> /\ phase = "recording"
  BY DEF StopThrows
<1>4. Typed'
  BY <1>1, <1>2, <1>3, BoundsAssumption DEF IInv, Typed, Phases
<1>5. HandsOn' /\ Waiting' /\ NothingHeard' /\ OneSound' /\ OnePreview'
  BY <1>1, <1>2, <1>3 DEF IInv, HandsOn, Waiting, NothingHeard, OneSound, OnePreview
<1>6. Counted'
  BY <1>1, <1>3 DEF IInv, Counted, Typed
<1> QED BY <1>4, <1>5, <1>6 DEF IInv

LEMMA GiveUpInv ==
  ASSUME IInv, GiveUp PROVE IInv'
<1>1. /\ stream' = 0 /\ live' = {} /\ attached' = {} /\ recorder' = 0 /\ chunks' = {}
      /\ generation' \in 0 .. MaxGenerations /\ generation' = generation + 1
      /\ state' \in [Streams -> {"none", "recording", "stopping", "inactive"}]
  BY CancelKeeps DEF GiveUp
<1>2. /\ phase' = "ready" /\ recording' = NoRecording /\ failure' = "none"
      /\ urls' = urls \ {recording.url}
      /\ UNCHANGED <<available, pending, streams, nextUrl>>
  BY DEF GiveUp
<1>3. Typed'
  BY <1>1, <1>2, BoundsAssumption DEF IInv, Typed, Phases, Failures, NoRecording
<1>4. Waiting'
  BY <1>1, <1>2 DEF IInv, Typed, Waiting
<1>5. HandsOn' /\ NothingHeard' /\ OneSound' /\ OnePreview'
  BY <1>1, <1>2 DEF IInv, HandsOn, NothingHeard, OneSound, OnePreview, NoRecording
<1>6. Counted'
  BY <1>1, <1>2 DEF IInv, Typed, Counted
<1> QED BY <1>3, <1>4, <1>5, <1>6 DEF IInv

LEMMA ChooseFileInv ==
  ASSUME IInv, ChooseFile PROVE IInv'
<1>1. /\ stream' = 0 /\ live' = {} /\ attached' = {} /\ recorder' = 0 /\ chunks' = {}
      /\ generation' \in 0 .. MaxGenerations /\ generation' = generation + 1
      /\ state' \in [Streams -> {"none", "recording", "stopping", "inactive"}]
  BY CancelKeeps DEF ChooseFile
<1>2. nextUrl <= streams + generation + 1
  BY DEF IInv, Typed, Counted
<1>3. /\ recording' = [url |-> nextUrl, sound |-> {0}] /\ phase' = "recorded"
      /\ failure' = "none" /\ nextUrl' = nextUrl + 1
      /\ urls' = (urls \ {recording.url}) \cup {nextUrl}
      /\ UNCHANGED <<available, pending, streams>>
  BY DEF ChooseFile, Present
<1>4. nextUrl \in Previews
  <2>1. generation + 1 <= MaxGenerations
    BY BoundsAssumption DEF ChooseFile, IInv, Typed
  <2> QED BY <1>2, <2>1, BoundsAssumption DEF IInv, Typed, Previews
<1>5. Typed'
  BY <1>1, <1>3, <1>4, BoundsAssumption DEF IInv, Typed, Phases, Failures
<1>6. Waiting'
  BY <1>1, <1>3 DEF IInv, Typed, Waiting
<1>7. HandsOn' /\ NothingHeard' /\ OneSound'
  BY <1>1, <1>3, BoundsAssumption DEF IInv, HandsOn, NothingHeard, OneSound
<1>8. OnePreview'
  BY <1>3, <1>4, BoundsAssumption DEF IInv, OnePreview, Previews
<1>9. Counted'
  BY <1>1, <1>2, <1>3 DEF IInv, Typed, Counted
<1> QED BY <1>5, <1>6, <1>7, <1>8, <1>9 DEF IInv

\* The prompt of the present generation is answered: the page waited for it.
LEMMA DenyInv ==
  ASSUME IInv, NEW g \in pending, Deny(g) PROVE IInv'
<1>1. pending' = pending \ {g}
      /\ UNCHANGED <<available, generation, streams, owned, state, urls, nextUrl>>
  BY DEF Deny
<1>2. CASE g = generation
  <2>1. PICK reason \in Failures : Fail(reason)
    BY <1>2 DEF Deny, Failures
  <2>2. phase = "requesting-permission"
    BY <1>2 DEF IInv, Waiting
  <2>3. /\ phase' \in {"error", "recorded"} /\ failure' \in Failures
        /\ recording' = recording
    BY <2>1, FailKeeps DEF IInv
  <2>4. Typed'
    BY <1>1, <2>3 DEF IInv, Typed, Phases, owned
  <2> QED BY <1>1, <1>2, <2>2, <2>3, <2>4
          DEF IInv, HandsOn, Waiting, NothingHeard, OneSound, OnePreview, Counted, owned
<1>3. CASE g # generation
  <2>1. UNCHANGED shown
    BY <1>3 DEF Deny
  <2> QED BY <1>1, <1>3, <2>1
          DEF IInv, Typed, HandsOn, Waiting, NothingHeard, OneSound, OnePreview, Counted,
              owned, shown
<1> QED BY <1>2, <1>3

LEMMA GrantStaleInv ==
  ASSUME IInv, NEW g \in pending, GrantStale(g) PROVE IInv'
<1>1. streams' \in 0 .. MaxStreams /\ streams' = streams + 1
  BY BoundsAssumption DEF GrantStale, IInv, Typed
<1>2. Counted'
  BY <1>1 DEF GrantStale, IInv, Typed, Counted, owned
<1> QED BY <1>1, <1>2
        DEF GrantStale, IInv, Typed, HandsOn, Waiting, NothingHeard, OneSound, OnePreview,
            owned, shown

\* A grant in time: the page waited for it, and nothing was open or attached.
LEMMA GrantedKeeps ==
  ASSUME IInv, NEW g \in pending, Granted(g)
  PROVE  /\ phase = "requesting-permission" /\ live = {} /\ attached = {}
         /\ streams' \in Streams /\ streams' = streams + 1
         /\ pending' \subseteq 0 .. generation /\ generation \notin pending'
         /\ UNCHANGED <<available, generation>>
<1> QED BY BoundsAssumption DEF Granted, IInv, Typed, HandsOn, Waiting, Streams

LEMMA GrantAndRecordInv ==
  ASSUME IInv, NEW g \in pending, GrantAndRecord(g) PROVE IInv'
<1>1. /\ phase = "requesting-permission" /\ live = {} /\ attached = {}
      /\ streams' \in Streams /\ streams' = streams + 1
      /\ pending' \subseteq 0 .. generation /\ generation \notin pending'
      /\ UNCHANGED <<available, generation>>
  BY GrantedKeeps DEF GrantAndRecord
<1>2. PICK r \in Streams : r = streams'
  BY <1>1
<1>3. /\ stream' = r /\ live' = {r} /\ recorder' = r /\ attached' = {r} /\ chunks' = {}
      /\ state' = [state EXCEPT ![r] = "recording"]
      /\ phase' = "recording" /\ failure' = "none"
      /\ UNCHANGED <<recording, urls, nextUrl>>
  BY <1>1, <1>2 DEF GrantAndRecord
<1>4. Typed'
  BY <1>1, <1>2, <1>3, BoundsAssumption DEF IInv, Typed, Phases, Failures, Streams
<1>5. HandsOn'
  BY <1>3, BoundsAssumption DEF IInv, Typed, HandsOn, Streams
<1>6. Waiting' /\ NothingHeard' /\ OneSound' /\ OnePreview'
  BY <1>1, <1>3 DEF IInv, Waiting, NothingHeard, OneSound, OnePreview
<1>7. Counted'
  <2>1. nextUrl <= streams + generation + 1
    BY <1>1 DEF IInv, Typed, Counted
  <2> QED BY <1>1, <1>3, <2>1 DEF IInv, Typed, Counted
<1> QED BY <1>4, <1>5, <1>6, <1>7 DEF IInv

\* The ways of a grant that end in a failure.
LEMMA GrantFailsKeeps ==
  ASSUME IInv, NEW g \in pending, Granted(g), NEW reason \in Failures, Fail(reason),
         stream' = 0, live' = {}, attached' = {}, recorder' \in 0 .. MaxStreams,
         chunks' = {},
         state' \in [Streams -> {"none", "recording", "stopping", "inactive"}],
         UNCHANGED <<urls, nextUrl>>
  PROVE  IInv'
<1>1. /\ phase = "requesting-permission" /\ attached = {}
      /\ streams' \in Streams /\ streams' = streams + 1
      /\ pending' \subseteq 0 .. generation /\ generation \notin pending'
      /\ UNCHANGED <<available, generation>>
  BY GrantedKeeps
<1>2. /\ phase' \in {"error", "recorded"} /\ failure' \in Failures
      /\ recording' = recording
  BY FailKeeps DEF IInv
<1>3. Typed'
  BY <1>1, <1>2, BoundsAssumption DEF IInv, Typed, Phases, Streams
<1>4. HandsOn' /\ Waiting' /\ NothingHeard' /\ OneSound' /\ OnePreview'
  BY <1>1, <1>2 DEF IInv, HandsOn, Waiting, NothingHeard, OneSound, OnePreview
<1>5. Counted'
  BY <1>1 DEF IInv, Typed, Counted
<1> QED BY <1>3, <1>4, <1>5 DEF IInv

LEMMA GrantAndThrowInv ==
  ASSUME IInv, NEW g \in pending, GrantAndThrow(g) PROVE IInv'
<1>1. Granted(g) /\ Fail("recording-failed") /\ "recording-failed" \in Failures
  BY DEF GrantAndThrow, Failures
<1>2. phase = "requesting-permission" /\ streams' \in Streams
  BY <1>1, GrantedKeeps
<1>3. stream' = 0 /\ live' = {} /\ attached' = {}
  BY <1>2, ReleaseKeeps DEF GrantAndThrow
<1>4. recorder' \in 0 .. MaxStreams /\ chunks' = {} /\ UNCHANGED <<state, urls, nextUrl>>
  BY <1>2 DEF GrantAndThrow, IInv, Typed, Streams
<1>5. state' \in [Streams -> {"none", "recording", "stopping", "inactive"}]
  BY <1>4 DEF IInv, Typed
<1> QED BY <1>1, <1>3, <1>4, <1>5, GrantFailsKeeps

LEMMA GrantAndFailInv ==
  ASSUME IInv, NEW g \in pending, GrantAndFail(g) PROVE IInv'
<1>1. Granted(g) /\ Fail("recording-failed") /\ "recording-failed" \in Failures
  BY DEF GrantAndFail, Failures
<1>2. PICK r \in Streams : r = streams'
  BY <1>1, GrantedKeeps
<1>3. phase = "requesting-permission" /\ ReleaseMicrophone(r)
  BY <1>1, <1>2, GrantedKeeps DEF GrantAndFail
<1>4. stream' = 0 /\ live' = {} /\ attached' = {}
  BY <1>3, ReleaseKeeps
<1>5. /\ recorder' = r /\ chunks' = {} /\ state' = [state EXCEPT ![r] = "stopping"]
      /\ UNCHANGED <<urls, nextUrl>>
  BY <1>2 DEF GrantAndFail
<1>6. /\ recorder' \in 0 .. MaxStreams
      /\ state' \in [Streams -> {"none", "recording", "stopping", "inactive"}]
  BY <1>2, <1>5 DEF IInv, Typed, Streams
<1> QED BY <1>1, <1>4, <1>5, <1>6, GrantFailsKeeps

LEMMA GrantAndEndInv ==
  ASSUME IInv, NEW g \in pending, GrantAndEnd(g) PROVE IInv'
<1>1. Granted(g)
  BY DEF GrantAndEnd
<1>2. /\ phase = "requesting-permission" /\ attached = {}
      /\ streams' \in Streams /\ streams' = streams + 1
      /\ pending' \subseteq 0 .. generation /\ generation \notin pending'
      /\ UNCHANGED <<available, generation>>
  BY <1>1, GrantedKeeps
<1>3. PICK r \in Streams : r = streams'
  BY <1>2
<1>4. PICK heard \in SUBSET {r} : Finish(r, heard)
  BY <1>3 DEF GrantAndEnd
<1>5. stream' = 0 /\ live' = {} /\ attached' = {} /\ chunks' = {}
  BY <1>2, <1>4, ReleaseKeeps DEF Finish
<1>6. state' \in [Streams -> {"none", "recording", "stopping", "inactive"}]
  BY <1>3 DEF GrantAndEnd, IInv, Typed
<1>7. CASE heard = {}
  <2>1. Fail("empty-recording") /\ recorder' = r /\ UNCHANGED <<urls, nextUrl>>
    BY <1>4, <1>7 DEF Finish
  <2>2. "empty-recording" \in Failures /\ recorder' \in 0 .. MaxStreams
    BY <2>1, <1>3 DEF Failures, Streams
  <2> QED BY <1>1, <1>5, <1>6, <2>1, <2>2, GrantFailsKeeps
<1>8. CASE heard # {}
  <2>1. heard = {r} /\ Present(heard) /\ recorder' = 0
    BY <1>4, <1>8 DEF Finish
  <2>2. /\ recording' = [url |-> nextUrl, sound |-> {r}] /\ phase' = "recorded"
        /\ failure' = "none" /\ nextUrl' = nextUrl + 1
        /\ urls' = (urls \ {recording.url}) \cup {nextUrl}
    BY <2>1 DEF Present
  <2>3. nextUrl <= streams + generation + 1
    BY <1>2 DEF IInv, Typed, Counted
  <2>4. nextUrl \in Previews
    BY <1>2, <2>3, BoundsAssumption DEF IInv, Typed, Previews, Streams
  <2>5. Typed'
    BY <1>2, <1>3, <1>5, <1>6, <2>1, <2>2, <2>4, BoundsAssumption
    DEF IInv, Typed, Phases, Failures, Streams
  <2>6. HandsOn' /\ Waiting' /\ NothingHeard'
    BY <1>2, <1>5, <2>2 DEF IInv, HandsOn, Waiting, NothingHeard
  <2>7. OneSound'
    BY <1>3, <2>2 DEF OneSound, Streams
  <2>8. OnePreview'
    BY <2>2, <2>4, BoundsAssumption DEF IInv, OnePreview, Previews
  <2>9. Counted'
    BY <1>2, <1>5, <2>2, <2>3 DEF IInv, Typed, Counted
  <2> QED BY <2>5, <2>6, <2>7, <2>8, <2>9 DEF IInv
<1> QED BY <1>7, <1>8

\* The events of a recorder whose handlers are gone are heard by nobody.
LEMMA UnheardInv ==
  ASSUME IInv, NEW r \in Streams, r \notin attached,
         NEW s \in {"stopping", "inactive"}, state' = [state EXCEPT ![r] = s],
         UNCHANGED <<available, shown, generation, pending, streams, owned, urls, nextUrl>>
  PROVE  IInv'
<1>1. Typed'
  BY DEF IInv, Typed, shown, owned
<1>2. HandsOn'
  BY DEF IInv, Typed, HandsOn, shown, owned
<1> QED BY <1>1, <1>2
        DEF IInv, Waiting, NothingHeard, OneSound, OnePreview, Counted, shown, owned

LEMMA RecorderEndsInv ==
  ASSUME IInv, NEW r \in Streams, RecorderEnds(r) PROVE IInv'
<1>1. /\ state' = [state EXCEPT ![r] = "inactive"]
      /\ UNCHANGED <<available, generation, pending, streams>>
  BY DEF RecorderEnds
<1>2. CASE r \notin attached
  BY <1>1, <1>2, UnheardInv DEF RecorderEnds
<1>3. CASE r \in attached
  <2>1. phase = "recording" /\ recorder = r /\ chunks = {} /\ attached = {r}
    BY <1>3 DEF IInv, HandsOn, NothingHeard
  <2>2. PICK heard \in SUBSET {r} : Finish(r, heard)
    BY <1>3, <2>1 DEF RecorderEnds
  <2>3. stream' = 0 /\ live' = {} /\ attached' = {} /\ chunks' = {}
    BY <2>1, <2>2, ReleaseKeeps DEF Finish
  <2>4. generation \notin pending
    BY <2>1 DEF IInv, Waiting
  <2>5. nextUrl <= streams + generation
    BY <2>1 DEF IInv, Typed, Counted
  <2>6. CASE heard = {}
    <3>1. Fail("empty-recording") /\ recorder' = r /\ UNCHANGED <<urls, nextUrl>>
      BY <2>2, <2>6 DEF Finish
    <3>2. /\ phase' \in {"error", "recorded"} /\ failure' \in Failures
          /\ recording' = recording
      BY <3>1, FailKeeps DEF IInv, Failures
    <3>3. Typed'
      BY <1>1, <2>3, <3>1, <3>2, BoundsAssumption DEF IInv, Typed, Phases, Streams
    <3>4. HandsOn' /\ Waiting' /\ NothingHeard' /\ OneSound' /\ OnePreview'
      BY <1>1, <2>3, <2>4, <3>1, <3>2
      DEF IInv, HandsOn, Waiting, NothingHeard, OneSound, OnePreview
    <3>5. Counted'
      BY <1>1, <2>3, <2>5, <3>1 DEF IInv, Typed, Counted
    <3> QED BY <3>3, <3>4, <3>5 DEF IInv
  <2>7. CASE heard # {}
    <3>1. heard = {r} /\ Present(heard) /\ recorder' = 0
      BY <2>2, <2>7 DEF Finish
    <3>2. heard \in SUBSET (0 .. MaxStreams) /\ \E x \in 0 .. MaxStreams : heard = {x}
      BY <3>1 DEF Streams
    <3>3. /\ phase' = "recorded" /\ failure' = "none"
          /\ recording' \in [url : Previews \cup {0}, sound : SUBSET (0 .. MaxStreams)]
          /\ nextUrl' \in Nat \ {0} /\ nextUrl' = nextUrl + 1
          /\ OneSound' /\ OnePreview'
      BY <2>5, <3>1, <3>2, PresentKeeps
    <3>4. Typed'
      BY <1>1, <2>3, <3>1, <3>3, BoundsAssumption DEF IInv, Typed, Phases, Failures
    <3>5. HandsOn' /\ Waiting' /\ NothingHeard'
      BY <1>1, <2>3, <2>4, <3>3 DEF IInv, HandsOn, Waiting, NothingHeard
    <3>6. Counted'
      BY <1>1, <2>3, <2>5, <3>3 DEF IInv, Typed, Counted
    <3> QED BY <3>3, <3>4, <3>5, <3>6 DEF IInv
  <2> QED BY <2>6, <2>7
<1> QED BY <1>2, <1>3

LEMMA RecorderFailsInv ==
  ASSUME IInv, NEW r \in Streams, RecorderFails(r) PROVE IInv'
<1>1. /\ state' = [state EXCEPT ![r] = "stopping"]
      /\ UNCHANGED <<available, generation, pending, streams, urls, nextUrl>>
  BY DEF RecorderFails
<1>2. CASE r \notin attached
  BY <1>1, <1>2, UnheardInv DEF RecorderFails
<1>3. CASE r \in attached
  <2>1. phase = "recording" /\ recorder = r /\ attached = {r}
    BY <1>3 DEF IInv, HandsOn
  <2>2. stream' = 0 /\ live' = {} /\ attached' = {}
    BY <1>3, <2>1, ReleaseKeeps DEF RecorderFails
  <2>3. /\ phase' \in {"error", "recorded"} /\ failure' \in Failures
        /\ recording' = recording
    BY <1>3, FailKeeps DEF IInv, RecorderFails, Failures
  <2>4. UNCHANGED <<recorder, chunks>>
    BY <1>3 DEF RecorderFails
  <2>5. Typed'
    BY <1>1, <2>2, <2>3, <2>4, BoundsAssumption DEF IInv, Typed, Phases
  <2>6. HandsOn' /\ Waiting' /\ NothingHeard' /\ OneSound' /\ OnePreview'
    BY <1>1, <2>1, <2>2, <2>3, <2>4
    DEF IInv, HandsOn, Waiting, NothingHeard, OneSound, OnePreview
  <2>7. Counted'
    BY <1>1, <2>1, <2>2 DEF IInv, Typed, Counted
  <2> QED BY <2>5, <2>6, <2>7 DEF IInv
<1> QED BY <1>2, <1>3

LEMMA StepInv == IInv /\ [Next]_vars => IInv'
<1> SUFFICES ASSUME IInv, [Next]_vars PROVE IInv'
  OBVIOUS
<1>1. CASE StartRecording \/ StartUnsupported \/ StopRecording \/ StopThrows
  BY <1>1, StartRecordingInv, StartUnsupportedInv, StopRecordingInv, StopThrowsInv
<1>2. CASE Discard \/ Release \/ ChooseFile \/ ChooseNonAudio
  BY <1>2, GiveUpInv, ChooseFileInv, ChooseNonAudioInv DEF Discard, Release
<1>3. ASSUME NEW g \in pending, Deny(g) \/ GrantStale(g) PROVE IInv'
  BY <1>3, DenyInv, GrantStaleInv
<1>4. ASSUME NEW g \in pending,
             GrantAndRecord(g) \/ GrantAndThrow(g) \/ GrantAndFail(g) \/ GrantAndEnd(g)
      PROVE  IInv'
  BY <1>4, GrantAndRecordInv, GrantAndThrowInv, GrantAndFailInv, GrantAndEndInv
<1>5. ASSUME NEW r \in Streams, RecorderEnds(r) \/ RecorderFails(r) PROVE IInv'
  BY <1>5, RecorderEndsInv, RecorderFailsInv
<1>6. CASE UNCHANGED vars
  BY <1>6, LeftAlone
<1> QED BY <1>1, <1>2, <1>3, <1>4, <1>5, <1>6 DEF Next

LEMMA Invariant == Spec => []IInv
<1> QED BY InitInv, StepInv, PTL DEF Spec

----------------------------------------------------------------------------
(* What was thrown away *)

\* A prompt thrown away is of a generation that has passed; a recorder thrown away was
\* granted before, is not the one in hand and has no handlers.
ThrownOK ==
  /\ thrown \in [prompts : SUBSET (0 .. MaxGenerations), recorders : SUBSET Streams]
  /\ \A g \in thrown.prompts : g < generation
  /\ \A r \in thrown.recorders : r <= streams /\ r \notin attached /\ r # recorder
  /\ \A r \in Streams : r > streams => state[r] = "none"

\* Steps that give nothing up and attach nobody but a recorder just granted.
LEMMA ThrownKept ==
  ASSUME IInv, ThrownOK, thrown' = thrown, generation' = generation,
         streams' \in {streams, streams + 1},
         \A r \in attached' : r \in attached \/ r > streams,
         recorder' \in {recorder, 0} \cup attached \/ recorder' > streams,
         \A r \in Streams : r > streams' => state'[r] = state[r]
  PROVE  ThrownOK'
<1> QED BY BoundsAssumption DEF IInv, Typed, ThrownOK, Streams

\* #cancelCapture: everything open is thrown away, and nothing is in hand.
LEMMA ThrownAway ==
  ASSUME IInv, ThrownOK, CancelCapture, generation < MaxGenerations, streams' = streams
  PROVE  ThrownOK'
<1>1. /\ attached' = {} /\ recorder' = 0 /\ generation' = generation + 1
      /\ generation \in 0 .. MaxGenerations
  BY CancelKeeps DEF IInv, Typed
<1>2. thrown' = [prompts |-> thrown.prompts \cup pending,
                 recorders |-> thrown.recorders \cup
                                 {r \in Streams : state[r] \in {"recording", "stopping"}}]
  BY DEF CancelCapture, ThrowAway
<1>3. thrown' \in [prompts : SUBSET (0 .. MaxGenerations), recorders : SUBSET Streams]
  <2>1. pending \subseteq 0 .. MaxGenerations
    BY BoundsAssumption DEF IInv, Typed, Waiting
  <2> QED BY <1>2, <2>1 DEF ThrownOK
<1>4. \A g \in thrown'.prompts : g < generation'
  BY <1>1, <1>2, BoundsAssumption DEF IInv, Typed, Waiting, ThrownOK
<1>5. \A r \in thrown'.recorders : r \in Streams /\ r <= streams
  BY <1>2, BoundsAssumption DEF IInv, Typed, ThrownOK, Streams
<1>6. \A r \in Streams : r > streams => state'[r] = "none"
  BY DEF CancelCapture, IInv, Typed, ThrownOK
<1> QED BY <1>1, <1>3, <1>4, <1>5, <1>6 DEF ThrownOK, Streams

LEMMA InitThrown == Init => ThrownOK
<1> QED BY DEF Init, ThrownOK

\* A step that is about one recorder.
OnlyAbout(r) == \A q \in Streams : q # r => state'[q] = state[q]

LEMMA ChangedIsOnlyAbout ==
  ASSUME Typed, NEW r, NEW s, state' = [state EXCEPT ![r] = s]
  PROVE  OnlyAbout(r)
<1> QED BY DEF Typed, OnlyAbout

LEMMA ChildThrown ==
  ASSUME IInv, ThrownOK,
         \/ StartRecording \/ StartUnsupported \/ StopRecording \/ StopThrows
         \/ ChooseNonAudio \/ UNCHANGED vars
  PROVE  ThrownOK'
<1>1. /\ thrown' = thrown /\ generation' = generation /\ streams' = streams
      /\ attached' \subseteq attached /\ recorder' = recorder
  BY DEF StartRecording, StartUnsupported, StopRecording, StopThrows, ChooseNonAudio,
         ReleaseMicrophone, vars, owned
<1>2. \A r \in Streams : r > streams' => state'[r] = state[r]
  BY <1>1
     DEF StartRecording, StartUnsupported, StopRecording, StopThrows, ChooseNonAudio, vars,
         IInv, Typed, ThrownOK
<1> QED BY <1>1, <1>2, ThrownKept

LEMMA PromptThrown ==
  ASSUME IInv, ThrownOK, NEW g \in pending,
         \/ Deny(g) \/ GrantStale(g) \/ GrantAndRecord(g) \/ GrantAndThrow(g)
         \/ GrantAndFail(g) \/ GrantAndEnd(g)
  PROVE  ThrownOK'
<1>1. thrown' = thrown /\ generation' = generation
  BY DEF Deny, GrantStale, GrantAndRecord, GrantAndThrow, GrantAndFail, GrantAndEnd, Granted
<1>2. CASE Deny(g) \/ GrantStale(g)
  <2>1. /\ streams' \in {streams, streams + 1} /\ attached' = attached
        /\ recorder' = recorder /\ state' = state
    BY <1>2 DEF Deny, GrantStale, owned
  <2> QED BY <1>1, <2>1, ThrownKept
<1>3. CASE GrantAndRecord(g) \/ GrantAndThrow(g) \/ GrantAndFail(g) \/ GrantAndEnd(g)
  <2>1. streams' = streams + 1 /\ streams' > streams
    BY <1>3
       DEF GrantAndRecord, GrantAndThrow, GrantAndFail, GrantAndEnd, Granted, IInv, Typed
  <2>2. attached' \subseteq attached \cup {streams'}
    BY <1>3
       DEF GrantAndRecord, GrantAndThrow, GrantAndFail, GrantAndEnd, Finish,
           ReleaseMicrophone
  <2>3. recorder' \in {recorder, 0, streams'}
    BY <1>3 DEF GrantAndRecord, GrantAndThrow, GrantAndFail, GrantAndEnd, Finish
  <2>4. state' = state \/ \E s : state' = [state EXCEPT ![streams'] = s]
    BY <1>3 DEF GrantAndRecord, GrantAndThrow, GrantAndFail, GrantAndEnd
  <2>5. PICK n : n = streams'
    OBVIOUS
  <2>6. OnlyAbout(n)
    BY <2>4, <2>5, ChangedIsOnlyAbout DEF IInv, OnlyAbout
  <2>7. \A r \in Streams : r > streams' => state'[r] = state[r]
    BY <2>1, <2>5, <2>6 DEF OnlyAbout, Streams
  <2> QED BY <1>1, <2>1, <2>2, <2>3, <2>7, ThrownKept
<1> QED BY <1>2, <1>3

LEMMA RecorderThrown ==
  ASSUME IInv, ThrownOK, NEW r \in Streams, RecorderEnds(r) \/ RecorderFails(r)
  PROVE  ThrownOK'
<1>1. thrown' = thrown /\ generation' = generation /\ streams' = streams
  BY DEF RecorderEnds, RecorderFails
<1>2. attached' \subseteq attached
  BY DEF RecorderEnds, RecorderFails, Finish, ReleaseMicrophone, owned
<1>3. recorder' \in {recorder, 0} \cup attached
  BY DEF RecorderEnds, RecorderFails, Finish, owned
<1>4. r <= streams
  BY DEF RecorderEnds, RecorderFails, IInv, Typed, ThrownOK, Streams
<1>5. \A q \in Streams : q > streams' => state'[q] = state[q]
  <2>1. OnlyAbout(r)
    BY ChangedIsOnlyAbout DEF RecorderEnds, RecorderFails, IInv
  <2> QED BY <1>1, <1>4, <2>1 DEF OnlyAbout, Streams, IInv, Typed
<1> QED BY <1>1, <1>2, <1>3, <1>5, ThrownKept

LEMMA StepThrown == IInv /\ ThrownOK /\ [Next]_vars => ThrownOK'
<1> SUFFICES ASSUME IInv, ThrownOK, [Next]_vars PROVE ThrownOK'
  OBVIOUS
<1>1. CASE Discard \/ Release \/ ChooseFile
  <2>1. CancelCapture /\ generation < MaxGenerations /\ streams' = streams
    BY <1>1 DEF Discard, Release, GiveUp, ChooseFile
  <2> QED BY <2>1, ThrownAway
<1> QED BY <1>1, ChildThrown, PromptThrown, RecorderThrown DEF Next

LEMMA ThrownInvariant == Spec => []ThrownOK
<1> QED BY InitThrown, StepThrown, Invariant, PTL DEF Spec

----------------------------------------------------------------------------
(* What follows *)

LEMMA InvTypes == IInv /\ ThrownOK => TypeOK
<1> SUFFICES ASSUME IInv, ThrownOK PROVE TypeOK
  OBVIOUS
<1>1. nextUrl \in 1 .. MaxStreams + MaxGenerations + 1
  <2>1. nextUrl <= streams + generation + 1
    BY DEF IInv, Typed, Counted
  <2> QED BY <2>1, NextUrlIsAPreview DEF IInv
<1>2. urls \subseteq Previews
  BY BoundsAssumption DEF IInv, Typed, OnePreview, Previews
<1>3. pending \subseteq 0 .. MaxGenerations
  BY BoundsAssumption DEF IInv, Typed, Waiting
<1>4. live \subseteq Streams /\ attached \subseteq Streams /\ chunks \subseteq Streams
  BY BoundsAssumption DEF IInv, Typed, HandsOn, NothingHeard, Streams
<1>5. {stream, recorder} \subseteq 0 .. MaxStreams
  BY DEF IInv, Typed
<1> QED BY <1>1, <1>2, <1>3, <1>4, <1>5 DEF IInv, Typed, ThrownOK, TypeOK

\* Every variable of the controller keeps its type; no preview is made that no stream and
\* no chosen file accounts for.
THEOREM TypeCorrect == Spec => []TypeOK
<1> QED BY Invariant, ThrownInvariant, InvTypes, PTL

\* No microphone is left open behind a page that does not show the stop button, and a page
\* that waits for the prompt or for its recorder has one that will answer it.
THEOREM MicrophoneInHand == Spec => []MicrophoneIsInHand
<1>1. IInv /\ ThrownOK => MicrophoneIsInHand
  <2> SUFFICES ASSUME IInv, ThrownOK PROVE MicrophoneIsInHand
    OBVIOUS
  <2>1. live # {} => phase = "recording" /\ live = {stream} /\ recorder = stream
    BY DEF IInv, HandsOn
  <2>2. phase = "requesting-permission" <=> generation \in pending
    BY DEF IInv, Waiting
  <2>3. phase = "recording" =>
          recorder \in attached /\ state[recorder] \in {"recording", "stopping"}
    BY DEF IInv, HandsOn
  <2> QED BY InvTypes, <2>1, <2>2, <2>3 DEF MicrophoneIsInHand
<1> QED BY <1>1, Invariant, ThrownInvariant, PTL

\* A recording has the sound of one recorder, and of all previews only its own is held.
THEOREM OneSoundHeard == Spec => []OneSoundOnePreview
<1>1. IInv => OneSoundOnePreview
  <2> SUFFICES ASSUME IInv PROVE OneSoundOnePreview
    OBVIOUS
  <2>1. Cardinality(recording.sound) <= 1
    <3>1. CASE recording.sound = {}
      BY <3>1, FS_EmptySet
    <3>2. ASSUME NEW r \in 0 .. MaxStreams, recording.sound = {r}
          PROVE  Cardinality(recording.sound) <= 1
      <4>1. Cardinality({r}) = 1
        BY FS_Singleton
      <4> QED BY <3>2, <4>1
    <3> QED BY <3>1, <3>2 DEF IInv, OneSound
  <2>2. chunks \cup attached \subseteq {recorder}
    BY DEF IInv, HandsOn, NothingHeard
  <2> QED BY <2>1, <2>2 DEF IInv, OnePreview, OneSoundOnePreview
<1> QED BY <1>1, Invariant, PTL

\* What was thrown away stays thrown away: a prompt or a recorder that was open when the
\* child gave a capture up changes neither the page nor the capture in hand when it answers,
\* however many captures later (#cancelCapture, and the checks of #generation).
THEOREM GivenUpSilent == Spec => GivenUpIsSilent
<1>1. IInv /\ ThrownOK /\ [Next]_vars =>
        [ThrownAwayAnswers => UNCHANGED <<shown, owned, urls, nextUrl>>]_vars
  <2> SUFFICES ASSUME IInv, ThrownOK, [Next]_vars, ThrownAwayAnswers
               PROVE  UNCHANGED <<shown, owned, urls, nextUrl>>
    OBVIOUS
  <2>1. ASSUME NEW g \in thrown.prompts, g \in pending \ pending'
        PROVE  UNCHANGED <<shown, owned, urls, nextUrl>>
    <3>1. g # generation
      BY <2>1 DEF ThrownOK, IInv, Typed
    <3>2. PICK h \in pending : Deny(h) \/ GrantStale(h) \/ Granted(h)
      BY <2>1 DEF Next, vars, StartRecording, StartUnsupported, StopRecording, StopThrows,
             Discard, Release, GiveUp, ChooseFile, ChooseNonAudio, RecorderEnds,
             RecorderFails, GrantAndRecord, GrantAndThrow, GrantAndFail, GrantAndEnd
    <3>3. pending' = pending \ {h} /\ h = g
      BY <2>1, <3>2 DEF Deny, GrantStale, Granted
    <3> QED BY <3>1, <3>2, <3>3 DEF Deny, GrantStale, Granted
  <2>2. ASSUME NEW r \in thrown.recorders, state'[r] # state[r]
        PROVE  UNCHANGED <<shown, owned, urls, nextUrl>>
    <3>1. r \in Streams /\ r <= streams /\ r \notin attached /\ r # recorder
      BY <2>2 DEF ThrownOK
    <3>2. PICK q \in Streams : RecorderEnds(q) \/ RecorderFails(q)
      <4>1. ~(StopRecording \/ Discard \/ Release \/ ChooseFile)
        BY <2>2, <3>1
           DEF StopRecording, Discard, Release, GiveUp, ChooseFile, CancelCapture, IInv,
               Typed
      <4>2. ~ \E g \in pending :
               GrantAndRecord(g) \/ GrantAndThrow(g) \/ GrantAndFail(g) \/ GrantAndEnd(g)
        <5> SUFFICES ASSUME NEW g \in pending,
                            \/ GrantAndRecord(g) \/ GrantAndThrow(g)
                            \/ GrantAndFail(g) \/ GrantAndEnd(g)
                     PROVE  FALSE
          OBVIOUS
        <5>1. /\ streams' = streams + 1
              /\ state' = state \/ \E s : state' = [state EXCEPT ![streams'] = s]
          BY DEF GrantAndRecord, GrantAndThrow, GrantAndFail, GrantAndEnd, Granted
        <5>2. PICK n : n = streams'
          OBVIOUS
        <5>3. OnlyAbout(n)
          BY <5>1, <5>2, ChangedIsOnlyAbout DEF IInv, OnlyAbout
        <5>4. r # n
          BY <3>1, <5>1, <5>2 DEF IInv, Typed, Streams
        <5> QED BY <2>2, <3>1, <5>3, <5>4 DEF OnlyAbout
      <4> QED BY <2>2, <4>1, <4>2
              DEF Next, vars, StartRecording, StartUnsupported, StopThrows, ChooseNonAudio,
                  Deny, GrantStale
    <3>3. q = r
      BY <2>2, <3>1, <3>2 DEF RecorderEnds, RecorderFails, IInv, Typed
    <3> QED BY <3>1, <3>2, <3>3 DEF RecorderEnds, RecorderFails
  <2> QED BY <2>1, <2>2 DEF ThrownAwayAnswers
<1> QED BY <1>1, Invariant, ThrownInvariant, PTL DEF Spec, GivenUpIsSilent
=============================================================================
