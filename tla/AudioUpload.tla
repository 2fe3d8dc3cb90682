---------------------------- MODULE AudioUpload -----------------------------
(***************************************************************************)
(* app/api/inbox/submissions/audio/route.ts over the blob store            *)
(* (adapters/persistence/file-audio-blob-store.ts) and the inbox: stage    *)
(* one stores the recording under the name made of its hash, stage two     *)
(* appends the record that refers to it, and only then is there a receipt. *)
(*                                                                         *)
(* The inbox is its port (SubmissionInbox): one put-if-absent.  A shard    *)
(* directory is taken to exist before its first recording.                 *)
(***************************************************************************)
EXTENDS Naturals

CONSTANTS
  Recordings,   \* contents, and so object keys: audioObjectKey of the hash
  Submissions,  \* ids chosen by the devices
  Senders,      \* requests that can be open at once
  Nothing,      \* no record, no request
  Losses,       \* bound: how many times the machine may lose power
  MaxRequests   \* bound: how many requests are sent in all

ASSUME NothingAssumption == Nothing \notin Recordings
ASSUME BoundsAssumption == Losses \in Nat /\ MaxRequests \in Nat

VARIABLES
  blob,      \* blob[k]: what a reader finds under the name of recording k
  durable,   \* durable[k]: the name is on the device and survives a power loss
  rows,      \* rows[s]: the recording the record of submission s refers to
  phase,     \* phase[c]: where the POST of sender c stands
  request,   \* request[c]: the submission and the recording it carries
  temp,      \* temp[c]: what is in the .part file of c
  answer,    \* answer[c]: what the route answered
  requests,  \* how many requests were sent
  losses     \* how often the power was lost

vars == <<blob, durable, rows, phase, request, temp, answer, requests, losses>>

\* Of a file: opened and not written to; what a write made of it that took fewer bytes than
\* it was given; all bytes, in the page cache; all, on the device; bytes gone with the cache.
Contents == {"absent", "begun", "cut", "cached", "whole", "lost"}

Complete == {"cached", "whole"}

Phases == {"idle", "storing", "writing", "flushing", "renaming", "syncing", "appending"}

Init ==
  /\ blob = [k \in Recordings |-> "absent"]
  /\ durable = [k \in Recordings |-> FALSE]
  /\ rows = [s \in Submissions |-> Nothing]
  /\ phase = [c \in Senders |-> "idle"]
  /\ request = [c \in Senders |-> Nothing]
  /\ temp = [c \in Senders |-> "absent"]
  /\ answer = [c \in Senders |-> "none"]
  /\ requests = 0
  /\ losses = 0

Key(c) == request[c].recording

Go(c, p) == phase' = [phase EXCEPT ![c] = p]

\* The route answers, and the temporary file is gone: renamed, or removed by the catch.
Reply(c, a) ==
  /\ Go(c, "idle")
  /\ answer' = [answer EXCEPT ![c] = a]
  /\ temp' = [temp EXCEPT ![c] = "absent"]

----------------------------------------------------------------------------
(* Stage one: AudioBlobStore.store *)

Send(c, s, k) ==
  /\ phase[c] = "idle"
  /\ requests < MaxRequests
  /\ requests' = requests + 1
  /\ request' = [request EXCEPT ![c] = [submission |-> s, recording |-> k]]
  /\ answer' = [answer EXCEPT ![c] = "none"]
  /\ Go(c, "storing")
  /\ UNCHANGED <<blob, durable, rows, temp, losses>>

\* exists(path): a complete copy is there already, nothing to store.
FindStored(c) ==
  /\ phase[c] = "storing"
  /\ blob[Key(c)] # "absent"
  /\ Go(c, "appending")
  /\ UNCHANGED <<blob, durable, rows, request, temp, answer, requests, losses>>

OpenTemporary(c) ==
  /\ phase[c] = "storing"
  /\ blob[Key(c)] = "absent"
  /\ temp' = [temp EXCEPT ![c] = "begun"]
  /\ Go(c, "writing")
  /\ UNCHANGED <<blob, durable, rows, request, answer, requests, losses>>

\* handle.write(bytes): it may take fewer than it is given, and how many is not looked at.
Write(c) ==
  /\ phase[c] = "writing"
  /\ \E taken \in {"cached", "cut"} : temp' = [temp EXCEPT ![c] = taken]
  /\ Go(c, "flushing")
  /\ UNCHANGED <<blob, durable, rows, request, answer, requests, losses>>

\* MUTANT: the rename without the sync before it.
FlushSkipped(c) ==
  /\ phase[c] = "flushing"
  /\ Go(c, "renaming")
  /\ UNCHANGED <<blob, durable, rows, request, temp, answer, requests, losses>>

\* handle.sync(): what was written is on the device, under the temporary name.
Flush(c) ==
  /\ phase[c] = "flushing"
  /\ temp' = [temp EXCEPT ![c] = IF @ = "cached" THEN "whole" ELSE @]
  /\ Go(c, "renaming")
  /\ UNCHANGED <<blob, durable, rows, request, answer, requests, losses>>

\* rename(2) replaces what another request may have put there meanwhile.
Rename(c) ==
  /\ phase[c] = "renaming"
  /\ blob' = [blob EXCEPT ![Key(c)] = temp[c]]
  /\ temp' = [temp EXCEPT ![c] = "absent"]
  /\ Go(c, "syncing")
  /\ UNCHANGED <<durable, rows, request, answer, requests, losses>>

SyncDirectory(c) ==
  /\ phase[c] = "syncing"
  /\ durable' = [durable EXCEPT ![Key(c)] = TRUE]
  /\ Go(c, "appending")
  /\ UNCHANGED <<blob, rows, request, temp, answer, requests, losses>>

\* MUTANT: the failure logged, and the record appended all the same.
StoreFailsUnnoticed(c) ==
  /\ phase[c] \in {"storing", "writing", "flushing", "renaming", "syncing"}
  /\ temp' = [temp EXCEPT ![c] = "absent"]
  /\ Go(c, "appending")
  /\ UNCHANGED <<blob, durable, rows, request, answer, requests, losses>>

\* A file operation rejects: 503 before anything has touched the inbox.
StoreFails(c) ==
  /\ phase[c] \in {"storing", "writing", "flushing", "renaming", "syncing"}
  /\ Reply(c, "unavailable")
  /\ UNCHANGED <<blob, durable, rows, request, requests, losses>>

----------------------------------------------------------------------------
(* Stage two: SubmissionInboxStore.appendIfAbsent *)

Put(c) == rows' = [rows EXCEPT ![request[c].submission] = Key(c)]

AppendNew(c) ==
  /\ phase[c] = "appending"
  /\ rows[request[c].submission] = Nothing
  /\ Put(c)
  /\ Reply(c, "stored")
  /\ UNCHANGED <<blob, durable, request, requests, losses>>

\* MUTANT: ON CONFLICT DO UPDATE: the record kept is the last one.
AppendReplacing(c) ==
  /\ phase[c] = "appending"
  /\ rows[request[c].submission] # Nothing
  /\ Put(c)
  /\ Reply(c, "kept")
  /\ UNCHANGED <<blob, durable, request, requests, losses>>

\* The submission is held already, perhaps with another recording: the first is kept.
AppendKept(c) ==
  /\ phase[c] = "appending"
  /\ rows[request[c].submission] # Nothing
  /\ Reply(c, "kept")
  /\ UNCHANGED <<blob, durable, rows, request, requests, losses>>

\* The inbox fails, with or without the record stored; the recording stays.
AppendFails(c) ==
  /\ phase[c] = "appending"
  /\ \/ rows[request[c].submission] = Nothing /\ Put(c)
     \/ UNCHANGED rows
  /\ Reply(c, "unavailable")
  /\ UNCHANGED <<blob, durable, request, requests, losses>>

----------------------------------------------------------------------------
(* Crashes *)

\* No request is answered any more; temporary files stay behind, under names of no use.
ForgetRequests ==
  /\ phase' = [c \in Senders |-> "idle"]
  /\ temp' = [c \in Senders |-> "absent"]
  /\ answer' = [c \in Senders |-> IF phase[c] = "idle" THEN answer[c] ELSE "unavailable"]
  /\ UNCHANGED <<rows, request, requests>>

ProcessDies ==
  /\ \E c \in Senders : phase[c] # "idle"
  /\ ForgetRequests
  /\ UNCHANGED <<blob, durable, losses>>

\* What the device may hold of a recording: a name that was not synced may be gone, bytes
\* that were not synced too.
Survivors(k) ==
  (IF durable[k] THEN {} ELSE {"absent"}) \cup
  (IF blob[k] = "cached" THEN {"lost", "whole"} ELSE {blob[k]})

PowerLost ==
  /\ losses < Losses
  /\ losses' = losses + 1
  /\ ForgetRequests
  /\ blob' \in {b \in [Recordings -> Contents] : \A k \in Recordings : b[k] \in Survivors(k)}
  /\ durable' = [k \in Recordings |-> blob'[k] # "absent"]

Next ==
  \/ \E c \in Senders :
       \/ \E s \in Submissions, k \in Recordings : Send(c, s, k)
       \/ FindStored(c)
       \/ OpenTemporary(c)
       \/ Write(c)
       \/ Flush(c)
       \/ Rename(c)
       \/ SyncDirectory(c)
       \/ StoreFails(c)
       \/ AppendNew(c)
       \/ AppendKept(c)
       \/ AppendFails(c)
  \/ ProcessDies
  \/ PowerLost

Spec == Init /\ [][Next]_vars

----------------------------------------------------------------------------
(* Properties *)

Requests == [submission : Submissions, recording : Recordings]

TypeOK ==
  /\ blob \in [Recordings -> Contents]
  /\ durable \in [Recordings -> BOOLEAN]
  /\ rows \in [Submissions -> Recordings \cup {Nothing}]
  /\ phase \in [Senders -> Phases]
  /\ request \in [Senders -> Requests \cup {Nothing}]
  /\ temp \in [Senders -> Contents]
  /\ answer \in [Senders -> {"none", "stored", "kept", "unavailable"}]
  /\ requests \in 0 .. MaxRequests
  /\ losses \in 0 .. Losses

\* What a reader finds under a name is nothing, the whole recording, or what a write made of
\* it that took fewer bytes than it was given (the count is ignored). Nothing else tears a
\* recording: no crash or loss of power between the steps, no failed step, no two requests
\* at one name (audio-blob-store.ts, "a crash mid-write may leave nothing under the key").
OnlyShortWritesTear == \A k \in Recordings : blob[k] \in {"absent", "cut"} \cup Complete

\* "must never leave a partial file under it" (audio-blob-store.ts), of every write.
NeverAPartialFile == \A k \in Recordings : blob[k] \in {"absent"} \cup Complete

\* "Must be durable before it resolves" (audio-blob-store.ts): what the inbox has a record
\* of is under its name, with every byte its write took, power losses included.
RecordingsOutlastPower ==
  \A s \in Submissions : rows[s] # Nothing => blob[rows[s]] \in {"cut"} \cup Complete

\* The same while the power lasts, whatever fails or dies: stage one is over before stage
\* two begins (audio/route.ts, D2). After a short write it is a part of the recording.
RowsHaveRecordings == losses = 0 => RecordingsOutlastPower

\* A 201 is about the recording that was sent, and stays true; a 200 about the one kept.
ReceiptMeansRecording ==
  \A c \in Senders :
    phase[c] = "idle" /\ answer[c] \in {"stored", "kept"}
      => LET kept == rows[request[c].submission]
         IN  /\ kept # Nothing
             /\ answer[c] = "stored" => kept = Key(c)
=============================================================================
