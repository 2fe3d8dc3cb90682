------------------------- MODULE AudioUploadProofs -------------------------
(***************************************************************************)
(* For any recordings, submissions and senders, any number of short        *)
(* writes, failures, deaths and losses of power: the temporary name keeps  *)
(* a recording from being seen before what its write took of it is on the  *)
(* device, and stage one is over before stage two begins.                  *)
(*                                                                         *)
(* InHand is what makes them inductive: how far a request has come says    *)
(* what is in its temporary file and what is under its name.               *)
(***************************************************************************)
EXTENDS AudioUpload, TLAPS

HasRequest ==
  \A c \in Senders :
    phase[c] # "idle" \/ answer[c] \in {"stored", "kept"} => request[c] \in Requests

\* What a crash leaves as it is: all that the write took, synced.
OnDevice == {"cut", "whole"}

InHand(c) ==
  /\ phase[c] = "flushing" => temp[c] \in {"cached", "cut"}
  /\ phase[c] = "renaming" => temp[c] \in OnDevice
  /\ phase[c] \in {"syncing", "appending"} => blob[Key(c)] \in OnDevice

Settled == \A k \in Recordings : blob[k] \in {"absent"} \cup OnDevice

IInv == TypeOK /\ HasRequest /\ ReceiptMeansRecording

WInv ==
  /\ Settled
  /\ \A c \in Senders : InHand(c)
  /\ RowsHaveRecordings

----------------------------------------------------------------------------
(* Types, requests and receipts *)

LEMMA InitInv == Init => IInv
  BY BoundsAssumption
     DEF Init, IInv, TypeOK, HasRequest, ReceiptMeansRecording, Contents, Phases

LEMMA SendInv ==
  ASSUME IInv, NEW c \in Senders, NEW s \in Submissions, NEW k \in Recordings, Send(c, s, k)
  PROVE  IInv'
<1> DEFINE new == [submission |-> s, recording |-> k]
<1>1. new \in Requests /\ request' = [request EXCEPT ![c] = new]
  BY DEF Send, Requests
<1> HIDE DEF new
<1>2. TypeOK' /\ HasRequest'
  BY <1>1, BoundsAssumption DEF Send, Go, IInv, TypeOK, HasRequest, Phases
<1>3. \A d \in Senders : phase'[d] = "idle" =>
        d # c /\ phase[d] = "idle" /\ answer'[d] = answer[d] /\ request'[d] = request[d]
  BY DEF Send, Go, IInv, TypeOK
<1>4. ReceiptMeansRecording'
  BY <1>3 DEF Send, IInv, ReceiptMeansRecording, Key
<1> QED
  BY <1>2, <1>4 DEF IInv

\* The steps of the blob store change no answer and no row.
LEMMA StoreInv ==
  ASSUME IInv, NEW c \in Senders,
         \/ FindStored(c) \/ OpenTemporary(c) \/ Write(c) \/ Flush(c) \/ Rename(c)
         \/ SyncDirectory(c)
  PROVE  IInv'
<1>1. /\ phase[c] # "idle" /\ rows' = rows /\ answer' = answer /\ request' = request
      /\ requests' = requests /\ losses' = losses
      /\ \E p \in Phases \ {"idle"} : phase' = [phase EXCEPT ![c] = p]
  BY DEF FindStored, OpenTemporary, Write, Flush, Rename, SyncDirectory, Go, Phases
<1>2. Key(c) \in Recordings
  BY <1>1 DEF IInv, HasRequest, Requests, Key
<1>3. /\ temp' \in [Senders -> Contents] /\ blob' \in [Recordings -> Contents]
      /\ durable' \in [Recordings -> BOOLEAN]
  BY <1>2
     DEF FindStored, OpenTemporary, Write, Flush, Rename, SyncDirectory, IInv, TypeOK,
         Contents
<1>4. HasRequest'
  BY <1>1 DEF IInv, TypeOK, HasRequest
<1>5. \A d \in Senders : phase'[d] = "idle" => phase[d] = "idle"
  BY <1>1 DEF IInv, TypeOK
<1>6. ReceiptMeansRecording'
  BY <1>1, <1>5 DEF IInv, ReceiptMeansRecording, Key
<1> QED
  BY <1>1, <1>3, <1>4, <1>6 DEF IInv, TypeOK

\* A record is put, or kept: what an earlier answer said stays true.
LEMMA RowsGrow ==
  ASSUME IInv, NEW c \in Senders, phase[c] # "idle",
         UNCHANGED rows \/ (rows[request[c].submission] = Nothing /\ Put(c))
  PROVE  /\ rows' \in [Submissions -> Recordings \cup {Nothing}]
         /\ \A s \in Submissions : rows[s] # Nothing => rows'[s] = rows[s]
<1>1. Key(c) \in Recordings /\ request[c].submission \in Submissions
  BY DEF IInv, HasRequest, Requests, Key
<1> QED
  BY <1>1 DEF Put, IInv, TypeOK

LEMMA ReplyInv ==
  ASSUME IInv, NEW c \in Senders, NEW a \in {"stored", "kept", "unavailable"},
         Reply(c, a), phase[c] # "idle",
         UNCHANGED rows \/ (rows[request[c].submission] = Nothing /\ Put(c)),
         a \in {"stored", "kept"} => rows'[request[c].submission] # Nothing,
         a = "stored" => rows'[request[c].submission] = Key(c),
         UNCHANGED <<blob, durable, request, requests, losses>>
  PROVE  IInv'
<1>1. /\ rows' \in [Submissions -> Recordings \cup {Nothing}]
      /\ \A s \in Submissions : rows[s] # Nothing => rows'[s] = rows[s]
  BY RowsGrow
<1>2. TypeOK'
  BY <1>1 DEF Reply, Go, IInv, TypeOK, Phases, Contents
<1>3. HasRequest'
  BY DEF Reply, Go, IInv, TypeOK, HasRequest
<1>4. rows \in [Submissions -> Recordings \cup {Nothing}]
  BY DEF IInv, TypeOK
<1>5. ReceiptMeansRecording'
  <2> SUFFICES ASSUME NEW d \in Senders, phase'[d] = "idle", answer'[d] \in {"stored", "kept"}
               PROVE  /\ rows'[request[d].submission] # Nothing
                      /\ answer'[d] = "stored" => rows'[request[d].submission] = Key(d)
    BY DEF ReceiptMeansRecording, Key
  <2>1. CASE d = c
    BY <2>1 DEF Reply, IInv, TypeOK
  <2>2. CASE d # c
    <3>1. /\ phase[d] = "idle" /\ answer[d] = answer'[d]
          /\ rows[request[d].submission] # Nothing
          /\ answer[d] = "stored" => rows[request[d].submission] = Key(d)
      BY <2>2 DEF Reply, Go, IInv, TypeOK, ReceiptMeansRecording
    <3>2. rows'[request[d].submission] = rows[request[d].submission]
      BY <1>4, <3>1 DEF Put, IInv, TypeOK, HasRequest, Requests
    <3> QED
      BY <3>1, <3>2
  <2> QED
    BY <2>1, <2>2
<1> QED
  BY <1>2, <1>3, <1>5 DEF IInv

LEMMA AnswerInv ==
  ASSUME IInv, NEW c \in Senders,
         StoreFails(c) \/ AppendNew(c) \/ AppendKept(c) \/ AppendFails(c)
  PROVE  IInv'
<1>1. CASE StoreFails(c) \/ AppendFails(c)
  <2>1. /\ phase[c] # "idle" /\ Reply(c, "unavailable")
        /\ UNCHANGED rows \/ (rows[request[c].submission] = Nothing /\ Put(c))
        /\ UNCHANGED <<blob, durable, request, requests, losses>>
    BY <1>1 DEF StoreFails, AppendFails
  <2> QED
    BY <2>1, ReplyInv
<1>2. CASE AppendNew(c)
  <2>1. Key(c) \in Recordings /\ request[c].submission \in Submissions
    BY <1>2 DEF AppendNew, IInv, HasRequest, Requests, Key
  <2>2. rows'[request[c].submission] = Key(c) /\ Key(c) # Nothing
    BY <1>2, <2>1, NothingAssumption DEF AppendNew, Put, IInv, TypeOK
  <2> QED
    BY <1>2, <2>2, ReplyInv DEF AppendNew
<1>3. CASE AppendKept(c)
  <2>1. /\ phase[c] # "idle" /\ Reply(c, "kept") /\ UNCHANGED rows
        /\ rows'[request[c].submission] # Nothing
        /\ UNCHANGED <<blob, durable, request, requests, losses>>
    BY <1>3 DEF AppendKept
  <2> QED
    BY <2>1, ReplyInv
<1> QED
  BY <1>1, <1>2, <1>3

LEMMA ForgottenInv ==
  ASSUME IInv, ForgetRequests, blob' \in [Recordings -> Contents],
         durable' \in [Recordings -> BOOLEAN], losses' \in 0 .. Losses
  PROVE  IInv'
<1>1. TypeOK'
  BY DEF ForgetRequests, IInv, TypeOK, Phases, Contents
<1>2. HasRequest'
  BY DEF ForgetRequests, IInv, HasRequest
<1>3. \A d \in Senders : answer'[d] \in {"stored", "kept"} =>
        phase[d] = "idle" /\ answer'[d] = answer[d]
  BY DEF ForgetRequests
<1>4. ReceiptMeansRecording'
  BY <1>3 DEF ForgetRequests, IInv, ReceiptMeansRecording, Key
<1> QED
  BY <1>1, <1>2, <1>4 DEF IInv

LEMMA NextInv == IInv /\ [Next]_vars => IInv'
<1> SUFFICES ASSUME IInv, [Next]_vars PROVE IInv'
  OBVIOUS
<1>1. CASE ProcessDies
  BY <1>1, ForgottenInv DEF ProcessDies, IInv, TypeOK
<1>2. CASE PowerLost
  <2>1. losses' \in 0 .. Losses
    BY <1>2, BoundsAssumption DEF PowerLost, IInv, TypeOK
  <2>2. blob' \in [Recordings -> Contents] /\ durable' \in [Recordings -> BOOLEAN]
    BY <1>2 DEF PowerLost
  <2> QED
    BY <1>2, <2>1, <2>2, ForgottenInv DEF PowerLost
<1>3. CASE UNCHANGED vars
  BY <1>3 DEF vars, IInv, TypeOK, HasRequest, ReceiptMeansRecording, Key
<1> QED
  BY <1>1, <1>2, <1>3, SendInv, StoreInv, AnswerInv DEF Next

LEMMA Invariant == Spec => []IInv
  BY InitInv, NextInv, PTL DEF Spec

\* Type correctness of the store, the inbox and the requests (audio/route.ts).
THEOREM TypeCorrect == Spec => []TypeOK
  BY Invariant, PTL DEF IInv

\* What a receipt says of a recording stays true, whatever fails, dies or is sent again
\* (audio/route.ts, the answers of POST).
THEOREM ReceiptsMeanRecordings == Spec => []ReceiptMeansRecording
  BY Invariant, PTL DEF IInv

----------------------------------------------------------------------------
(* What is under the names *)

LEMMA InitSettled == Init => WInv
  BY DEF Init, WInv, Settled, InHand, RowsHaveRecordings, RecordingsOutlastPower

\* Steps of one request that leave rows alone and, if they touch a name, put under it what
\* the device has.
LEMMA StoreStepSettled ==
  ASSUME IInv, WInv, NEW c \in Senders,
         \/ FindStored(c) \/ OpenTemporary(c) \/ Write(c) \/ Flush(c) \/ Rename(c)
         \/ SyncDirectory(c)
  PROVE  WInv'
<1>1. Key(c) \in Recordings
  BY DEF IInv, HasRequest, Requests, Key, FindStored, OpenTemporary, Write, Flush,
         Rename, SyncDirectory
<1>2. /\ rows' = rows /\ request' = request /\ losses' = losses
      /\ \A d \in Senders : d # c => phase'[d] = phase[d] /\ temp'[d] = temp[d]
  BY DEF FindStored, OpenTemporary, Write, Flush, Rename, SyncDirectory, Go, IInv, TypeOK
<1>3. blob' = blob \/ \E b \in OnDevice : blob' = [blob EXCEPT ![Key(c)] = b]
  BY DEF FindStored, OpenTemporary, Write, Flush, Rename, SyncDirectory, WInv, InHand,
         OnDevice
<1>4. /\ Settled'
      /\ \A k \in Recordings : blob[k] \in OnDevice => blob'[k] \in OnDevice
  BY <1>1, <1>3 DEF WInv, Settled, IInv, TypeOK
<1>5. InHand(c)'
  <2>1. CASE FindStored(c)
    BY <1>1, <2>1
       DEF FindStored, Go, InHand, OnDevice, WInv, Settled, IInv, TypeOK, Key
  <2>2. CASE OpenTemporary(c) \/ Write(c) \/ Flush(c)
    BY <2>2 DEF OpenTemporary, Write, Flush, Go, InHand, OnDevice, WInv, IInv, TypeOK, Key
  <2>3. CASE Rename(c)
    BY <1>1, <2>3 DEF Rename, Go, InHand, WInv, IInv, TypeOK, Key
  <2>4. CASE SyncDirectory(c)
    BY <2>4 DEF SyncDirectory, Go, InHand, WInv, IInv, TypeOK, Key
  <2> QED
    BY <2>1, <2>2, <2>3, <2>4
<1>6. \A d \in Senders : d # c => InHand(d)'
  <2> SUFFICES ASSUME NEW d \in Senders, d # c PROVE InHand(d)'
    OBVIOUS
  <2>1. phase[d] \in {"syncing", "appending"} => Key(d) \in Recordings
    BY DEF IInv, HasRequest, Requests, Key
  <2> QED
    BY <1>2, <1>4, <2>1 DEF InHand, WInv, Key
<1>7. RowsHaveRecordings'
  BY <1>2, <1>4
     DEF RowsHaveRecordings, RecordingsOutlastPower, WInv, Settled, OnDevice, IInv, TypeOK,
         Complete
<1> QED
  BY <1>4, <1>5, <1>6, <1>7 DEF WInv

\* Steps that leave what is under the names alone, and end the request or begin one.
LEMMA OuterStepSettled ==
  ASSUME IInv, WInv, NEW c \in Senders,
         \/ \E s \in Submissions, k \in Recordings : Send(c, s, k)
         \/ StoreFails(c) \/ AppendNew(c) \/ AppendKept(c) \/ AppendFails(c)
  PROVE  WInv'
<1>1. /\ blob' = blob /\ losses' = losses
      /\ phase'[c] \in {"idle", "storing"}
      /\ \A d \in Senders : d # c => /\ phase'[d] = phase[d] /\ temp'[d] = temp[d]
                                     /\ request'[d] = request[d]
  BY DEF Send, StoreFails, AppendNew, AppendKept, AppendFails, Reply, Go, IInv, TypeOK
<1>2. Settled'
  BY <1>1 DEF WInv, Settled
<1>3. \A d \in Senders : InHand(d)'
  BY <1>1 DEF WInv, InHand, Key
<1>4. \/ rows' = rows
      \/ phase[c] = "appending" /\ rows' = [rows EXCEPT ![request[c].submission] = Key(c)]
  BY DEF Send, StoreFails, AppendNew, AppendKept, AppendFails, Put
<1>5. \A s \in Submissions :
        \/ rows'[s] = rows[s]
        \/ blob[rows'[s]] \in OnDevice
  BY <1>4 DEF WInv, InHand, IInv, TypeOK
<1>6. RowsHaveRecordings'
  BY <1>1, <1>5 DEF RowsHaveRecordings, RecordingsOutlastPower, WInv, OnDevice, Complete
<1> QED
  BY <1>2, <1>3, <1>6 DEF WInv

\* A crash ends every request; of whole recordings the device keeps all or nothing.
LEMMA CrashSettled ==
  ASSUME IInv, WInv, ProcessDies \/ PowerLost
  PROVE  WInv'
<1>1. rows' = rows /\ \A c \in Senders : phase'[c] = "idle"
  BY DEF ProcessDies, PowerLost, ForgetRequests
<1>2. (blob' = blob /\ losses' = losses) \/ (losses' # 0 /\ Settled')
  <2>1. CASE ProcessDies
    BY <2>1 DEF ProcessDies
  <2>2. CASE PowerLost
    <3>1. \A k \in Recordings : blob'[k] \in {"absent"} \cup OnDevice
      BY <2>2 DEF PowerLost, Survivors, WInv, Settled, OnDevice
    <3>2. losses' # 0
      BY <2>2 DEF PowerLost, IInv, TypeOK
    <3> QED
      BY <3>1, <3>2 DEF Settled
  <2> QED
    BY <2>1, <2>2
<1>3. \A c \in Senders : InHand(c)'
  BY <1>1 DEF InHand
<1>4. Settled'
  BY <1>2 DEF WInv, Settled
<1>5. RowsHaveRecordings'
  BY <1>1, <1>2 DEF WInv, RowsHaveRecordings, RecordingsOutlastPower
<1> QED
  BY <1>3, <1>4, <1>5 DEF WInv

LEMMA NextSettled == IInv /\ WInv /\ [Next]_vars => WInv'
<1> SUFFICES ASSUME IInv, WInv, [Next]_vars PROVE WInv'
  OBVIOUS
<1>1. CASE UNCHANGED vars
  BY <1>1
     DEF vars, WInv, Settled, InHand, RowsHaveRecordings, RecordingsOutlastPower, Key
<1> QED
  BY <1>1, StoreStepSettled, OuterStepSettled, CrashSettled DEF Next

LEMMA SettledInvariant == Spec => []WInv
  BY NextSettled, InitSettled, Invariant, PTL DEF Spec

\* Nothing but a write that took fewer bytes than it was given tears a recording: no
\* interleaving of two requests, no failed step, no death and no number of power losses
\* (file-audio-blob-store.ts, store).
THEOREM NothingElseTears == Spec => []OnlyShortWritesTear
<1>1. WInv => OnlyShortWritesTear
  BY DEF WInv, Settled, OnDevice, OnlyShortWritesTear, Complete
<1> QED
  BY <1>1, SettledInvariant, PTL

\* While the power lasts, a record never refers to a recording the store does not have, and
\* what it has is every byte that the write of it took (audio/route.ts, the two stages).
THEOREM RecordsHaveRecordings == Spec => []RowsHaveRecordings
<1>1. WInv => RowsHaveRecordings
  BY DEF WInv
<1> QED
  BY <1>1, SettledInvariant, PTL
=============================================================================
