----------------------------- MODULE FileInbox -----------------------------
(***************************************************************************)
(* adapters/persistence/file-submission-inbox-store.ts: the rollback path  *)
(* for the inbox table, called by the same routes.  One process, one write *)
(* queue per directory; a task reads the file, and appends and syncs one   *)
(* line if it holds none of the submission.                                *)
(*                                                                         *)
(* Unlike the lifecycle file this one skips a line it cannot read, so that *)
(* one damaged line does not block every later submission.                 *)
(*                                                                         *)
(* InboxProofs extends this module and PostgresInbox; where both have a    *)
(* definition of one kind, the one of this store is named for the file.    *)
(***************************************************************************)
EXTENDS InboxRoutes, AppendOnlyFile

CONSTANTS
  Cuts,         \* the extents a write that fails may have reached
  Losses        \* bound: how many times the machine may lose power

ASSUME CutsAssumption == Cuts \subseteq Extents \ {"whole"}
ASSUME LossesAssumption == Losses \in Nat

VARIABLES
  file,         \* what a read of the file returns (the page cache)
  disk,         \* the part of it that a power loss cannot take
  queue,        \* writeQueues.get(directory): senders whose task runs or waits
  losses        \* how often the power was lost

fileVars == <<file, disk, queue, losses, phase, sent, answer, nextReceipt, told>>

LinesOf(f, s) == {i \in Reads(f) : f.lines[i].submission = s}

HeldIn(f, s) == LinesOf(f, s) # {}

FirstOf(f, s) == f.lines[CHOOSE i \in LinesOf(f, s) : \A j \in LinesOf(f, s) : i <= j]

FileInit ==
  /\ file = EmptyFile /\ disk = EmptyFile
  /\ queue = <<>>
  /\ losses = 0
  /\ NothingSent

----------------------------------------------------------------------------
(* One append *)

\* MUTANT: previous.then(task) alone, so that a failed task stalls the queue behind it.
SettleStalling(c, a) ==
  /\ queue' = IF a.kind = "unavailable" THEN queue ELSE Tail(queue)
  /\ Reply(c, a)

\* The task of c is over: its promise settles and the next one in the queue runs.
Settle(c, a) ==
  /\ queue' = Tail(queue)
  /\ Reply(c, a)

Enqueue(c, s) ==
  /\ Post(c, s, "queued")
  /\ queue' = Append(queue, c)
  /\ UNCHANGED <<file, disk, losses>>

\* MUTANT: a queue per store; a store is built per request, so nothing waits.
RunningAlone(c) == TRUE

Running(c) == queue # <<>> /\ Head(queue) = c

\* The file cannot be read.
ReadFails(c) ==
  /\ Running(c) /\ phase[c] = "queued"
  /\ Settle(c, Plain("unavailable"))
  /\ UNCHANGED <<file, disk, losses>>

\* The submission has a line already: 200 with the receipt it holds.
FindExisting(c) ==
  /\ Running(c) /\ phase[c] = "queued"
  /\ HeldIn(file, sent[c].submission)
  /\ Settle(c, KeptAs(FirstOf(file, sent[c].submission)))
  /\ UNCHANGED <<file, disk, losses>>

\* MUTANT: the duplicate scan left out.
DecideAnyway(c) ==
  /\ Running(c) /\ phase[c] = "queued"
  /\ Step(c, "writing")
  /\ UNCHANGED <<file, disk, queue, losses>>

Decide(c) ==
  /\ Running(c) /\ phase[c] = "queued"
  /\ ~HeldIn(file, sent[c].submission)
  /\ Step(c, "writing")
  /\ UNCHANGED <<file, disk, queue, losses>>

Write(c) ==
  /\ phase[c] = "writing"
  /\ file' = AppendLine(file, sent[c], "whole")
  /\ Step(c, "syncing")
  /\ UNCHANGED <<disk, queue, losses>>

\* mkdir, open or writeFile rejects; what was written stays where it is.
WriteFails(c) ==
  /\ phase[c] = "writing"
  /\ \E cut \in Cuts : file' = AppendLine(file, sent[c], cut)
  /\ Settle(c, Plain("unavailable"))
  /\ UNCHANGED <<disk, losses>>

\* The line and the directory entry are on the device: 201.
Sync(c) ==
  /\ phase[c] = "syncing"
  /\ disk' = file
  /\ Settle(c, StoredAs(sent[c]))
  /\ UNCHANGED <<file, losses>>

\* One of the two syncs or closes rejects, with the line already in the file.
SyncFails(c) ==
  /\ phase[c] = "syncing"
  /\ disk' \in {disk, file}
  /\ Settle(c, Plain("unavailable"))
  /\ UNCHANGED <<file, losses>>

----------------------------------------------------------------------------
(* Crashes *)

\* The queue was in memory.  The sender whose line was being written learns at once
\* that nothing will answer, the others when they notice.
ForgetCalls ==
  LET writers == {c \in Senders : phase[c] \in {"writing", "syncing"}}
  IN  /\ queue' = <<>>
      /\ phase' = [c \in Senders |->
                     IF phase[c] = "idle" \/ c \in writers THEN "idle" ELSE "lost"]
      /\ answer' = [c \in Senders |->
                      IF c \in writers THEN Plain("unavailable") ELSE answer[c]]
      /\ UNCHANGED <<sent, nextReceipt, told>>

\* What the file may hold when everything stops: a write may be under way.
Interrupted ==
  {file} \cup {AppendLine(file, sent[c], cut) :
                 c \in {d \in Senders : phase[d] = "writing"}, cut \in Cuts}

ProcessDies ==
  /\ \E c \in Senders : phase[c] # "idle"
  /\ ForgetCalls
  /\ file' \in Interrupted
  /\ UNCHANGED <<disk, losses>>

PowerLost ==
  /\ losses < Losses
  /\ losses' = losses + 1
  /\ ForgetCalls
  /\ \E f \in Interrupted : file' \in Survivors(disk, f)
  /\ disk' = file'

ConnectionLost(c) ==
  /\ phase[c] = "lost"
  /\ Reply(c, Plain("unavailable"))
  /\ UNCHANGED <<file, disk, queue, losses>>

Task(c) ==
  \/ ReadFails(c) \/ FindExisting(c) \/ Decide(c) \/ Write(c) \/ WriteFails(c)
  \/ Sync(c) \/ SyncFails(c) \/ ConnectionLost(c)

FileNext ==
  \/ \E c \in Senders :
       \/ \E s \in Submissions : Enqueue(c, s)
       \/ ReadFails(c)
       \/ FindExisting(c)
       \/ Decide(c)
       \/ Write(c)
       \/ WriteFails(c)
       \/ Sync(c)
       \/ SyncFails(c)
       \/ ConnectionLost(c)
  \/ ProcessDies
  \/ PowerLost

FileSpec == FileInit /\ [][FileNext]_fileVars

\* A file operation ends, well or badly, and a process that died is started again.
FileFairSpec == FileSpec /\ \A c \in Senders : WF_fileVars(Task(c))

----------------------------------------------------------------------------
(* Properties *)

Files == [lines : Seq(Minted \cup {Damaged}), ended : BOOLEAN]

FileTypeOK ==
  /\ file \in Files /\ disk \in Files
  /\ queue \in Seq(Senders)
  /\ losses \in 0 .. Losses
  /\ RoutesOK({"queued", "writing", "syncing", "lost"})

\* Whatever is cut, lost or skipped, the file is lines, each a record that was sent or
\* damaged, and no submission is ever listed twice.
OneRecordEach ==
  /\ FileTypeOK
  /\ \A i, j \in Reads(file) : file.lines[i].submission = file.lines[j].submission => i = j

\* Nothing was taken from the file: no power loss, no line that cannot be read.
Intact == losses = 0 /\ ~HasDamage(file)

\* The file without the line whose append is not answered yet.
Settled ==
  IF \E c \in Senders : phase[c] = "syncing"
    THEN [file EXCEPT !.lines = SubSeq(@, 1, Len(@) - 1)] ELSE file

FilePort == INSTANCE SubmissionInbox WITH
  inbox <- [s \in Submissions |->
              IF HeldIn(Settled, s) THEN FirstOf(Settled, s) ELSE NoRecord],
  phase <- [c \in Senders |-> IF phase[c] = "idle" THEN "idle" ELSE "called"],
  late  <- {}

\* Until a line is damaged or the power lost, the file implements the same
\* put-if-absent inbox as the table.
FileImplements ==
  FilePort!Init /\ [][Intact' => [FilePort!Next]_(FilePort!vars)]_fileVars

\* "one damaged line cannot block every later submission": every request is answered.
EveryRequestAnswered == \A c \in Senders : phase[c] # "idle" ~> phase[c] = "idle"

RecordsIn(f) == {f.lines[i] : i \in Reads(f)}

\* "the record is durably appended before this answer is sent" (submissions/route.ts),
\* read as: a record that was acknowledged is one the inbox can read.
AcknowledgedReads == told \subseteq RecordsIn(file)

\* The same, read as: a record that was acknowledged is on the device.
AcknowledgedIsDurable == told \subseteq RecordsIn(disk)
=============================================================================
