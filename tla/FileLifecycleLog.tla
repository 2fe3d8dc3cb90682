-------------------------- MODULE FileLifecycleLog --------------------------
(***************************************************************************)
(* adapters/persistence/file-question-lifecycle-log.ts: the rollback path  *)
(* for the table.  One process, one write queue per directory; a task of   *)
(* the queue reads the whole file, decides, writes one line and syncs.     *)
(* The process may die at any point of it, the machine may lose power, a   *)
(* write may be cut short and a sync may fail.                             *)
(*                                                                         *)
(* LifecycleProofs extends this module and PostgresLifecycleLog; where     *)
(* both have a definition of one kind, this one is named for the file.     *)
(***************************************************************************)
EXTENDS ChangeRoute, AppendOnlyFile, FiniteSets

CONSTANTS
  Cuts,        \* the extents a write that fails may have reached
  Losses,      \* bound: how many times the machine may lose power
  MaxLines     \* bound: no call starts once the file has so many lines

ASSUME CutsAssumption == Cuts \subseteq Extents \ {"whole"}
ASSUME BoundsAssumption == Losses \in Nat /\ MaxLines \in Nat

Events ==
  [question : Questions, revision : Nat, previous : States, next : States,
   sequence : Nat]

VARIABLES
  file,      \* what a read of the file returns (the page cache)
  disk,      \* the part of it that a power loss cannot take
  queue,     \* writeQueues.get(directory): callers whose task runs or waits
  event,     \* event[c]: the event the running task of c decided to write
  applied,   \* auxiliary: the events answered with 200
  losses     \* how often the power was lost

fileVars == <<file, disk, queue, event, applied, losses, phase, request, answer, held>>

RecordsIn(f) == {f.lines[i] : i \in Reads(f)}

\* The places of a question's events.
EventsOf(f, q) == {i \in Reads(f) : f.lines[i].question = q}

\* latestPerQuestion: the highest revision, the first line of equal ones.
LatestOf(f, q) ==
  f.lines[CHOOSE i \in EventsOf(f, q) : \A j \in EventsOf(f, q) :
            \/ f.lines[j].revision < f.lines[i].revision
            \/ f.lines[j].revision = f.lines[i].revision /\ i <= j]

StateIn(f, q) == IF EventsOf(f, q) = {} THEN Seeded[q] ELSE LatestOf(f, q).next

FileSnapshot ==
  [q \in {e.question : e \in RecordsIn(file)} |->
     LET e == LatestOf(file, q) IN [state |-> e.next, sequence |-> e.sequence]]

\* The file without the line whose append is not answered yet.
Settled ==
  IF \E c \in Callers : phase[c] = "syncing"
    THEN [file EXCEPT !.lines = SubSeq(@, 1, Len(@) - 1)] ELSE file

\* events.length is the number of lines: a file with another line is refused.
NewEvent(f, r) ==
  [question |-> r.question,
   revision |-> IF EventsOf(f, r.question) = {} THEN 0
                ELSE LatestOf(f, r.question).revision + 1,
   previous |-> r.expected,
   next     |-> r.next,
   sequence |-> Len(f.lines) + 1]

FileInit ==
  /\ file = EmptyFile
  /\ disk = EmptyFile
  /\ queue = <<>>
  /\ event = [c \in Callers |-> NoRequest]
  /\ applied = {}
  /\ losses = 0
  /\ NothingAsked

----------------------------------------------------------------------------
(* One append *)

\* The task of c is over: its promise settles and the next one in the queue runs.
Settle(c, a) ==
  /\ queue' = Tail(queue)
  /\ Reply(c, a)
  /\ event' = [event EXCEPT ![c] = NoRequest]

\* A task ends: every open call about a question has now seen the state it settled in.
Witness ==
  held' = [c \in Callers |->
             IF phase[c] # "idle"
               THEN held[c] \cup {StateIn(file', request[c].question)} ELSE held[c]]

FileCall(c, r) ==
  /\ Len(file.lines) < MaxLines
  /\ Ask(c, r, StateIn(Settled, r.question))
  /\ UNCHANGED <<file, disk, queue, event, applied, losses>>

\* A request that is not storable never gets into the queue.
RefuseUnqueued(c) ==
  /\ Refuse(c)
  /\ UNCHANGED <<file, disk, queue, event, applied, losses>>

Enqueue(c) ==
  /\ phase[c] = "called"
  /\ Storable(request[c])
  /\ queue' = Append(queue, c)
  /\ phase' = [phase EXCEPT ![c] = "queued"]
  /\ UNCHANGED <<file, disk, event, request, answer, held, applied, losses>>

\* MUTANT: a queue per log instance; a log is built per request, so nothing waits.
RunningAlone(c) == TRUE

\* The task of c is the one at work: those behind it wait for its promise.
Running(c) == queue # <<>> /\ Head(queue) = c

\* readAll throws: a damaged line, or an error of the read itself.
ReadFails(c) ==
  /\ Running(c) /\ phase[c] = "queued"
  /\ Settle(c, Plain("unavailable"))
  /\ UNCHANGED <<file, disk, request, held, applied, losses>>

RefuseStale(c) ==
  /\ Running(c) /\ phase[c] = "queued"
  /\ ~HasDamage(file)
  /\ StateIn(file, request[c].question) # request[c].expected
  /\ Settle(c, Stale(StateIn(file, request[c].question)))
  /\ UNCHANGED <<file, disk, request, held, applied, losses>>

\* MUTANT: the expected state not compared with the current one.
DecideAnyway(c) ==
  /\ Running(c) /\ phase[c] = "queued"
  /\ ~HasDamage(file)
  /\ event' = [event EXCEPT ![c] = NewEvent(file, request[c])]
  /\ phase' = [phase EXCEPT ![c] = "writing"]
  /\ UNCHANGED <<file, disk, queue, request, answer, held, applied, losses>>

Decide(c) ==
  /\ Running(c) /\ phase[c] = "queued"
  /\ ~HasDamage(file)
  /\ StateIn(file, request[c].question) = request[c].expected
  /\ event' = [event EXCEPT ![c] = NewEvent(file, request[c])]
  /\ phase' = [phase EXCEPT ![c] = "writing"]
  /\ UNCHANGED <<file, disk, queue, request, answer, held, applied, losses>>

Write(c) ==
  /\ phase[c] = "writing"
  /\ file' = AppendLine(file, event[c], "whole")
  /\ phase' = [phase EXCEPT ![c] = "syncing"]
  /\ UNCHANGED <<disk, queue, event, request, answer, held, applied, losses>>

\* open or writeFile rejects; what was written stays where it is.
WriteFails(c) ==
  /\ phase[c] = "writing"
  /\ \E cut \in Cuts : file' = AppendLine(file, event[c], cut)
  /\ Settle(c, Plain("unavailable"))
  /\ UNCHANGED <<disk, request, applied, losses>>
  /\ Witness

\* MUTANT: appendFile, which resolves once the bytes are in the page cache.
SyncCached(c) ==
  /\ phase[c] = "syncing"
  /\ Settle(c, Applied(event[c].next))
  /\ applied' = applied \cup {event[c]}
  /\ UNCHANGED <<file, disk, request, losses>>
  /\ Witness

\* The line and the directory entry are on the device: only now 200.
Sync(c) ==
  /\ phase[c] = "syncing"
  /\ disk' = file
  /\ Settle(c, Applied(event[c].next))
  /\ applied' = applied \cup {event[c]}
  /\ UNCHANGED <<file, request, losses>>
  /\ Witness

\* One of the two syncs or closes rejects, with the line already in the file.
SyncFails(c) ==
  /\ phase[c] = "syncing"
  /\ disk' \in {disk, file}
  /\ Settle(c, Plain("unavailable"))
  /\ UNCHANGED <<file, request, applied, losses>>
  /\ Witness

----------------------------------------------------------------------------
(* Crashes *)

\* The queue was in memory; of those who waited, the one whose line was being written
\* learns at once that nothing will answer, the others when they notice.
ForgetCalls ==
  LET writers == {c \in Callers : phase[c] \in {"writing", "syncing"}}
  IN  /\ queue' = <<>>
      /\ phase' = [c \in Callers |->
                     IF phase[c] = "idle" \/ c \in writers THEN "idle" ELSE "lost"]
      /\ answer' = [c \in Callers |->
                      IF c \in writers THEN Plain("unavailable") ELSE answer[c]]
      /\ event' = [c \in Callers |-> NoRequest]
      /\ UNCHANGED <<request, applied>>

\* What the file may hold when everything stops: a write may be under way.
Interrupted ==
  {file} \cup {AppendLine(file, event[c], cut) :
                 c \in {d \in Callers : phase[d] = "writing"}, cut \in Cuts}

\* The process dies (or is redeployed); the kernel keeps what it was given.
ProcessDies ==
  /\ \E c \in Callers : phase[c] # "idle"
  /\ ForgetCalls
  /\ file' \in Interrupted
  /\ UNCHANGED <<disk, losses>>
  /\ Witness

PowerLost ==
  /\ losses < Losses
  /\ losses' = losses + 1
  /\ ForgetCalls
  /\ \E f \in Interrupted : file' \in Survivors(disk, f)
  /\ disk' = file'
  /\ Witness

ConnectionLost(c) ==
  /\ phase[c] = "lost"
  /\ Reply(c, Plain("unavailable"))
  /\ UNCHANGED <<file, disk, queue, event, request, held, applied, losses>>

Task(c) ==
  \/ RefuseUnqueued(c) \/ Enqueue(c) \/ ReadFails(c) \/ RefuseStale(c) \/ Decide(c)
  \/ Write(c) \/ WriteFails(c) \/ Sync(c) \/ SyncFails(c) \/ ConnectionLost(c)

FileNext ==
  \/ \E c \in Callers :
       \/ \E r \in Requests : FileCall(c, r)
       \/ RefuseUnqueued(c)
       \/ Enqueue(c)
       \/ ReadFails(c)
       \/ RefuseStale(c)
       \/ Decide(c)
       \/ Write(c)
       \/ WriteFails(c)
       \/ Sync(c)
       \/ SyncFails(c)
       \/ ConnectionLost(c)
  \/ ProcessDies
  \/ PowerLost

FileSpec == FileInit /\ [][FileNext]_fileVars

\* A file operation ends, well or badly, and a process that died is started again.
FileFairSpec == FileSpec /\ \A c \in Callers : WF_fileVars(Task(c))

----------------------------------------------------------------------------
(* Properties *)

Files == [lines : Seq(Events \cup {Damaged}), ended : BOOLEAN]

FileTypeOK ==
  /\ file \in Files /\ disk \in Files
  /\ queue \in Seq(Callers)
  /\ event \in [Callers -> Events \cup {NoRequest}]
  /\ applied \subseteq Events
  /\ losses \in 0 .. Losses
  /\ RouteOK({"queued", "writing", "syncing", "lost"})

\* The events of its question before line i.
Before(f, i) == {j \in Reads(f) : j < i /\ f.lines[j].question = f.lines[i].question}

Linked(f, i) ==
  LET e      == f.lines[i]
      before == Before(f, i)
  IN  /\ e.sequence = i
      /\ e.previous # e.next
      /\ e.revision = Cardinality(before)
      /\ IF before = {} THEN e.previous = Seeded[e.question]
         ELSE \E j \in before : /\ f.lines[j].next = e.previous
                                /\ \A k \in before : k <= j

\* "Equal to the line number, which is what makes a hand-read of the file agree with what
\* the application derived from it": every line that reads is numbered by its place and
\* continues its question's chain.
LogIsAChain == FileTypeOK /\ \A i \in Reads(file) : Linked(file, i)

\* "does not resolve until the operating system says it is on the storage device", and "a
\* silently mis-derived state is not [honest]": an event answered with 200 is read back
\* from what a power loss cannot take, or every read is refused for a damaged line.
NothingLostSilently == applied \subseteq RecordsIn(disk) \/ HasDamage(file)

FileRegister == INSTANCE LifecycleRegister WITH
  state <- [q \in Questions |-> StateIn(Settled, q)],
  phase <- [c \in Callers |-> IF phase[c] = "idle" THEN "idle" ELSE "called"],
  late  <- {}

\* The machine keeps its power, and every line reads.
Orderly == losses' = losses /\ ~HasDamage(file')

\* Until a line is damaged, and but for power losses, the file is the same register as the
\* table: an applied answer is one change made by this call, and no other answer is.
IsARegister ==
  FileRegister!Init /\ [][Orderly => [FileRegister!Next]_(FileRegister!vars)]_fileVars

\* And always, every call is answered: a broken predecessor does not stall the queue
\* behind it.
FileImplements == IsARegister /\ FileRegister!Answered

\* "reopening must not steal the turn" (content/open-questions.ts), on this adapter: while
\* the question being asked stays open, it stays the one being asked.
TurnIsKept ==
  [][file' # file /\ Orderly =>
       \A q \in Active(FileSnapshot) :
         q \in OpenIn(FileSnapshot') => q \in Active(FileSnapshot')]_fileVars

\* "Nothing here updates or deletes": what was read once is read ever after, until the
\* machine loses power.
NothingErased ==
  [][file' # file /\ losses' = losses =>
       \A i \in Reads(file) : i \in Reads(file') /\ file'.lines[i] = file.lines[i]]_fileVars
=============================================================================
