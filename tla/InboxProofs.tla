---------------------------- MODULE InboxProofs ----------------------------
(***************************************************************************)
(* Both stores of the inbox, for any submissions, senders and number of    *)
(* requests, and any number of losses of power: type correctness, one      *)
(* receipt or record per submission, and the refinement of the port's      *)
(* put-if-absent, which the file keeps until a line is damaged or the      *)
(* power lost.                                                             *)
(*                                                                         *)
(* On the table a request that reads back was refused by a row that is     *)
(* still there.  On the file the queue is a lock: who writes heads it, so  *)
(* that what it read is still what the file holds.                         *)
(***************************************************************************)
EXTENDS PostgresInbox, FileInbox, SequenceTheorems, TLAPS

----------------------------------------------------------------------------
(* The routes *)

LEMMA RecordIsItsFields ==
  ASSUME NEW r \in Minted
  PROVE  r = [submission |-> r.submission, receipt |-> r.receipt]
  BY DEF Minted

LEMMA NoRecordIsNotMinted ==
  ASSUME NEW steps, RoutesOK(steps)
  PROVE  Minted \subseteq Records /\ NoRecord \notin Minted
  BY NoRecordAssumption, MaxReceiptsAssumption DEF Minted, Records, RoutesOK

LEMMA PostKeepsRoutes ==
  ASSUME NEW steps, NEW step \in steps, RoutesOK(steps), BusyHasRecord,
         NEW c \in Senders, NEW s \in Submissions, Post(c, s, step)
  PROVE  /\ RoutesOK(steps)' /\ BusyHasRecord'
         /\ Minted \subseteq Minted'
         /\ \A d \in Senders : d # c => phase'[d] = phase[d] /\ sent'[d] = sent[d]
         /\ phase'[c] = step
<1> DEFINE new == [submission |-> s, receipt |-> nextReceipt]
<1>1. nextReceipt \in 1 .. MaxReceipts /\ nextReceipt' = nextReceipt + 1
  BY MaxReceiptsAssumption DEF Post, RoutesOK
<1>2. new \in Minted' /\ Minted \subseteq Minted' /\ nextReceipt' \in 1 .. MaxReceipts + 1
  BY <1>1, MaxReceiptsAssumption DEF Minted
<1>3. Plain("none") \in Answers
  BY DEF Plain, Answers
<1>4. phase' = [phase EXCEPT ![c] = step] /\ sent' = [sent EXCEPT ![c] = new]
  BY DEF Post
<1> HIDE DEF new
<1>5. RoutesOK(steps)'
  BY <1>2, <1>3, <1>4 DEF Post, RoutesOK
<1> QED
  BY <1>2, <1>4, <1>5 DEF RoutesOK, BusyHasRecord

LEMMA StepKeepsRoutes ==
  ASSUME NEW steps, NEW step \in steps, RoutesOK(steps), BusyHasRecord,
         NEW c \in Senders, phase[c] # "idle", Step(c, step)
  PROVE  /\ RoutesOK(steps)' /\ BusyHasRecord' /\ Minted' = Minted
         /\ \A d \in Senders : d # c => phase'[d] = phase[d]
         /\ phase'[c] = step
  BY DEF Step, RoutesOK, BusyHasRecord, Minted

\* What a reply leaves, whatever it says.
LEMMA ReplyLeaves ==
  ASSUME NEW steps, RoutesOK(steps), BusyHasRecord,
         NEW c \in Senders, NEW a \in Answers, Reply(c, a), told' \subseteq Minted
  PROVE  /\ RoutesOK(steps)' /\ BusyHasRecord' /\ Minted' = Minted
         /\ \A d \in Senders : d # c => phase'[d] = phase[d]
         /\ phase'[c] = "idle"
<1>1. Minted' = Minted
  BY DEF Reply, Minted
<1> QED
  BY <1>1 DEF Reply, RoutesOK, BusyHasRecord

\* With a receipt, it tells the one of the record given.
LEMMA ReplyTells ==
  ASSUME NEW steps, RoutesOK(steps), BusyHasRecord,
         NEW c \in Senders, NEW r \in Minted, r.submission = sent[c].submission,
         NEW a, a = StoredAs(r) \/ a = KeptAs(r), Reply(c, a)
  PROVE  /\ told' = told \cup {r}
         /\ RoutesOK(steps)' /\ BusyHasRecord' /\ Minted' = Minted
         /\ \A d \in Senders : d # c => phase'[d] = phase[d]
         /\ phase'[c] = "idle"
<1>1. a.kind \in {"stored", "kept"} /\ a.receipt = r.receipt /\ a \in Answers
  BY DEF Answers, Minted, StoredAs, KeptAs
<1>2. [submission |-> sent[c].submission, receipt |-> a.receipt] = r
  BY <1>1, RecordIsItsFields
<1>3. told' = told \cup {r}
  BY <1>1, <1>2 DEF Reply
<1> QED
  BY <1>1, <1>3, ReplyLeaves DEF RoutesOK

LEMMA ReplyTellsNothing ==
  ASSUME NEW steps, RoutesOK(steps), BusyHasRecord,
         NEW c \in Senders, Reply(c, Plain("unavailable"))
  PROVE  /\ told' = told
         /\ RoutesOK(steps)' /\ BusyHasRecord' /\ Minted' = Minted
         /\ \A d \in Senders : d # c => phase'[d] = phase[d]
         /\ phase'[c] = "idle"
<1>1. Plain("unavailable") \in Answers /\ Plain("unavailable").kind = "unavailable"
  BY DEF Plain, Answers
<1>2. told' = told
  BY <1>1 DEF Reply
<1> QED
  BY <1>1, <1>2, ReplyLeaves DEF RoutesOK

----------------------------------------------------------------------------
(* The table *)

ReadingIsHeld == \A c \in Senders : phase[c] = "reading" => Held(sent[c].submission)

IInv == TypeOK /\ BusyHasRecord /\ ReadingIsHeld /\ OneReceiptEach

\* The primary key leaves one choice.
LEMMA TheRow ==
  ASSUME OneReceiptEach, NEW r \in rows
  PROVE  Held(r.submission) /\ RowOf(r.submission) = r
  BY DEF OneReceiptEach, Held, RowOf

LEMMA HeldIsARow ==
  ASSUME NEW s, Held(s)
  PROVE  RowOf(s) \in rows /\ RowOf(s).submission = s
  BY DEF Held, RowOf

\* A record whose submission is not held may become a row.
LEMMA RowAdded ==
  ASSUME IInv, NEW r \in Minted, ~Held(r.submission), rows' = rows \cup {r},
         told' = told \/ told' = told \cup {r}
  PROVE  OneReceiptEach'
  BY DEF IInv, OneReceiptEach, Held

\* Rows are never deleted, so who reads back still finds one.
LEMMA ReadingKept ==
  ASSUME IInv, rows \subseteq rows', NEW c \in Senders, phase'[c] # "reading",
         \A d \in Senders : d # c => phase'[d] = phase[d] /\ sent'[d] = sent[d]
  PROVE  ReadingIsHeld'
  BY DEF IInv, ReadingIsHeld, Held

LEMMA InitInv == Init => IInv
  BY MaxReceiptsAssumption
     DEF Init, NothingSent, IInv, TypeOK, RoutesOK, BusyHasRecord, ReadingIsHeld,
         OneReceiptEach, Plain, Answers

LEMMA SendInv ==
  ASSUME IInv, NEW c \in Senders, NEW s \in Submissions, Send(c, s)
  PROVE  IInv'
<1>1. /\ RoutesOK({"inserting", "reading"})' /\ BusyHasRecord' /\ Minted \subseteq Minted'
      /\ \A d \in Senders : d # c => phase'[d] = phase[d] /\ sent'[d] = sent[d]
      /\ phase'[c] = "inserting"
  BY PostKeepsRoutes DEF Send, IInv, TypeOK
<1>2. ReadingIsHeld'
  BY <1>1, ReadingKept DEF Send
<1> QED
  BY <1>1, <1>2 DEF Send, Post, IInv, TypeOK, OneReceiptEach

LEMMA InsertInv ==
  ASSUME IInv, NEW c \in Senders, Insert(c)
  PROVE  IInv'
<1>1. sent[c] \in Minted
  BY DEF Insert, IInv, BusyHasRecord
<1>2. /\ told' = told \cup {sent[c]}
      /\ RoutesOK({"inserting", "reading"})' /\ BusyHasRecord' /\ Minted' = Minted
      /\ \A d \in Senders : d # c => phase'[d] = phase[d]
      /\ phase'[c] = "idle"
  BY <1>1, ReplyTells DEF Insert, IInv, TypeOK
<1>3. ReadingIsHeld'
  BY <1>2, ReadingKept DEF Insert, Reply
<1>4. OneReceiptEach'
  BY <1>1, <1>2, RowAdded DEF Insert
<1> QED
  BY <1>1, <1>2, <1>3, <1>4 DEF Insert, IInv, TypeOK

LEMMA ConflictInv ==
  ASSUME IInv, NEW c \in Senders, Conflict(c)
  PROVE  IInv'
<1>1. /\ RoutesOK({"inserting", "reading"})' /\ BusyHasRecord' /\ Minted' = Minted
      /\ \A d \in Senders : d # c => phase'[d] = phase[d]
  BY StepKeepsRoutes DEF Conflict, IInv, TypeOK
<1>2. ReadingIsHeld'
  BY <1>1 DEF Conflict, Step, IInv, ReadingIsHeld, Held
<1> QED
  BY <1>1, <1>2 DEF Conflict, Step, IInv, TypeOK, OneReceiptEach

LEMMA ReadBackInv ==
  ASSUME IInv, NEW c \in Senders, ReadBack(c)
  PROVE  IInv'
<1> DEFINE row == RowOf(sent[c].submission)
<1>1. row \in rows /\ row \in Minted /\ row.submission = sent[c].submission
  BY HeldIsARow DEF ReadBack, IInv, TypeOK, ReadingIsHeld
<1>2. Reply(c, KeptAs(row))
  BY DEF ReadBack
<1> HIDE DEF row
<1>3. /\ told' = told \cup {row}
      /\ RoutesOK({"inserting", "reading"})' /\ BusyHasRecord' /\ Minted' = Minted
      /\ \A d \in Senders : d # c => phase'[d] = phase[d]
      /\ phase'[c] = "idle"
  BY <1>1, <1>2, ReplyTells DEF IInv, TypeOK
<1>4. ReadingIsHeld'
  BY <1>3, ReadingKept DEF ReadBack, Reply
<1> QED
  BY <1>1, <1>3, <1>4 DEF ReadBack, IInv, TypeOK, OneReceiptEach

LEMMA GiveUpInv ==
  ASSUME IInv, NEW c \in Senders, Fail(c) \/ Abandon(c)
  PROVE  IInv'
<1>1. /\ told' = told
      /\ RoutesOK({"inserting", "reading"})' /\ BusyHasRecord' /\ Minted' = Minted
      /\ \A d \in Senders : d # c => phase'[d] = phase[d]
      /\ phase'[c] = "idle"
  BY ReplyTellsNothing DEF Fail, Abandon, IInv, TypeOK
<1>2. ReadingIsHeld'
  BY <1>1, ReadingKept DEF Fail, Abandon, Reply
<1>3. abandoned' \subseteq Minted
  BY DEF Fail, Abandon, IInv, TypeOK, BusyHasRecord
<1> QED
  BY <1>1, <1>2, <1>3 DEF Fail, Abandon, IInv, TypeOK, OneReceiptEach

LEMMA AbandonedInv ==
  ASSUME IInv, CommitAbandoned \/ DropAbandoned
  PROVE  IInv'
<1>1. PICK r \in abandoned :
        /\ \/ ~Held(r.submission) /\ rows' = rows \cup {r}
           \/ rows' = rows
        /\ abandoned' = abandoned \ {r}
        /\ UNCHANGED <<phase, sent, answer, nextReceipt, told>>
  BY DEF CommitAbandoned, DropAbandoned, routeVars
<1>2. r \in Minted
  BY DEF IInv, TypeOK
<1>3. OneReceiptEach'
  BY <1>1, <1>2, RowAdded DEF IInv, OneReceiptEach
<1>4. /\ RoutesOK({"inserting", "reading"})' /\ BusyHasRecord' /\ Minted' = Minted
  BY <1>1 DEF IInv, TypeOK, RoutesOK, BusyHasRecord, Minted
<1>5. ReadingIsHeld'
  BY <1>1 DEF IInv, ReadingIsHeld, Held
<1> QED
  BY <1>1, <1>2, <1>3, <1>4, <1>5 DEF IInv, TypeOK

LEMMA NextInv == IInv /\ [Next]_vars => IInv'
<1> SUFFICES ASSUME IInv, [Next]_vars PROVE IInv'
  OBVIOUS
<1>1. ASSUME NEW c \in Senders, NEW s \in Submissions, Send(c, s) PROVE IInv'
  BY <1>1, SendInv
<1>2. ASSUME NEW c \in Senders, Insert(c) PROVE IInv'
  BY <1>2, InsertInv
<1>3. ASSUME NEW c \in Senders, Conflict(c) PROVE IInv'
  BY <1>3, ConflictInv
<1>4. ASSUME NEW c \in Senders, ReadBack(c) PROVE IInv'
  BY <1>4, ReadBackInv
<1>5. ASSUME NEW c \in Senders, Fail(c) \/ Abandon(c) PROVE IInv'
  BY <1>5, GiveUpInv
<1>6. CASE UNCHANGED vars
  BY <1>6 DEF vars, IInv, TypeOK, RoutesOK, BusyHasRecord, ReadingIsHeld, OneReceiptEach, Held,
              Minted
<1> QED
  BY <1>1, <1>2, <1>3, <1>4, <1>5, <1>6, AbandonedInv DEF Next

LEMMA Invariant == Spec => []IInv
  BY InitInv, NextInv, PTL DEF Spec

\* Type correctness of the table, the requests and what they were told, for any number
\* of senders, submissions and requests (PostgresSubmissionInboxStore.appendIfAbsent).
THEOREM TypeCorrect == Spec => []TypeOK
  BY Invariant, PTL DEF IInv

\* However many deliveries and retries of a submission race, fail or outlive their
\* callers, every receipt given for it is the one of its only row.
THEOREM ReceiptsAgree == Spec => []OneReceiptEach
  BY Invariant, PTL DEF IInv

----------------------------------------------------------------------------
(* The table implements put-if-absent *)

\* The substitutions of the instance Port, by name.
PInbox == [s \in Submissions |-> IF Held(s) THEN RowOf(s) ELSE NoRecord]
PPhase == [c \in Senders |-> IF phase[c] = "idle" THEN "idle" ELSE "called"]

PVars == <<PInbox, PPhase, sent, answer, nextReceipt, abandoned>>

LEMMA InboxKept ==
  ASSUME rows' = rows
  PROVE  PInbox' = PInbox
  BY DEF PInbox, Held, RowOf

LEMMA PhaseMoves ==
  ASSUME NEW steps, RoutesOK(steps),
         NEW c \in Senders, NEW v, phase' = [phase EXCEPT ![c] = v]
  PROVE  PPhase' = [PPhase EXCEPT ![c] = IF v = "idle" THEN "idle" ELSE "called"]
  BY DEF PPhase, RoutesOK

\* A new row is the Put of its record.
LEMMA InsertIsPut ==
  ASSUME IInv, IInv', NEW r \in Minted, ~Held(r.submission), rows' = rows \cup {r}
  PROVE  Port!Put(r)
<1>1. r.submission \in Submissions /\ PInbox[r.submission] = NoRecord
  BY DEF PInbox, Minted
<1>2. Held(r.submission)' /\ RowOf(r.submission)' = r
  BY DEF IInv, OneReceiptEach, Held, RowOf
<1>3. \A s \in Submissions : s # r.submission => Held(s)' = Held(s)
  BY DEF Held
<1>4. \A s \in Submissions : s # r.submission /\ Held(s) => RowOf(s)' = RowOf(s)
  <2> SUFFICES ASSUME NEW s \in Submissions, s # r.submission, Held(s)
               PROVE  RowOf(s)' = RowOf(s)
    OBVIOUS
  <2>1. PICK x \in rows : x.submission = s
    BY DEF Held
  <2>2. RowOf(s) = x
    BY <2>1, TheRow DEF IInv
  <2>3. RowOf(s)' = x
    BY <2>1 DEF IInv, OneReceiptEach, RowOf
  <2> QED
    BY <2>2, <2>3
<1>5. PInbox' = [PInbox EXCEPT ![r.submission] = r]
  BY <1>1, <1>2, <1>3, <1>4 DEF PInbox
<1> QED
  BY <1>1, <1>5 DEF Port!Put, PInbox

LEMMA ReplyMaps ==
  ASSUME IInv, NEW c \in Senders, NEW a, Reply(c, a), phase[c] # "idle"
  PROVE  PPhase[c] = "called" /\ Port!Finish(c, a)
<1>1. PPhase' = [PPhase EXCEPT ![c] = "idle"] /\ PPhase[c] = "called"
  BY PhaseMoves DEF Reply, IInv, TypeOK, PPhase
<1> QED
  BY <1>1 DEF Reply, Port!Finish, PPhase

LEMMA InitMaps == Init => Port!Init
<1> SUFFICES ASSUME Init PROVE Port!Init
  OBVIOUS
<1>1. PInbox = [s \in Submissions |-> NoRecord] /\ PPhase = [c \in Senders |-> "idle"]
  BY DEF Init, NothingSent, PInbox, PPhase, Held
<1> QED
  BY <1>1 DEF Init, NothingSent, Port!Init, PInbox, PPhase, Plain, Port!Plain

LEMMA SendMaps ==
  ASSUME IInv, NEW c \in Senders, NEW s \in Submissions, Send(c, s)
  PROVE  Port!Send(c, s)
<1>1. PPhase' = [PPhase EXCEPT ![c] = "called"]
  BY DEF Send, Post, IInv, TypeOK, RoutesOK, PPhase
<1>3. PPhase[c] = "idle"
  BY DEF Send, Post, PPhase
<1>2. PInbox' = PInbox
  BY InboxKept DEF Send, Post
<1> QED
  BY <1>1, <1>2, <1>3 DEF Send, Post, Port!Send, PInbox, PPhase, Plain, Port!Plain

LEMMA InsertMaps ==
  ASSUME IInv, IInv', NEW c \in Senders, Insert(c)
  PROVE  Port!AnswerStored(c)
<1>1. Port!Put(sent[c])
  BY InsertIsPut DEF Insert, IInv, BusyHasRecord
<1>2. PICK a : a = StoredAs(sent[c])
  OBVIOUS
<1>3. PPhase[c] = "called" /\ Port!Finish(c, a)
  BY <1>2, ReplyMaps DEF Insert
<1> QED
  BY <1>1, <1>2, <1>3
     DEF Insert, Reply, Port!AnswerStored, Port!Finish, PInbox, PPhase, StoredAs, Port!StoredAs

LEMMA ReadBackMaps ==
  ASSUME IInv, NEW c \in Senders, ReadBack(c)
  PROVE  Port!AnswerKept(c)
<1> DEFINE row == RowOf(sent[c].submission)
<1>1. row \in Minted /\ PInbox[sent[c].submission] = row
  BY HeldIsARow DEF ReadBack, IInv, TypeOK, RoutesOK, ReadingIsHeld, BusyHasRecord, Minted, PInbox
<1>2. PInbox' = PInbox /\ row # NoRecord
  BY <1>1, InboxKept, NoRecordIsNotMinted DEF ReadBack, IInv, TypeOK
<1>3. PICK a : a = KeptAs(row)
  OBVIOUS
<1>4. PPhase[c] = "called" /\ Port!Finish(c, a)
  BY <1>3, ReplyMaps DEF ReadBack
<1> HIDE DEF row
<1> QED
  BY <1>1, <1>2, <1>3, <1>4
     DEF ReadBack, Reply, Port!AnswerKept, Port!Finish, PInbox, PPhase, KeptAs, Port!KeptAs

LEMMA GiveUpMaps ==
  ASSUME IInv, NEW c \in Senders, Fail(c) \/ Abandon(c)
  PROVE  Port!AnswerUnavailable(c)
<1>1. PPhase[c] = "called" /\ Port!Finish(c, Plain("unavailable")) /\ PInbox' = PInbox
  BY ReplyMaps, InboxKept DEF Fail, Abandon
<1> QED
  BY <1>1
     DEF Fail, Abandon, Reply, Port!AnswerUnavailable, PInbox, PPhase, Plain, Port!Plain

LEMMA AbandonedMaps ==
  ASSUME IInv, IInv', CommitAbandoned \/ DropAbandoned
  PROVE  \E r \in abandoned : Port!LateEffect(r)
<1>1. PICK r \in abandoned :
        /\ \/ ~Held(r.submission) /\ rows' = rows \cup {r}
           \/ rows' = rows
        /\ abandoned' = abandoned \ {r}
        /\ UNCHANGED <<phase, sent, answer, nextReceipt>>
  BY DEF CommitAbandoned, DropAbandoned, routeVars
<1>2. Port!Put(r) \/ PInbox' = PInbox
  BY <1>1, InsertIsPut, InboxKept DEF IInv, TypeOK, RoutesOK
<1>3. PPhase' = PPhase
  BY <1>1 DEF PPhase
<1> QED
  BY <1>1, <1>2, <1>3 DEF Port!LateEffect, PInbox, PPhase

LEMMA StepMaps == IInv /\ IInv' /\ [Next]_vars => [Port!Next]_(Port!vars)
<1> SUFFICES ASSUME IInv, IInv', [Next]_vars
             PROVE  Port!Next \/ PVars' = PVars
  BY DEF Port!vars, PVars, PInbox, PPhase
<1>1. ASSUME NEW c \in Senders, \E s \in Submissions : Send(c, s) PROVE Port!Next
  BY <1>1, SendMaps DEF Port!Next
<1>2. ASSUME NEW c \in Senders, Insert(c) \/ ReadBack(c) \/ Fail(c) \/ Abandon(c)
      PROVE  Port!Next
  BY <1>2, InsertMaps, ReadBackMaps, GiveUpMaps DEF Port!Next
<1>3. ASSUME NEW c \in Senders, Conflict(c) PROVE PVars' = PVars
  <2>1. PInbox' = PInbox
    BY <1>3, InboxKept DEF Conflict, Step
  <2>2. PPhase' = PPhase
    BY <1>3 DEF Conflict, Step, PPhase, IInv, TypeOK, RoutesOK
  <2> QED
    BY <1>3, <2>1, <2>2 DEF Conflict, Step, PVars
<1>4. CASE CommitAbandoned \/ DropAbandoned
  BY <1>4, AbandonedMaps DEF Port!Next
<1>5. CASE UNCHANGED vars
  BY <1>5, InboxKept DEF vars, PVars, PPhase
<1> QED
  BY <1>1, <1>2, <1>3, <1>4, <1>5 DEF Next

\* The postgres inbox implements the port's put-if-absent: a 201 is the act of storing, a
\* 200 carries the receipt of the record that was there, a 503 promises nothing.
THEOREM TableImplementsPort == Spec => Port!Spec
  BY InitMaps, StepMaps, Invariant, PTL DEF Spec, Port!Spec

----------------------------------------------------------------------------
(* The file: who writes heads the queue *)

\* No two lines that read are of one submission.
Distinct(f) ==
  \A i, j \in Reads(f) : f.lines[i].submission = f.lines[j].submission => i = j

\* A last line without its newline is a line.
GoodFile(f) == f \in Files /\ Distinct(f) /\ (f.ended \/ f.lines # <<>>)

AtWork(c) == phase[c] \in {"writing", "syncing"}

LockOK ==
  \A c \in Senders :
    /\ AtWork(c) => Running(c)
    /\ phase[c] = "writing" => ~HeldIn(file, sent[c].submission)

\* The line that is being synced is the last one, unless it went on a cut one.
SyncingOK ==
  \A c \in Senders : phase[c] = "syncing" =>
    /\ file.lines # <<>>
    /\ file.lines[Len(file.lines)] \in {sent[c], Damaged}

FileSteps == {"queued", "writing", "syncing", "lost"}

FileIInv ==
  /\ queue \in Seq(Senders) /\ losses \in 0 .. Losses /\ RoutesOK(FileSteps)
  /\ BusyHasRecord
  /\ GoodFile(file) /\ GoodFile(disk)
  /\ LockOK /\ SyncingOK

LEMMA FileInvImplies == FileIInv => FileTypeOK /\ OneRecordEach
  BY DEF FileIInv, GoodFile, Distinct, FileTypeOK, OneRecordEach, FileSteps

----------------------------------------------------------------------------
(* Files *)

LEMMA EmptyIsGood == GoodFile(EmptyFile)
<1>1. EmptyFile \in Files
  BY DEF EmptyFile, Files
<1> QED
  BY <1>1 DEF GoodFile, Distinct, Reads, EmptyFile

\* A file stays good when records are minted.
LEMMA GoodStays ==
  ASSUME Minted \subseteq Minted', NEW f, GoodFile(f)
  PROVE  f \in Files' /\ Distinct(f)
<1>1. f \in Files' 
  BY DEF Files, GoodFile
<1> QED
  BY <1>1 DEF GoodFile

LEMMA AppendIsGood ==
  ASSUME NEW f, GoodFile(f), NEW r \in Minted, ~HeldIn(f, r.submission),
         NEW extent, NEW g, g = AppendLine(f, r, extent)
  PROVE  GoodFile(g)
<1>1. f.lines \in Seq(Minted \cup {Damaged}) /\ f.ended \in BOOLEAN
  BY DEF GoodFile, Files
<1>2. CASE extent = "nothing"
  BY <1>2 DEF AppendLine
<1>3. CASE extent # "nothing" /\ f.ended
  <2> DEFINE line == IF extent = "part" THEN Damaged ELSE r
  <2>1. g = [lines |-> Append(f.lines, line), ended |-> extent = "whole"]
    BY <1>3 DEF AppendLine
  <2>2. line \in Minted \cup {Damaged} /\ (line # Damaged => line = r)
    OBVIOUS
  <2> HIDE DEF line
  <2>3. g.lines = Append(f.lines, line) /\ g.lines \in Seq(Minted \cup {Damaged})
    BY <1>1, <2>1, <2>2
  <2>4. g \in Files /\ g.lines # <<>>
    BY <1>1, <2>1, <2>3 DEF Files
  <2>5. Distinct(g)
    <3> SUFFICES ASSUME NEW i \in Reads(g), NEW j \in Reads(g),
                        g.lines[i].submission = g.lines[j].submission
                 PROVE  i = j
      BY DEF Distinct
    <3>1. \A k \in DOMAIN g.lines :
            \/ k \in DOMAIN f.lines /\ g.lines[k] = f.lines[k]
            \/ k = Len(f.lines) + 1 /\ g.lines[k] = line
      BY <1>1, <2>2, <2>3
    <3>2. \A k \in Reads(g) :
            \/ k \in Reads(f) /\ g.lines[k] = f.lines[k]
            \/ k = Len(f.lines) + 1 /\ g.lines[k] = r
      BY <2>2, <3>1 DEF Reads
    <3>3. \A k \in Reads(f) : f.lines[k].submission # r.submission
      BY DEF HeldIn, LinesOf
    <3> QED
      BY <3>2, <3>3 DEF GoodFile, Distinct
  <2> QED
    BY <2>4, <2>5 DEF GoodFile
<1>4. CASE extent # "nothing" /\ ~f.ended
  <2>1. g = [lines |-> [f.lines EXCEPT ![Len(f.lines)] = Damaged], ended |-> extent = "whole"]
    BY <1>4 DEF AppendLine
  <2>2. f.lines # <<>> /\ Len(f.lines) \in 1 .. Len(f.lines)
    BY <1>1, <1>4 DEF GoodFile
  <2>3. /\ g.lines \in Seq(Minted \cup {Damaged})
        /\ DOMAIN g.lines = DOMAIN f.lines
        /\ \A k \in DOMAIN g.lines : g.lines[k] \in {f.lines[k], Damaged}
    BY <1>1, <2>1, <2>2, ExceptSeq
  <2>4. g \in Files /\ g.lines # <<>>
    BY <1>1, <2>1, <2>2, <2>3 DEF Files
  <2>5. Distinct(g)
    BY <2>3 DEF GoodFile, Distinct, Reads
  <2> QED
    BY <2>4, <2>5 DEF GoodFile
<1> QED
  BY <1>1, <1>2, <1>3, <1>4

\* What a loss of power leaves of two good files.
LEMMA SurvivorIsGood ==
  ASSUME NEW d, GoodFile(d), NEW f, GoodFile(f), NEW g \in Survivors(d, f)
  PROVE  GoodFile(g)
<1>1. f.lines \in Seq(Minted \cup {Damaged}) /\ d.lines \in Seq(Minted \cup {Damaged})
  BY DEF GoodFile, Files
<1>2. ASSUME NEW n \in Len(d.lines) + 1 .. Len(f.lines) - 1,
             g = [lines |-> SubSeq(f.lines, 1, n), ended |-> TRUE]
      PROVE  GoodFile(g)
  <2>1. /\ g.lines = SubSeq(f.lines, 1, n) /\ g.lines \in Seq(Minted \cup {Damaged})
        /\ DOMAIN g.lines \subseteq DOMAIN f.lines
        /\ \A k \in DOMAIN g.lines : g.lines[k] = f.lines[k]
    BY <1>1, <1>2
  <2>2. Distinct(g)
    BY <2>1 DEF GoodFile, Distinct, Reads
  <2> QED
    BY <1>2, <2>1, <2>2 DEF GoodFile, Files
<1>3. ASSUME NEW n \in Len(d.lines) .. Len(f.lines) - 1,
             g = [lines |-> Append(SubSeq(f.lines, 1, n), Damaged), ended |-> FALSE]
      PROVE  GoodFile(g)
  <2> DEFINE kept == SubSeq(f.lines, 1, n)
  <2>1. /\ kept \in Seq(Minted \cup {Damaged}) /\ Len(kept) = n
        /\ DOMAIN kept \subseteq DOMAIN f.lines
        /\ \A k \in DOMAIN kept : kept[k] = f.lines[k]
    BY <1>1
  <2> HIDE DEF kept
  <2>2. g.lines = Append(kept, Damaged) /\ g.ended = FALSE
    BY <1>3 DEF kept
  <2>3. /\ g.lines \in Seq(Minted \cup {Damaged}) /\ g.lines # <<>>
        /\ \A k \in DOMAIN g.lines :
             \/ k \in DOMAIN f.lines /\ g.lines[k] = f.lines[k]
             \/ g.lines[k] = Damaged
    BY <2>1, <2>2
  <2>4. Distinct(g)
    BY <2>3 DEF GoodFile, Distinct, Reads
  <2> QED
    BY <1>3, <2>3, <2>4 DEF GoodFile, Files
<1> QED
  BY <1>2, <1>3 DEF Survivors

----------------------------------------------------------------------------
(* The steps of the file, one by one *)

LEMMA FileInitInv == FileInit => FileIInv
<1> SUFFICES ASSUME FileInit PROVE FileIInv
  OBVIOUS
<1>1. queue \in Seq(Senders) /\ losses \in 0 .. Losses
  BY LossesAssumption DEF FileInit
<1>2. RoutesOK(FileSteps) /\ BusyHasRecord
  BY MaxReceiptsAssumption
     DEF FileInit, NothingSent, RoutesOK, FileSteps, BusyHasRecord, Plain, Answers
<1>3. LockOK /\ SyncingOK
  BY DEF FileInit, NothingSent, LockOK, SyncingOK, AtWork
<1> QED
  BY <1>1, <1>2, <1>3, EmptyIsGood DEF FileInit, FileIInv

\* The queue is a lock: beside the one that runs nobody is at work.
LEMMA OneAtWork ==
  ASSUME FileIInv, NEW c \in Senders, Running(c), NEW d \in Senders, AtWork(d)
  PROVE  d = c
  BY DEF FileIInv, LockOK, Running

LEMMA EnqueueInv ==
  ASSUME FileIInv, NEW c \in Senders, NEW s \in Submissions, Enqueue(c, s)
  PROVE  FileIInv'
<1>1. /\ RoutesOK(FileSteps)' /\ BusyHasRecord' /\ Minted \subseteq Minted'
      /\ \A d \in Senders : d # c => phase'[d] = phase[d] /\ sent'[d] = sent[d]
      /\ phase'[c] = "queued"
  BY PostKeepsRoutes DEF Enqueue, FileIInv, FileSteps
<1>2. GoodFile(file)' /\ GoodFile(disk)'
  BY <1>1, GoodStays DEF Enqueue, FileIInv, GoodFile, Distinct
<1>3. queue' \in Seq(Senders) /\ (queue # <<>> => queue' # <<>> /\ Head(queue') = Head(queue))
  BY DEF Enqueue, FileIInv
<1>4. LockOK'
  BY <1>1, <1>3 DEF Enqueue, FileIInv, LockOK, AtWork, Running, HeldIn, LinesOf
<1>5. SyncingOK'
  BY <1>1 DEF Enqueue, FileIInv, SyncingOK
<1> QED
  BY <1>1, <1>2, <1>3, <1>4, <1>5 DEF Enqueue, FileIInv

\* When the task that runs is over nobody is at work, whatever it wrote.
LEMMA TaskIsOver ==
  ASSUME FileIInv, NEW c \in Senders, Running(c), queue' = Tail(queue),
         RoutesOK(FileSteps)', BusyHasRecord', losses' = losses,
         \A d \in Senders : d # c => phase'[d] = phase[d], phase'[c] = "idle",
         GoodFile(file)', GoodFile(disk)'
  PROVE  FileIInv'
<1>1. \A d \in Senders : ~AtWork(d)'
  BY OneAtWork DEF AtWork
<1>2. LockOK' /\ SyncingOK'
  BY <1>1 DEF LockOK, SyncingOK, AtWork
<1>3. queue' \in Seq(Senders)
  BY DEF FileIInv, Running
<1> QED
  BY <1>2, <1>3 DEF FileIInv

LEMMA SettleInv ==
  ASSUME FileIInv, NEW c \in Senders, Running(c), Settle(c, Plain("unavailable")),
         losses' = losses, GoodFile(file'), GoodFile(disk')
  PROVE  FileIInv'
<1>1. /\ RoutesOK(FileSteps)' /\ BusyHasRecord' /\ Minted' = Minted
      /\ \A d \in Senders : d # c => phase'[d] = phase[d]
      /\ phase'[c] = "idle"
  BY ReplyTellsNothing DEF Settle, FileIInv
<1>2. GoodFile(file)' /\ GoodFile(disk)'
  BY <1>1 DEF GoodFile, Files, Distinct
<1> QED
  BY <1>1, <1>2, TaskIsOver DEF Settle

LEMMA SettleWithReceiptInv ==
  ASSUME FileIInv, NEW c \in Senders, Running(c), NEW r \in Minted,
         r.submission = sent[c].submission, NEW a, a = StoredAs(r) \/ a = KeptAs(r),
         Settle(c, a), losses' = losses, GoodFile(file'), GoodFile(disk')
  PROVE  FileIInv'
<1>1. /\ RoutesOK(FileSteps)' /\ BusyHasRecord' /\ Minted' = Minted
      /\ \A d \in Senders : d # c => phase'[d] = phase[d]
      /\ phase'[c] = "idle"
  BY ReplyTells DEF Settle, FileIInv
<1>2. GoodFile(file)' /\ GoodFile(disk)'
  BY <1>1 DEF GoodFile, Files, Distinct
<1> QED
  BY <1>1, <1>2, TaskIsOver DEF Settle

\* With one line of a submission, there is no choice of the first.
LEMMA FirstIsTheRecord ==
  ASSUME NEW f, GoodFile(f), NEW s, NEW i, i \in LinesOf(f, s)
  PROVE  /\ HeldIn(f, s) /\ FirstOf(f, s) = f.lines[i]
         /\ f.lines[i] \in Minted /\ f.lines[i].submission = s
<1>1. LinesOf(f, s) = {i} /\ f.lines[i].submission = s
  BY DEF GoodFile, Distinct, LinesOf
<1>2. f.lines \in Seq(Minted \cup {Damaged}) /\ i \in DOMAIN f.lines /\ f.lines[i] # Damaged
  BY DEF GoodFile, Files, LinesOf, Reads
<1>3. f.lines[i] \in Minted /\ i \in Nat
  BY <1>2
<1> QED
  BY <1>1, <1>3 DEF HeldIn, FirstOf

LEMMA FindExistingInv ==
  ASSUME FileIInv, NEW c \in Senders, FindExisting(c)
  PROVE  FileIInv'
<1> DEFINE r == FirstOf(file, sent[c].submission)
<1>1. r \in Minted /\ r.submission = sent[c].submission
  BY FirstIsTheRecord DEF FindExisting, HeldIn, FileIInv
<1> HIDE DEF r
<1> QED
  BY <1>1, SettleWithReceiptInv DEF FindExisting, FileIInv, r

LEMMA DecideInv ==
  ASSUME FileIInv, NEW c \in Senders, Decide(c)
  PROVE  FileIInv'
<1>1. /\ RoutesOK(FileSteps)' /\ BusyHasRecord' /\ Minted' = Minted
      /\ \A d \in Senders : d # c => phase'[d] = phase[d]
      /\ phase'[c] = "writing"
  BY StepKeepsRoutes DEF Decide, FileIInv, FileSteps
<1>2. GoodFile(file)' /\ GoodFile(disk)'
  BY <1>1 DEF Decide, FileIInv, GoodFile, Files, Distinct
<1>3. LockOK'
  BY <1>1 DEF Decide, Step, FileIInv, LockOK, AtWork, Running, HeldIn, LinesOf
<1>4. SyncingOK'
  BY <1>1 DEF Decide, Step, FileIInv, SyncingOK
<1> QED
  BY <1>1, <1>2, <1>3, <1>4 DEF Decide, FileIInv

LEMMA WriteInv ==
  ASSUME FileIInv, NEW c \in Senders, Write(c)
  PROVE  FileIInv'
<1>1. /\ RoutesOK(FileSteps)' /\ BusyHasRecord' /\ Minted' = Minted
      /\ \A d \in Senders : d # c => phase'[d] = phase[d]
      /\ phase'[c] = "syncing"
  BY StepKeepsRoutes DEF Write, FileIInv, FileSteps
<1>2. Running(c) /\ sent[c] \in Minted /\ ~HeldIn(file, sent[c].submission)
  BY DEF Write, FileIInv, LockOK, AtWork, BusyHasRecord
<1>3. GoodFile(file') /\ GoodFile(disk')
  BY <1>2, AppendIsGood DEF Write, FileIInv
<1>4. GoodFile(file)' /\ GoodFile(disk)'
  BY <1>1, <1>3 DEF GoodFile, Files, Distinct
<1>5. \A d \in Senders : AtWork(d)' => d = c
  BY <1>1, <1>2, OneAtWork DEF AtWork
<1>6. LockOK'
  BY <1>1, <1>2, <1>5 DEF Write, LockOK, Running, AtWork
<1>7. file'.lines # <<>> /\ file'.lines[Len(file'.lines)] \in {sent[c], Damaged}
  <2>1. file.lines \in Seq(Minted \cup {Damaged})
    BY DEF FileIInv, GoodFile, Files
  <2>2. CASE file.ended
    <3>1. file'.lines = Append(file.lines, sent[c])
      BY <2>2 DEF Write, AppendLine
    <3> QED
      BY <2>1, <3>1
  <2>3. CASE ~file.ended
    <3>1. file'.lines = [file.lines EXCEPT ![Len(file.lines)] = Damaged] /\ file.lines # <<>>
      BY <2>3 DEF Write, AppendLine, FileIInv, GoodFile
    <3> QED
      BY <2>1, <3>1
  <2> QED
    BY <2>2, <2>3
<1>8. SyncingOK'
  BY <1>5, <1>7 DEF Write, Step, SyncingOK, AtWork
<1> QED
  BY <1>1, <1>4, <1>6, <1>8 DEF Write, FileIInv

LEMMA WriteFailsInv ==
  ASSUME FileIInv, NEW c \in Senders, WriteFails(c)
  PROVE  FileIInv'
<1>1. Running(c) /\ sent[c] \in Minted /\ ~HeldIn(file, sent[c].submission)
  BY DEF WriteFails, FileIInv, LockOK, AtWork, BusyHasRecord
<1>2. GoodFile(file') /\ GoodFile(disk')
  BY <1>1, AppendIsGood DEF WriteFails, FileIInv
<1> QED
  BY <1>1, <1>2, SettleInv DEF WriteFails

LEMMA SyncInv ==
  ASSUME FileIInv, NEW c \in Senders, Sync(c)
  PROVE  FileIInv'
<1>1. Running(c) /\ sent[c] \in Minted
  BY DEF Sync, FileIInv, LockOK, AtWork, BusyHasRecord
<1> QED
  BY <1>1, SettleWithReceiptInv DEF Sync, FileIInv

LEMMA SyncFailsInv ==
  ASSUME FileIInv, NEW c \in Senders, SyncFails(c)
  PROVE  FileIInv'
<1>1. Running(c)
  BY DEF SyncFails, FileIInv, LockOK, AtWork
<1> QED
  BY <1>1, SettleInv DEF SyncFails, FileIInv

LEMMA ConnectionLostInv ==
  ASSUME FileIInv, NEW c \in Senders, ConnectionLost(c)
  PROVE  FileIInv'
<1>1. /\ RoutesOK(FileSteps)' /\ BusyHasRecord' /\ Minted' = Minted
      /\ \A d \in Senders : d # c => phase'[d] = phase[d]
      /\ phase'[c] = "idle"
  BY ReplyTellsNothing DEF ConnectionLost, FileIInv
<1>2. GoodFile(file)' /\ GoodFile(disk)'
  BY <1>1 DEF ConnectionLost, FileIInv, GoodFile, Files, Distinct
<1>3. LockOK' /\ SyncingOK'
  BY <1>1 DEF ConnectionLost, Reply, FileIInv, LockOK, AtWork, Running, HeldIn, LinesOf, SyncingOK
<1> QED
  BY <1>1, <1>2, <1>3 DEF ConnectionLost, FileIInv

\* What the file may hold when everything stops is good, too.
LEMMA InterruptedIsGood ==
  ASSUME FileIInv, NEW f \in Interrupted
  PROVE  GoodFile(f)
  BY AppendIsGood DEF Interrupted, FileIInv, LockOK, BusyHasRecord

LEMMA ForgetInv ==
  ASSUME FileIInv, ForgetCalls, losses' \in 0 .. Losses, GoodFile(file'), GoodFile(disk')
  PROVE  FileIInv'
<1>1. Minted' = Minted /\ Plain("unavailable") \in Answers
  BY DEF ForgetCalls, Minted, Plain, Answers
<1>2. RoutesOK(FileSteps)' /\ BusyHasRecord'
  BY <1>1 DEF ForgetCalls, FileIInv, RoutesOK, FileSteps, BusyHasRecord
<1>3. GoodFile(file)' /\ GoodFile(disk)'
  BY <1>1 DEF GoodFile, Files, Distinct
<1>4. LockOK' /\ SyncingOK'
  BY DEF ForgetCalls, LockOK, SyncingOK, AtWork
<1> QED
  BY <1>2, <1>3, <1>4 DEF ForgetCalls, FileIInv

LEMMA CrashInv ==
  ASSUME FileIInv, ProcessDies \/ PowerLost
  PROVE  FileIInv'
<1>1. CASE ProcessDies
  BY <1>1, ForgetInv, InterruptedIsGood DEF ProcessDies, FileIInv
<1>2. CASE PowerLost
  <2>1. GoodFile(file') /\ disk' = file'
    BY <1>2, InterruptedIsGood, SurvivorIsGood DEF PowerLost, FileIInv
  <2>2. losses' \in 0 .. Losses
    BY <1>2, LossesAssumption DEF PowerLost, FileIInv
  <2> QED
    BY <1>2, <2>1, <2>2, ForgetInv DEF PowerLost
<1> QED
  BY <1>1, <1>2

LEMMA FileNextInv == FileIInv /\ [FileNext]_fileVars => FileIInv'
<1> SUFFICES ASSUME FileIInv, [FileNext]_fileVars PROVE FileIInv'
  OBVIOUS
<1>1. ASSUME NEW c \in Senders, NEW s \in Submissions, Enqueue(c, s) PROVE FileIInv'
  BY <1>1, EnqueueInv
<1>2. ASSUME NEW c \in Senders, ReadFails(c) PROVE FileIInv'
  BY <1>2, SettleInv DEF ReadFails, FileIInv
<1>3. ASSUME NEW c \in Senders, FindExisting(c) \/ Decide(c) PROVE FileIInv'
  BY <1>3, FindExistingInv, DecideInv
<1>4. ASSUME NEW c \in Senders, Write(c) \/ WriteFails(c) PROVE FileIInv'
  BY <1>4, WriteInv, WriteFailsInv
<1>5. ASSUME NEW c \in Senders, Sync(c) \/ SyncFails(c) PROVE FileIInv'
  BY <1>5, SyncInv, SyncFailsInv
<1>6. ASSUME NEW c \in Senders, ConnectionLost(c) PROVE FileIInv'
  BY <1>6, ConnectionLostInv
<1>7. CASE UNCHANGED fileVars
  BY <1>7
     DEF fileVars, FileIInv, RoutesOK, BusyHasRecord, GoodFile, Files, Distinct, Minted,
         LockOK, SyncingOK, AtWork, Running, HeldIn, LinesOf
<1> QED
  BY <1>1, <1>2, <1>3, <1>4, <1>5, <1>6, <1>7, CrashInv DEF FileNext

LEMMA FileInvariant == FileSpec => []FileIInv
  BY FileInitInv, FileNextInv, PTL DEF FileSpec

\* Whatever write is cut, sync fails, process dies or power is lost, the file is lines of
\* records that were sent or damaged, and no submission is on two lines that read
\* (FileSubmissionInboxStore.appendIfAbsent).
THEOREM RecordsKeptApart == FileSpec => []OneRecordEach
  BY FileInvariant, FileInvImplies, PTL

----------------------------------------------------------------------------
(* Until a line is damaged or the power lost, the file implements put-if-absent *)

InboxOf(f) == [s \in Submissions |-> IF HeldIn(f, s) THEN FirstOf(f, s) ELSE NoRecord]

FVars == <<InboxOf(Settled), PPhase, sent, answer, nextReceipt>>

Syncing == \E c \in Senders : phase[c] = "syncing"

\* The inbox is in the lines, whether the last of them is ended or not.
LEMMA InboxIsItsLines ==
  ASSUME NEW f, NEW g, f.lines = g.lines
  PROVE  InboxOf(f) = InboxOf(g)
  BY DEF InboxOf, HeldIn, FirstOf, LinesOf, Reads

LEMMA SettledIsFile ==
  ASSUME ~Syncing
  PROVE  Settled = file
  BY DEF Syncing, Settled

LEMMA SettledKept ==
  ASSUME file' = file, Syncing' <=> Syncing
  PROVE  Settled' = Settled
  BY DEF Syncing, Settled

\* A record on a line of its own is the Put of it.
LEMMA AppendIsPut ==
  ASSUME NEW f, GoodFile(f), NEW g, GoodFile(g), NEW r, r \in Minted, r # Damaged,
         g.lines = Append(f.lines, r)
  PROVE  /\ InboxOf(f)[r.submission] = NoRecord
         /\ InboxOf(g) = [InboxOf(f) EXCEPT ![r.submission] = r]
<1> DEFINE last == Len(f.lines) + 1
<1>1. f.lines \in Seq(Minted \cup {Damaged}) /\ r.submission \in Submissions
  BY DEF GoodFile, Files, Minted
<1>2. /\ \A k \in Reads(f) : k \in Reads(g) /\ g.lines[k] = f.lines[k] /\ k # last
      /\ \A k \in Reads(g) : k \in Reads(f) \/ k = last
      /\ last \in Reads(g) /\ g.lines[last] = r
  BY <1>1 DEF Reads
<1> HIDE DEF last
<1>3. last \in LinesOf(g, r.submission)
  BY <1>2 DEF LinesOf
<1>4. ~HeldIn(f, r.submission)
  BY <1>2 DEF HeldIn, LinesOf, GoodFile, Distinct
<1>5. HeldIn(g, r.submission) /\ FirstOf(g, r.submission) = g.lines[last]
  BY ONLY <1>3, GoodFile(g), FirstIsTheRecord
<1>6. \A s \in Submissions : s # r.submission => LinesOf(g, s) = LinesOf(f, s)
  BY <1>2 DEF LinesOf
<1>7. ASSUME NEW s \in Submissions, s # r.submission, HeldIn(f, s)
      PROVE  HeldIn(g, s) /\ FirstOf(g, s) = FirstOf(f, s)
  <2>1. PICK i : i \in LinesOf(f, s)
    BY <1>7 DEF HeldIn
  <2>2. i \in LinesOf(g, s)
    BY <1>6, <1>7, <2>1
  <2>3. g.lines[i] = f.lines[i]
    BY <1>2, <2>1 DEF LinesOf
  <2>4. FirstOf(f, s) = f.lines[i]
    BY ONLY <2>1, GoodFile(f), FirstIsTheRecord
  <2>5. HeldIn(g, s) /\ FirstOf(g, s) = g.lines[i]
    BY ONLY <2>2, GoodFile(g), FirstIsTheRecord
  <2> QED
    BY <2>3, <2>4, <2>5
<1>8. ASSUME NEW s \in Submissions, s # r.submission
      PROVE  InboxOf(g)[s] = InboxOf(f)[s]
  <2>1. ~HeldIn(f, s) => ~HeldIn(g, s)
    BY <1>6, <1>8 DEF HeldIn
  <2> QED
    BY <1>7, <1>8, <2>1 DEF InboxOf
<1>9. InboxOf(f)[r.submission] = NoRecord /\ InboxOf(g)[r.submission] = r
  BY <1>1, <1>2, <1>4, <1>5 DEF InboxOf
<1> QED
  <2> DEFINE F == InboxOf(f)
             G == InboxOf(g)
  <2>1. /\ F = [s \in Submissions |-> F[s]] /\ G = [s \in Submissions |-> G[s]]
        /\ \A s \in Submissions : s # r.submission => G[s] = F[s]
        /\ G[r.submission] = r
    BY <1>8, <1>9 DEF InboxOf
  <2> HIDE DEF F, G
  <2>2. G = [F EXCEPT ![r.submission] = r]
    BY <2>1
  <2> QED
    BY <1>9, <2>2 DEF F, G

\* Every step that damages nothing leaves the lines or adds one.
LEMMA UndamagedAppend ==
  ASSUME NEW f, GoodFile(f), NEW r \in Minted, NEW extent, NEW g,
         g = AppendLine(f, r, extent), ~HasDamage(g)
  PROVE  \/ g.lines = f.lines /\ extent = "nothing"
         \/ g.lines = Append(f.lines, r) /\ r # Damaged
<1>1. f.lines \in Seq(Minted \cup {Damaged})
  BY DEF GoodFile, Files
<1>2. CASE extent = "nothing"
  BY <1>2 DEF AppendLine
<1>3. CASE extent # "nothing" /\ f.ended
  <2> DEFINE line == IF extent = "part" THEN Damaged ELSE r
  <2>1. g.lines = Append(f.lines, line)
    BY <1>3 DEF AppendLine
  <2>2. line # Damaged => line = r
    OBVIOUS
  <2>3. line \in Minted \cup {Damaged}
    OBVIOUS
  <2> HIDE DEF line
  <2>4. Len(f.lines) + 1 \in DOMAIN g.lines /\ g.lines[Len(f.lines) + 1] = line
    BY <1>1, <2>1, <2>3
  <2>5. line # Damaged
    BY <2>4 DEF HasDamage
  <2> QED
    BY <2>1, <2>2, <2>5
<1>4. CASE extent # "nothing" /\ ~f.ended
  <2>1. g.lines = [f.lines EXCEPT ![Len(f.lines)] = Damaged] /\ f.lines # <<>>
    BY <1>4 DEF AppendLine, GoodFile
  <2>2. Len(f.lines) \in DOMAIN g.lines /\ g.lines[Len(f.lines)] = Damaged
    BY <1>1, <2>1
  <2> QED
    BY <2>2 DEF HasDamage
<1> QED
  BY <1>2, <1>3, <1>4

\* With its line in the file, and whole, the answer to come is the Put of its record.
LEMMA SettledLacksLast ==
  ASSUME FileIInv, NEW c \in Senders, phase[c] = "syncing", ~HasDamage(file)
  PROVE  /\ InboxOf(Settled)[sent[c].submission] = NoRecord
         /\ InboxOf(file) = [InboxOf(Settled) EXCEPT ![sent[c].submission] = sent[c]]
<1> DEFINE n == Len(file.lines)
<1>1. file.lines \in Seq(Minted \cup {Damaged}) /\ file.lines # <<>> /\ file.ended \in BOOLEAN
  BY DEF FileIInv, GoodFile, Files, SyncingOK
<1>2. sent[c] \in Minted /\ file.lines[n] \in {sent[c], Damaged}
  BY DEF FileIInv, BusyHasRecord, SyncingOK
<1>3. n \in Nat \ {0} /\ n \in DOMAIN file.lines
  BY <1>1
<1>4. file.lines[n] # Damaged
  BY <1>3 DEF HasDamage
<1>5. Settled = [file EXCEPT !.lines = SubSeq(@, 1, n - 1)]
  BY DEF Settled
<1>6. Settled.lines = SubSeq(file.lines, 1, n - 1) /\ Settled.ended = file.ended
  BY <1>5 DEF FileIInv, GoodFile, Files
<1>7. /\ Settled.lines \in Seq(Minted \cup {Damaged}) /\ Len(Settled.lines) = n - 1
      /\ \A k \in DOMAIN Settled.lines :
           k \in DOMAIN file.lines /\ Settled.lines[k] = file.lines[k]
  BY <1>1, <1>3, <1>6
<1>8. file.lines = Append(Settled.lines, sent[c])
  BY <1>1, <1>2, <1>3, <1>4, <1>7
<1>9. Distinct(Settled)
  BY <1>7 DEF FileIInv, GoodFile, Distinct, Reads
<1>10. PICK f, g, r : /\ f = [lines |-> Settled.lines, ended |-> TRUE]
                     /\ g = file /\ r = sent[c]
  OBVIOUS
<1>11. GoodFile(f) /\ f.lines = Settled.lines
  BY <1>7, <1>9, <1>10 DEF GoodFile, Files, Distinct, Reads
<1>12. InboxOf(f) = InboxOf(Settled)
  BY <1>11, InboxIsItsLines
<1>13. GoodFile(g) /\ r \in Minted /\ r # Damaged /\ g.lines = Append(f.lines, r)
  BY <1>2, <1>4, <1>8, <1>10, <1>11 DEF FileIInv
<1>14. /\ InboxOf(f)[r.submission] = NoRecord
       /\ InboxOf(g) = [InboxOf(f) EXCEPT ![r.submission] = r]
  BY <1>11, <1>13, AppendIsPut
<1> QED
  BY <1>10, <1>12, <1>14

LEMMA FileReplyMaps ==
  ASSUME FileIInv, NEW c \in Senders, NEW a, Reply(c, a), phase[c] # "idle"
  PROVE  PPhase[c] = "called" /\ FilePort!Finish(c, a)
<1>1. PPhase' = [PPhase EXCEPT ![c] = "idle"] /\ PPhase[c] = "called"
  BY PhaseMoves DEF Reply, FileIInv, PPhase
<1> QED
  BY <1>1 DEF Reply, FilePort!Finish, PPhase

LEMMA FilePutMaps ==
  ASSUME NEW r, InboxOf(Settled)[r.submission] = NoRecord,
         InboxOf(Settled)' = [InboxOf(Settled) EXCEPT ![r.submission] = r]
  PROVE  FilePort!Put(r)
  BY DEF FilePort!Put, InboxOf

LEMMA FileUnavailableMaps ==
  ASSUME FileIInv, NEW c \in Senders, phase[c] # "idle", Reply(c, Plain("unavailable")),
         InboxOf(Settled)' = InboxOf(Settled) \/ FilePort!Put(sent[c])
  PROVE  FilePort!Next
<1>1. PPhase[c] = "called" /\ FilePort!Finish(c, Plain("unavailable"))
  BY FileReplyMaps
<1>2. FilePort!AnswerUnavailable(c)
  BY <1>1 DEF FilePort!AnswerUnavailable, InboxOf, PPhase, Plain, FilePort!Plain
<1> QED
  BY <1>2 DEF FilePort!Next

LEMMA FileInitMaps == FileInit => FilePort!Init
<1> SUFFICES ASSUME FileInit PROVE FilePort!Init
  OBVIOUS
<1>1. Settled = EmptyFile
  BY DEF FileInit, NothingSent, Settled
<1>2. Reads(EmptyFile) = {}
  BY DEF Reads, EmptyFile
<1>3. InboxOf(Settled) = [s \in Submissions |-> NoRecord]
  BY <1>1, <1>2 DEF InboxOf, HeldIn, LinesOf
<1>4. PPhase = [c \in Senders |-> "idle"]
  BY DEF FileInit, NothingSent, PPhase
<1> QED
  BY <1>3, <1>4
     DEF FileInit, NothingSent, FilePort!Init, InboxOf, PPhase, Plain, FilePort!Plain

LEMMA EnqueueMaps ==
  ASSUME FileIInv, NEW c \in Senders, NEW s \in Submissions, Enqueue(c, s)
  PROVE  FilePort!Next
<1>1. PPhase' = [PPhase EXCEPT ![c] = "called"] /\ PPhase[c] = "idle"
  BY DEF Enqueue, Post, FileIInv, RoutesOK, PPhase
<1>2. Syncing' = Syncing
  BY DEF Enqueue, Post, FileIInv, RoutesOK, Syncing
<1>3. Settled' = Settled
  BY <1>2, SettledKept DEF Enqueue
<1>4. InboxOf(Settled)' = InboxOf(Settled)
  BY <1>3, InboxIsItsLines DEF InboxOf, HeldIn, FirstOf, LinesOf, Reads
<1>5. FilePort!Send(c, s)
  BY <1>1, <1>4
     DEF Enqueue, Post, FilePort!Send, InboxOf, PPhase, Plain, FilePort!Plain
<1> QED
  BY <1>5 DEF FilePort!Next

\* A call that fails before the line, or whose connection is lost.
LEMMA FailsWithoutALine ==
  ASSUME FileIInv, NEW c \in Senders, phase[c] \in {"queued", "lost"},
         Reply(c, Plain("unavailable")), file' = file
  PROVE  FilePort!Next
<1>1. Syncing' = Syncing
  BY DEF Reply, FileIInv, RoutesOK, Syncing
<1>2. Settled' = Settled
  BY <1>1, SettledKept
<1>3. InboxOf(Settled)' = InboxOf(Settled)
  BY <1>2 DEF InboxOf, HeldIn, FirstOf, LinesOf, Reads
<1> QED
  BY <1>3, FileUnavailableMaps

LEMMA FindExistingMaps ==
  ASSUME FileIInv, NEW c \in Senders, FindExisting(c)
  PROVE  FilePort!Next
<1>1. ~Syncing /\ ~Syncing'
  <2>1. \A d \in Senders : ~AtWork(d)
    BY OneAtWork DEF FindExisting, AtWork
  <2> QED
    BY <2>1 DEF FindExisting, Settle, Reply, FileIInv, RoutesOK, Syncing, AtWork
<1>2. Settled = file /\ Settled' = Settled
  BY <1>1, SettledIsFile, SettledKept DEF FindExisting
<1>3. InboxOf(Settled)' = InboxOf(Settled)
  BY <1>2 DEF InboxOf, HeldIn, FirstOf, LinesOf, Reads
<1>4. PICK row : row = FirstOf(file, sent[c].submission)
  OBVIOUS
<1>5. row \in Minted /\ row # NoRecord
  BY <1>4, FirstIsTheRecord, NoRecordIsNotMinted DEF FindExisting, HeldIn, FileIInv
<1>6. sent[c].submission \in Submissions
  BY DEF FindExisting, FileIInv, BusyHasRecord, Minted
<1>7. InboxOf(Settled)[sent[c].submission] = row
  BY <1>2, <1>4, <1>6 DEF FindExisting, InboxOf
<1>8. PICK a : a = KeptAs(row)
  OBVIOUS
<1>9. PPhase[c] = "called" /\ FilePort!Finish(c, a)
  BY <1>4, <1>8, FileReplyMaps DEF FindExisting, Settle
<1>10. FilePort!AnswerKept(c)
  BY <1>3, <1>5, <1>7, <1>8, <1>9
     DEF FilePort!AnswerKept, FilePort!Finish, InboxOf, PPhase, KeptAs, FilePort!KeptAs
<1> QED
  BY <1>10 DEF FilePort!Next

LEMMA DecideStutters ==
  ASSUME FileIInv, NEW c \in Senders, Decide(c)
  PROVE  FVars' = FVars
<1>1. Syncing' = Syncing /\ PPhase' = PPhase
  BY DEF Decide, Step, FileIInv, RoutesOK, Syncing, PPhase
<1>2. Settled' = Settled
  BY <1>1, SettledKept DEF Decide
<1>3. InboxOf(Settled)' = InboxOf(Settled)
  BY <1>2 DEF InboxOf, HeldIn, FirstOf, LinesOf, Reads
<1> QED
  BY <1>1, <1>3 DEF Decide, Step, FVars

\* While one is at work on its line, nobody syncs another.
LEMMA WriterSyncsNothing ==
  ASSUME FileIInv, NEW c \in Senders, phase[c] = "writing"
  PROVE  ~Syncing /\ Settled = file
<1>1. \A d \in Senders : AtWork(d) => d = c
  BY OneAtWork DEF FileIInv, LockOK, AtWork
<1> QED
  BY <1>1, SettledIsFile DEF Syncing, AtWork

\* A line is not the inbox's before its append is answered.
LEMMA WriteStutters ==
  ASSUME FileIInv, NEW c \in Senders, Write(c), ~HasDamage(file')
  PROVE  FVars' = FVars
<1>1. sent[c] \in Minted /\ GoodFile(file)
  BY DEF Write, FileIInv, BusyHasRecord
<1>2. file.lines \in Seq(Minted \cup {Damaged})
  BY <1>1 DEF GoodFile, Files
<1>3. PICK f, g, r : f = file /\ g = file' /\ r = sent[c]
  OBVIOUS
<1>4. g = AppendLine(f, r, "whole") /\ ~HasDamage(g) /\ GoodFile(f) /\ r \in Minted
  BY <1>1, <1>3 DEF Write
<1>5. g.lines = Append(f.lines, r)
  BY <1>4, UndamagedAppend
<1>6. Settled' = [file' EXCEPT !.lines = SubSeq(@, 1, Len(@) - 1)]
  BY DEF Write, Step, FileIInv, RoutesOK, Settled
<1>7. file' = [lines |-> g.lines, ended |-> g.ended]
  BY <1>3, <1>4 DEF AppendLine
<1>8. (Settled').lines = SubSeq(g.lines, 1, Len(g.lines) - 1)
  BY <1>6, <1>7
<1>9. SubSeq(g.lines, 1, Len(g.lines) - 1) = f.lines
  BY <1>1, <1>2, <1>3, <1>5
<1>10. Settled = file
  BY WriterSyncsNothing DEF Write
<1>11. PICK a, b : a = Settled /\ b = Settled'
  OBVIOUS
<1>12. InboxOf(a) = InboxOf(b)
  BY <1>3, <1>8, <1>9, <1>10, <1>11, InboxIsItsLines
<1>13. InboxOf(Settled) = InboxOf(a) /\ InboxOf(Settled)' = InboxOf(b)
  BY <1>11 DEF InboxOf, HeldIn, FirstOf, LinesOf, Reads
<1>14. PPhase' = PPhase
  BY DEF Write, Step, FileIInv, RoutesOK, PPhase
<1> QED
  BY <1>12, <1>13, <1>14 DEF Write, Step, FVars

\* What an append that is cut, by a failure or a death, does to the inbox.
LEMMA CutMaps ==
  ASSUME FileIInv, NEW c \in Senders, phase[c] = "writing", NEW extent,
         file' = AppendLine(file, sent[c], extent), ~HasDamage(file'), ~Syncing'
  PROVE  InboxOf(Settled)' = InboxOf(Settled) \/ FilePort!Put(sent[c])
<1>1. sent[c] \in Minted /\ ~HeldIn(file, sent[c].submission) /\ GoodFile(file)
  BY DEF FileIInv, BusyHasRecord, LockOK
<1>2. PICK f, g, r : f = file /\ g = file' /\ r = sent[c]
  OBVIOUS
<1>3. /\ GoodFile(f) /\ r \in Minted /\ ~HeldIn(f, r.submission)
      /\ g = AppendLine(f, r, extent) /\ ~HasDamage(g)
  BY <1>1, <1>2
<1>4. Settled = f /\ Settled' = g
  BY <1>2, WriterSyncsNothing, SettledIsFile DEF Syncing, Settled
<1>5. InboxOf(Settled) = InboxOf(f) /\ InboxOf(Settled)' = InboxOf(g)
  BY <1>4 DEF InboxOf, HeldIn, FirstOf, LinesOf, Reads
<1>6. CASE g.lines = f.lines
  BY <1>5, <1>6, InboxIsItsLines
<1>7. CASE g.lines = Append(f.lines, r) /\ r # Damaged
  <2>1. GoodFile(g)
    BY <1>3, AppendIsGood
  <2>2. /\ InboxOf(f)[r.submission] = NoRecord
        /\ InboxOf(g) = [InboxOf(f) EXCEPT ![r.submission] = r]
    BY <1>3, <1>7, <2>1, AppendIsPut
  <2> QED
    BY <1>2, <1>5, <2>2, FilePutMaps
<1> QED
  BY <1>3, <1>6, <1>7, UndamagedAppend

LEMMA WriteFailsMaps ==
  ASSUME FileIInv, NEW c \in Senders, WriteFails(c), ~HasDamage(file')
  PROVE  FilePort!Next
<1>1. ~Syncing'
  BY WriterSyncsNothing DEF WriteFails, Settle, Reply, FileIInv, RoutesOK, Syncing
<1> QED
  BY <1>1, CutMaps, FileUnavailableMaps DEF WriteFails, Settle

\* The sync ends: the record is put, whatever is answered.
LEMMA SyncPuts ==
  ASSUME FileIInv, NEW c \in Senders, phase[c] = "syncing", file' = file,
         ~HasDamage(file'), ~Syncing'
  PROVE  FilePort!Put(sent[c])
<1>1. /\ InboxOf(Settled)[sent[c].submission] = NoRecord
      /\ InboxOf(file) = [InboxOf(Settled) EXCEPT ![sent[c].submission] = sent[c]]
  BY SettledLacksLast
<1>2. Settled' = file
  BY DEF Syncing, Settled
<1>3. InboxOf(Settled)' = InboxOf(file)
  BY <1>2 DEF InboxOf, HeldIn, FirstOf, LinesOf, Reads
<1> QED
  BY <1>1, <1>3, FilePutMaps

LEMMA SyncEnds ==
  ASSUME FileIInv, NEW c \in Senders, phase[c] = "syncing",
         phase' = [phase EXCEPT ![c] = "idle"]
  PROVE  ~Syncing'
<1>1. \A d \in Senders : AtWork(d) => d = c
  BY OneAtWork DEF FileIInv, LockOK, AtWork
<1> QED
  BY <1>1 DEF FileIInv, RoutesOK, Syncing, AtWork

LEMMA SyncMaps ==
  ASSUME FileIInv, NEW c \in Senders, Sync(c), ~HasDamage(file')
  PROVE  FilePort!Next
<1>1. FilePort!Put(sent[c])
  BY SyncEnds, SyncPuts DEF Sync, Settle, Reply
<1>2. PICK a : a = StoredAs(sent[c])
  OBVIOUS
<1>3. PPhase[c] = "called" /\ FilePort!Finish(c, a)
  BY <1>2, FileReplyMaps DEF Sync, Settle
<1>4. FilePort!AnswerStored(c)
  BY <1>1, <1>2, <1>3
     DEF FilePort!AnswerStored, FilePort!Finish, InboxOf, PPhase, StoredAs, FilePort!StoredAs
<1> QED
  BY <1>4 DEF FilePort!Next

LEMMA SyncFailsMaps ==
  ASSUME FileIInv, NEW c \in Senders, SyncFails(c), ~HasDamage(file')
  PROVE  FilePort!Next
<1>1. FilePort!Put(sent[c])
  BY SyncEnds, SyncPuts DEF SyncFails, Settle, Reply
<1> QED
  BY <1>1, FileUnavailableMaps DEF SyncFails, Settle

\* The one at work learns at once that nothing will answer; with nobody at work the
\* others have only lost their place.
LEMMA DeathMaps ==
  ASSUME FileIInv, ProcessDies, ~HasDamage(file')
  PROVE  FilePort!Next \/ FVars' = FVars
<1>1. ~Syncing'
  BY DEF ProcessDies, ForgetCalls, Syncing
<1>2. ASSUME NEW c \in Senders, AtWork(c) PROVE FilePort!Next
  <2>1. \A d \in Senders : AtWork(d) <=> d = c
    BY <1>2, OneAtWork DEF FileIInv, LockOK
  <2>2. /\ \A d \in Senders : phase'[d] = IF phase[d] = "idle" \/ d = c THEN "idle" ELSE "lost"
        /\ answer' = [answer EXCEPT ![c] = Plain("unavailable")]
        /\ UNCHANGED <<sent, nextReceipt>>
    BY <2>1 DEF ProcessDies, ForgetCalls, FileIInv, RoutesOK, AtWork
  <2>3. PPhase' = [PPhase EXCEPT ![c] = "idle"] /\ PPhase[c] = "called"
    BY <1>2, <2>2 DEF PPhase, AtWork
  <2>4. FilePort!Finish(c, Plain("unavailable"))
    BY <2>2, <2>3 DEF FilePort!Finish, PPhase
  <2>5. InboxOf(Settled)' = InboxOf(Settled) \/ FilePort!Put(sent[c])
    <3>1. CASE phase[c] = "syncing"
      <4>1. file' = file
        BY <2>1, <3>1 DEF ProcessDies, Interrupted, AtWork
      <4> QED
        BY <1>1, <3>1, <4>1, SyncPuts
    <3>2. CASE phase[c] = "writing"
      <4>1. file' = file \/ \E cut \in Cuts : file' = AppendLine(file, sent[c], cut)
        BY <2>1, <3>2 DEF ProcessDies, Interrupted, AtWork
      <4>2. file = AppendLine(file, sent[c], "nothing")
        BY DEF AppendLine
      <4> QED
        BY <1>1, <3>2, <4>1, <4>2, CutMaps
    <3> QED
      BY <1>2, <3>1, <3>2 DEF AtWork
  <2>6. FilePort!AnswerUnavailable(c)
    BY <2>3, <2>4, <2>5 DEF FilePort!AnswerUnavailable, InboxOf, PPhase, Plain, FilePort!Plain
  <2> QED
    BY <2>6 DEF FilePort!Next
<1>3. CASE \A c \in Senders : ~AtWork(c)
  <2>1. file' = file /\ ~Syncing
    BY <1>3 DEF ProcessDies, Interrupted, AtWork, Syncing
  <2>2. Settled' = Settled
    BY <1>1, <2>1, SettledKept
  <2>3. InboxOf(Settled)' = InboxOf(Settled)
    BY <2>2 DEF InboxOf, HeldIn, FirstOf, LinesOf, Reads
  <2>4. answer' = answer /\ UNCHANGED <<sent, nextReceipt>>
    BY <1>3 DEF ProcessDies, ForgetCalls, FileIInv, RoutesOK, AtWork
  <2>5. PPhase' = PPhase
    BY <1>3 DEF ProcessDies, ForgetCalls, PPhase, AtWork
  <2> QED
    BY <2>3, <2>4, <2>5 DEF FVars
<1> QED
  BY <1>2, <1>3

LEMMA FileStepMaps ==
  FileIInv /\ [FileNext]_fileVars => [Intact' => [FilePort!Next]_(FilePort!vars)]_fileVars
<1> SUFFICES ASSUME FileIInv, FileNext, Intact'
             PROVE  FilePort!Next \/ FVars' = FVars
  BY DEF FilePort!vars, FVars, InboxOf, PPhase
<1>1. ~HasDamage(file') /\ losses' = 0
  BY DEF Intact, HasDamage
<1>2. ASSUME NEW c \in Senders, NEW s \in Submissions, Enqueue(c, s) PROVE FilePort!Next
  BY <1>2, EnqueueMaps
<1>3. ASSUME NEW c \in Senders, ReadFails(c) \/ ConnectionLost(c) PROVE FilePort!Next
  BY <1>3, FailsWithoutALine DEF ReadFails, ConnectionLost, Settle
<1>4. ASSUME NEW c \in Senders, FindExisting(c) PROVE FilePort!Next
  BY <1>4, FindExistingMaps
<1>5. ASSUME NEW c \in Senders, Decide(c) \/ Write(c) PROVE FVars' = FVars
  BY <1>1, <1>5, DecideStutters, WriteStutters
<1>6. ASSUME NEW c \in Senders, WriteFails(c) \/ Sync(c) \/ SyncFails(c) PROVE FilePort!Next
  BY <1>1, <1>6, WriteFailsMaps, SyncMaps, SyncFailsMaps
<1>7. ~PowerLost
  BY <1>1, LossesAssumption DEF PowerLost, FileIInv
<1> QED
  BY <1>1, <1>2, <1>3, <1>4, <1>5, <1>6, <1>7, DeathMaps DEF FileNext

\* Until a write is cut short or the power lost, the file implements the same put-if-absent
\* as the table: a line counts from its answer, and a 503 may have left one.
THEOREM FileImplementsPort == FileSpec => FileImplements
  BY FileInitMaps, FileStepMaps, FileInvariant, PTL DEF FileSpec, FileImplements
=============================================================================
