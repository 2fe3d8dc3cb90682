------------------------------ MODULE Cutover ------------------------------
(***************************************************************************)
(* Moving the inbox from its file to PostgreSQL beside a running           *)
(* application: the migrations (scripts/migrate.mjs), the import of        *)
(* submissions.jsonl (scripts/import-inbox-jsonl.mjs), and the store that  *)
(* composition/server.ts selects by DATABASE_URL, switched by a restart in *)
(* either direction.                                                       *)
(*                                                                         *)
(* A line of the file is a submission and its receipt, or damaged: cut     *)
(* short, or glued to one that was.  All other columns of a submission are *)
(* the same in every delivery of it, but for the instant of its receipt.   *)
(***************************************************************************)
EXTENDS Naturals, Sequences

CONSTANTS
  Submissions,
  Damaged,       \* a line that does not read
  Runs,          \* runs of the import script
  Migrators,     \* runs of the migration script
  Versions,      \* migrations, in the order of their names
  MaxReceipts,   \* bound: receipts the application mints
  MaxSwitches    \* bound: restarts with or without DATABASE_URL

ASSUME VersionsAssumption == Versions \subseteq Nat \ {0}
ASSUME RunsAssumption == "app" \notin Runs
ASSUME DamagedAssumption == Damaged \notin [submission : Submissions, receipt : Nat]
ASSUME BoundsAssumption == {MaxReceipts, MaxSwitches} \subseteq Nat

VARIABLES
  store,       \* the store of the running application: "file" or "table"
  file,        \* the lines of submissions.jsonl
  torn,        \* the last line has no newline
  table,       \* submission_inbox: by submission, its receipt and who inserted it
  schema,      \* migrations whose statements are committed
  recorded,    \* the rows of schema_migrations
  migrating,   \* migrating[m]: a run of the migration script
  importing,   \* importing[r]: a run of the import script
  minted,      \* how many receipts have been minted
  switches,    \* how much of the bound is used
  answered,    \* auxiliary: the receipts families were told, by which store
  moved,       \* auxiliary: those of the file that a completed import has read
  imported     \* auxiliary: the contents completed imports have read

inbox == <<store, file, torn, minted, switches, answered>>
vars  == <<inbox, table, schema, recorded, migrating, importing, moved, imported>>

\* A migration script that holds nothing in memory.
Runner(step) == [step |-> step, applied |-> {}, version |-> 0]

NoRow == [submission \in {} |-> 0]

\* What is held, and one more row; what is held, and the rows of a transaction.
With(held, submission, row) ==
  [s \in DOMAIN held \cup {submission} |-> IF s = submission THEN row ELSE held[s]]

Joined(rows, held) ==
  [s \in DOMAIN rows \cup DOMAIN held |-> IF s \in DOMAIN rows THEN rows[s] ELSE held[s]]

Init ==
  /\ store = "file" /\ file = <<>> /\ torn = FALSE
  /\ table = NoRow
  /\ schema = {} /\ recorded = {}
  /\ migrating = [m \in Migrators |-> Runner("new")]
  /\ importing = [r \in Runs |-> [step |-> "new", source |-> <<>>, next |-> 1,
                                  inserted |-> NoRow, owed |-> {}]]
  /\ minted = 0 /\ switches = 0
  /\ answered = {} /\ moved = {} /\ imported = {}

----------------------------------------------------------------------------
(* Migrations *)

Holds(m) == migrating[m].step \in {"locked", "ready", "applied"}

MigratorGoes(m, step) == migrating' = [migrating EXCEPT ![m].step = step]

\* MUTANT: the advisory lock is not taken.
LockNothing(m) ==
  /\ migrating[m].step = "new"
  /\ MigratorGoes(m, "locked")
  /\ UNCHANGED <<inbox, table, schema, recorded, importing, moved, imported>>

\* pg_advisory_lock: a second runner waits.
Lock(m) ==
  /\ migrating[m].step = "new"
  /\ \A other \in Migrators : ~Holds(other)
  /\ MigratorGoes(m, "locked")
  /\ UNCHANGED <<inbox, table, schema, recorded, importing, moved, imported>>

ReadApplied(m) ==
  /\ migrating[m].step = "locked"
  /\ migrating' = [migrating EXCEPT ![m].step = "ready", ![m].applied = recorded]
  /\ UNCHANGED <<inbox, table, schema, recorded, importing, moved, imported>>

Outstanding(m) == Versions \ migrating[m].applied

\* BEGIN and the statements of the next file; they fail on objects that exist.
Apply(m) ==
  /\ migrating[m].step = "ready"
  /\ \E v \in Outstanding(m) :
       /\ \A w \in Outstanding(m) : v <= w
       /\ migrating' = [migrating EXCEPT ![m].version = v,
                            ![m].step = IF v \in schema THEN "clashed" ELSE "applied"]
  /\ UNCHANGED <<inbox, table, schema, recorded, importing, moved, imported>>

\* The row that records it, and COMMIT of both.
CommitMigration(m) ==
  /\ migrating[m].step = "applied"
  /\ schema' = schema \cup {migrating[m].version}
  /\ recorded' = recorded \cup {migrating[m].version}
  /\ migrating' = [migrating EXCEPT ![m].step = "ready",
                                   ![m].applied = @ \cup {migrating[m].version},
                                   ![m].version = 0]
  /\ UNCHANGED <<inbox, table, importing, moved, imported>>

\* Done, failed or dead: the connection ends, and with it the lock and what is open.
EndMigration(m) ==
  /\ Holds(m)
  /\ migrating' = [migrating EXCEPT ![m] = Runner("ended")]
  /\ UNCHANGED <<inbox, table, schema, recorded, importing, moved, imported>>

----------------------------------------------------------------------------
(* The application *)

Receipt == minted + 1

Mint == minted < MaxReceipts /\ minted' = Receipt

Line(submission, receipt) == [submission |-> submission, receipt |-> receipt]

Tell(submission, receipt) ==
  answered' = answered \cup
    {[submission |-> submission, receipt |-> receipt, store |-> store]}

\* The lines of a submission that read.
LinesOf(submission) ==
  {i \in DOMAIN file : file[i] # Damaged /\ file[i].submission = submission}

\* A write onto a line without newline is glued to it, and neither part reads.
Written(line) == IF torn THEN [file EXCEPT ![Len(file)] = Damaged] ELSE Append(file, line)

\* appendIfAbsent of the file.
FileAnswers(submission) ==
  /\ store = "file"
  /\ IF LinesOf(submission) # {}
       THEN \E i \in LinesOf(submission) :
              /\ \A j \in LinesOf(submission) : i <= j
              /\ Tell(submission, file[i].receipt)
              /\ UNCHANGED <<file, torn, minted>>
       ELSE /\ Mint
            /\ file' = Written(Line(submission, Receipt)) /\ torn' = FALSE
            /\ Tell(submission, Receipt)
  /\ UNCHANGED <<store, switches, table, schema, recorded, migrating, importing, moved,
                 imported>>

\* Its write stops anywhere before the newline, or the sync after all of it fails: the
\* family is told nothing of what is in the file.
FileFails(submission) ==
  /\ store = "file" /\ LinesOf(submission) = {}
  /\ Mint
  /\ \/ /\ \E line \in {Damaged, Line(submission, Receipt)} : file' = Written(line)
        /\ torn' = TRUE
     \/ file' = Written(Line(submission, Receipt)) /\ torn' = FALSE
  /\ UNCHANGED <<store, switches, answered, table, schema, recorded, migrating, importing,
                 moved, imported>>

\* The columns both writers name come with the first two migrations.
TableExists == Versions \subseteq schema

Inserting(r) == DOMAIN importing[r].inserted

\* appendIfAbsent of the table, heard or not; it waits for a row that is being imported.
TableAnswers(submission) ==
  /\ store = "table" /\ TableExists
  /\ \A r \in Runs : submission \notin Inserting(r)
  /\ IF submission \in DOMAIN table
       THEN Tell(submission, table[submission].receipt) /\ UNCHANGED <<minted, table>>
       ELSE /\ Mint
            /\ table' = With(table, submission, [receipt |-> Receipt, by |-> "app"])
            /\ Tell(submission, Receipt) \/ UNCHANGED answered
  /\ UNCHANGED <<store, file, torn, switches, schema, recorded, migrating, importing, moved,
                 imported>>

\* DATABASE_URL is set or removed, and the application started again.
Switch ==
  /\ switches < MaxSwitches
  /\ switches' = switches + 1
  /\ store' = IF store = "file" THEN "table" ELSE "file"
  /\ UNCHANGED <<file, torn, minted, answered, table, schema, recorded, migrating,
                 importing, moved, imported>>

----------------------------------------------------------------------------
(* The import *)

ImportGoes(r, step) == importing' = [importing EXCEPT ![r].step = step]

\* A run that ends without COMMIT leaves nothing of its transaction.
Undone(r, step) == importing' = [importing EXCEPT ![r].step = step, ![r].inserted = NoRow]

\* toValues: a line that is cut short or glued is no JSON object of the kinds known.
Malformed(lines) == \E i \in DOMAIN lines : lines[i] = Damaged

\* The file is read and every line validated before anything is inserted.
ReadSource(r) ==
  /\ importing[r].step = "new"
  /\ importing' = [importing EXCEPT ![r] =
       [@ EXCEPT !.step = IF Malformed(file) THEN "refused" ELSE "inserting",
                 !.source = file,
                 !.owed = {a \in answered : a.store = "file"}]]
  /\ UNCHANGED <<inbox, table, schema, recorded, migrating, moved, imported>>

Remaining(r) == importing[r].next <= Len(importing[r].source)

Current(r) == importing[r].source[importing[r].next]

Advanced(r) == [importing[r] EXCEPT !.next = @ + 1, !.step = "inserting"]

\* A row another run has inserted and not committed makes this one wait.
CanInsert(r) ==
  /\ importing[r].step = "inserting" /\ Remaining(r) /\ TableExists
  /\ \A other \in Runs \ {r} : Current(r).submission \notin Inserting(other)

Present(r) == Current(r).submission \in DOMAIN table \cup Inserting(r)

\* MUTANT: no BEGIN, every INSERT commits by itself.
InsertAlone(r) ==
  /\ CanInsert(r)
  /\ IF Present(r)
       THEN ImportGoes(r, "comparing") /\ UNCHANGED table
       ELSE /\ importing' = [importing EXCEPT ![r] = Advanced(r)]
            /\ table' = With(table, Current(r).submission,
                             [receipt |-> Current(r).receipt, by |-> r])
  /\ UNCHANGED <<inbox, schema, recorded, migrating, moved, imported>>

\* MUTANT: an INSERT without ON CONFLICT DO NOTHING.
InsertOrRefuse(r) ==
  /\ CanInsert(r)
  /\ IF Present(r)
       THEN Undone(r, "refused")
       ELSE importing' = [importing EXCEPT ![r] =
              [Advanced(r) EXCEPT !.inserted =
                 With(@, Current(r).submission, Current(r).receipt)]]
  /\ UNCHANGED <<inbox, table, schema, recorded, migrating, moved, imported>>

\* INSERT ... ON CONFLICT DO NOTHING.
Insert(r) ==
  /\ CanInsert(r)
  /\ IF Present(r)
       THEN ImportGoes(r, "comparing")
       ELSE importing' = [importing EXCEPT ![r] =
              [Advanced(r) EXCEPT !.inserted =
                 With(@, Current(r).submission, Current(r).receipt)]]
  /\ UNCHANGED <<inbox, table, schema, recorded, migrating, moved, imported>>

\* The receipt of the row that won the conflict, as this transaction sees it.
StoredReceipt(r) ==
  LET submission == Current(r).submission
  IN  IF submission \in Inserting(r) THEN importing[r].inserted[submission]
                                     ELSE table[submission].receipt

\* MUTANT: a row that is there counts as this one.
CompareNothing(r) ==
  /\ importing[r].step = "comparing"
  /\ importing' = [importing EXCEPT ![r] = Advanced(r)]
  /\ UNCHANGED <<inbox, table, schema, recorded, migrating, moved, imported>>

\* assertStoredRecordMatches: already present, unchanged; or the run rolls back.
Compare(r) ==
  /\ importing[r].step = "comparing"
  /\ IF StoredReceipt(r) = Current(r).receipt
       THEN importing' = [importing EXCEPT ![r] = Advanced(r)]
       ELSE Undone(r, "refused")
  /\ UNCHANGED <<inbox, table, schema, recorded, migrating, moved, imported>>

Rows(r) ==
  [s \in Inserting(r) |-> [receipt |-> importing[r].inserted[s], by |-> r]]

\* COMMIT, whether the script hears of it or reports a failure.
Commit(r) ==
  /\ importing[r].step = "inserting" /\ ~Remaining(r)
  /\ table' = Joined(Rows(r), table)
  /\ \E step \in {"done", "unheard"} : Undone(r, step)
  /\ moved' = moved \cup importing[r].owed
  /\ imported' = imported \cup {importing[r].source}
  /\ UNCHANGED <<inbox, schema, recorded, migrating>>

\* The connection, a statement or the script fails: ROLLBACK.
Fail(r) ==
  /\ importing[r].step \in {"inserting", "comparing"}
  /\ Undone(r, "failed")
  /\ UNCHANGED <<inbox, table, schema, recorded, migrating, moved, imported>>

Next ==
  \/ \E m \in Migrators :
       Lock(m) \/ ReadApplied(m) \/ Apply(m) \/ CommitMigration(m) \/ EndMigration(m)
  \/ \E s \in Submissions : FileAnswers(s) \/ FileFails(s) \/ TableAnswers(s)
  \/ Switch
  \/ \E r \in Runs : ReadSource(r) \/ Insert(r) \/ Compare(r) \/ Commit(r) \/ Fail(r)

Spec == Init /\ [][Next]_vars

----------------------------------------------------------------------------
(* Properties *)

Lines == [submission : Submissions, receipt : Nat \ {0}]

Answers == [submission : Submissions, receipt : Nat \ {0}, store : {"file", "table"}]

Rowed == [receipt : Nat \ {0}, by : Runs \cup {"app"}]

Runners ==
  [step : {"new", "locked", "ready", "applied", "clashed", "ended"},
   applied : SUBSET Versions, version : Versions \cup {0}]

Imports ==
  [step : {"new", "inserting", "comparing", "done", "unheard", "failed", "refused"},
   source : Seq(Lines \cup {Damaged}), next : Nat \ {0},
   inserted : UNION {[rows -> Nat \ {0}] : rows \in SUBSET Submissions},
   owed : SUBSET Answers]

TypeOK ==
  /\ store \in {"file", "table"} /\ torn \in BOOLEAN
  /\ file \in Seq(Lines \cup {Damaged}) /\ (torn => file # <<>>)
  /\ DOMAIN table \subseteq Submissions
  /\ table \in [DOMAIN table -> Rowed]
  /\ schema \subseteq Versions /\ recorded \subseteq Versions
  /\ migrating \in [Migrators -> Runners] /\ importing \in [Runs -> Imports]
  /\ minted \in Nat /\ switches \in Nat
  /\ answered \subseteq Answers /\ moved \subseteq Answers
  /\ imported \subseteq Seq(Lines)

\* Every migration is applied exactly when it is recorded, and no runner meets objects it
\* did not expect: "a schema no later run can reason about" (migrate.mjs) does not arise.
SchemaIsRecorded ==
  /\ schema = recorded
  /\ \A m \in Migrators : migrating[m].step # "clashed"

\* No answer is lost on the way and no receipt changes: what the file had told families
\* when a completed import read it, and what the table has told them, is in the table
\* under the receipt they were given.
ReceiptsMove ==
  \A a \in moved \cup {b \in answered : b.store = "table"} :
    a.submission \in DOMAIN table /\ table[a.submission].receipt = a.receipt

\* "a failure part-way leaves the table exactly as it was" (import-inbox-jsonl.mjs): a run
\* has brought every line of its source, or none.
AllOrNothing ==
  \A r \in Runs :
    IF importing[r].step \in {"done", "unheard"}
      THEN \A i \in DOMAIN importing[r].source :
             importing[r].source[i].submission \in DOMAIN table
      ELSE \A s \in DOMAIN table : table[s].by # r

\* "the operator who is unsure whether the import already happened must be able to just
\* run it again": a run over a source that was imported is never refused.
RerunIsSafe ==
  \A r \in Runs : importing[r].step = "refused" => importing[r].source \notin imported
=============================================================================
