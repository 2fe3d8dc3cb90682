---------------------------- MODULE ServerProofs ----------------------------
(***************************************************************************)
(* The two things composition/server.ts puts together: the store that      *)
(* DATABASE_URL selects, and the doors with their limiters.                *)
(*                                                                         *)
(* The store.  For any submissions, lines, runs, migrations and switches:  *)
(* the schema is recorded, no receipt changes on the way to the table, an  *)
(* import is all or nothing, and can be run again.  The argument is that   *)
(* the table only grows: ImportInv says of one run what it has established *)
(* against a table, and a table that grew beside it, at other submissions, *)
(* leaves that true.                                                       *)
(*                                                                         *)
(* The doors.  For any environments, limits, window and number of keys:    *)
(* every limiter implements the sliding window, and a door opens only to   *)
(* who entered its code.  A limiter is one map and one step at a time      *)
(* (BrakeStep): what it has granted inside the window is SpentOf its map,  *)
(* which neither pruning nor the sweep of a full map changes.              *)
(***************************************************************************)
EXTENDS Cutover, AccessGates, FiniteSetTheorems, SequenceTheorems, TLAPS

(* The store: migrations, the import and the switch *)


RunnerInv(m) ==
  /\ migrating[m].step \in {"ready", "applied"} => migrating[m].applied = recorded
  /\ migrating[m].step = "applied" =>
       migrating[m].version \in Versions /\ migrating[m].version \notin schema

SchemaInv ==
  /\ SchemaIsRecorded
  /\ \A m, n \in Migrators : m # n => ~(Holds(m) /\ Holds(n))
  /\ \A m \in Migrators : RunnerInv(m)

\* The lines that read belong to submissions apart.
Distinct(lines) ==
  \A i, j \in DOMAIN lines :
    lines[i] # Damaged /\ lines[j] # Damaged /\ lines[i].submission = lines[j].submission
      => i = j

Tells(lines, a) == \E i \in DOMAIN lines : lines[i] = Line(a.submission, a.receipt)

FileInv ==
  /\ Distinct(file)
  /\ Malformed(file) \/ \A a \in answered : a.store = "file" => Tells(file, a)

Carries(map, line) ==
  line.submission \in DOMAIN map /\ map[line.submission].receipt = line.receipt

\* A line is in what a run has inserted, or in the table.
Brought(run, map, line) ==
  IF line.submission \in DOMAIN run.inserted
    THEN run.inserted[line.submission] = line.receipt
    ELSE Carries(map, line)

OpenInv(run, map) ==
  /\ run.source \in Seq(Lines) /\ Distinct(run.source)
  /\ \A a \in run.owed : Tells(run.source, a)
  /\ \A i \in DOMAIN run.source : i < run.next => Brought(run, map, run.source[i])
  /\ \A s \in DOMAIN run.inserted :
       \E i \in DOMAIN run.source : i < run.next /\ run.source[i].submission = s

IsOpen(run) == run.step \in {"inserting", "comparing"}

ImportInv(run, map) ==
  /\ IsOpen(run) => OpenInv(run, map)
  /\ ~IsOpen(run) => DOMAIN run.inserted = {}
  /\ run.step = "new" => run.next = 1
  /\ DOMAIN run.inserted \cap DOMAIN map = {}
  /\ run.step = "comparing" =>
       run.next \in DOMAIN run.source /\ run.source[run.next].submission \in DOMAIN map
  /\ run.step \in {"done", "unheard"} =>
       \A i \in DOMAIN run.source : run.source[i].submission \in DOMAIN map
  /\ run.step = "refused" =>
       \/ Malformed(run.source)
       \/ \E i \in DOMAIN run.source :
            /\ run.source[i].submission \in DOMAIN map
            /\ map[run.source[i].submission].receipt # run.source[i].receipt

\* Nothing in the table is from a run that has not committed.
NoDirtyRows ==
  \A s \in DOMAIN table :
    table[s].by = "app" \/ importing[table[s].by].step \in {"done", "unheard"}

MoveInv ==
  /\ \A r \in Runs : ImportInv(importing[r], table)
  /\ \A r, o \in Runs : r # o => Inserting(r) \cap Inserting(o) = {}
  /\ NoDirtyRows
  /\ ReceiptsMove
  /\ \A source \in imported : \A i \in DOMAIN source : Carries(table, source[i])

IInv == TypeOK /\ SchemaInv /\ FileInv /\ MoveInv

----------------------------------------------------------------------------
(* Lines and tables *)

LEMMA LineFields ==
  ASSUME NEW s \in Submissions, NEW n \in Nat \ {0}
  PROVE  /\ Line(s, n) \in Lines /\ Line(s, n) # Damaged
         /\ Line(s, n).submission = s /\ Line(s, n).receipt = n
  BY DamagedAssumption DEF Line, Lines

LEMMA LinesRead == Damaged \notin Lines
  BY DamagedAssumption DEF Lines

LEMMA LineIsItsFields ==
  ASSUME NEW line \in Lines
  PROVE  line = Line(line.submission, line.receipt)
  BY DEF Lines, Line

Grown(map, by) ==
  DOMAIN map \subseteq DOMAIN by /\ \A s \in DOMAIN map : by[s] = map[s]

LEMMA CarriedOn ==
  ASSUME NEW map, NEW by, Grown(map, by), NEW line, Carries(map, line)
  PROVE  Carries(by, line)
  BY DEF Grown, Carries

\* What a run has established survives a table that grew beside it.
LEMMA ImportKept ==
  ASSUME NEW run, NEW map, NEW by, Grown(map, by), ImportInv(run, map),
         DOMAIN run.inserted \cap DOMAIN by = {}
  PROVE  ImportInv(run, by)
<1>1. ASSUME IsOpen(run) PROVE OpenInv(run, by)
  BY <1>1, CarriedOn DEF ImportInv, OpenInv, Brought
<1> QED
  BY <1>1 DEF ImportInv, Grown

----------------------------------------------------------------------------
(* The migrations *)

\* What the steps of a migration leave alone.
Aside == UNCHANGED <<inbox, table, importing, moved, imported>>

LEMMA MigrationType ==
  ASSUME TypeOK, SchemaInv, NEW m \in Migrators,
         Lock(m) \/ ReadApplied(m) \/ Apply(m) \/ CommitMigration(m) \/ EndMigration(m)
  PROVE  /\ schema' \subseteq Versions /\ recorded' \subseteq Versions
         /\ migrating' \in [Migrators -> Runners]
         /\ \A n \in Migrators : n # m => migrating'[n] = migrating[n]
         /\ Aside
<1>1. /\ migrating \in [Migrators -> Runners]
      /\ schema \subseteq Versions /\ recorded \subseteq Versions
  BY DEF TypeOK
<1>2. CASE Lock(m)
  BY <1>1, <1>2 DEF Lock, MigratorGoes, Aside, Runners
<1>3. CASE ReadApplied(m)
  BY <1>1, <1>3 DEF ReadApplied, Aside, Runners
<1>4. CASE Apply(m)
  <2>1. PICK v \in Versions :
          migrating' = [migrating EXCEPT ![m].version = v,
                          ![m].step = IF v \in schema THEN "clashed" ELSE "applied"]
    BY <1>4 DEF Apply, Outstanding
  <2>2. migrating' = [migrating EXCEPT ![m] = [migrating[m] EXCEPT !.version = v,
                          !.step = IF v \in schema THEN "clashed" ELSE "applied"]]
    BY <1>1, <2>1
  <2>3. [migrating[m] EXCEPT !.version = v,
           !.step = IF v \in schema THEN "clashed" ELSE "applied"] \in Runners
    BY <1>1 DEF Runners
  <2> QED
    BY <1>1, <1>4, <2>2, <2>3 DEF Apply, Aside
<1>5. CASE CommitMigration(m)
  <2>1. migrating[m].version \in Versions \cup {0}
    BY <1>1 DEF Runners
  <2>2. schema' \subseteq Versions /\ recorded' \subseteq Versions
    BY <1>1, <1>5 DEF CommitMigration, SchemaInv, RunnerInv
  <2>3. migrating' = [migrating EXCEPT ![m] =
          [migrating[m] EXCEPT !.step = "ready",
             !.applied = migrating[m].applied \cup {migrating[m].version}, !.version = 0]]
    BY <1>1, <1>5 DEF CommitMigration
  <2>4. [migrating[m] EXCEPT !.step = "ready",
           !.applied = migrating[m].applied \cup {migrating[m].version}, !.version = 0]
          \in Runners
    BY <1>1, <1>5, <2>1 DEF CommitMigration, Runners, SchemaInv, RunnerInv
  <2> QED
    BY <1>1, <1>5, <2>2, <2>3, <2>4 DEF CommitMigration, Aside
<1>6. CASE EndMigration(m)
  BY <1>1, <1>6 DEF EndMigration, Runner, Aside, Runners
<1> QED
  BY <1>2, <1>3, <1>4, <1>5, <1>6

\* One runner at a time reads what is recorded, and applies what is not.
LEMMA MigrationSchema ==
  ASSUME TypeOK, SchemaInv, NEW m \in Migrators,
         Lock(m) \/ ReadApplied(m) \/ Apply(m) \/ CommitMigration(m) \/ EndMigration(m)
  PROVE  SchemaInv'
<1>1. /\ migrating \in [Migrators -> Runners]
      /\ \A n \in Migrators : n # m => migrating'[n] = migrating[n]
  BY MigrationType DEF TypeOK
<1>2. CASE Lock(m)
  <2>1. migrating'[m].step = "locked" /\ UNCHANGED <<schema, recorded>>
    BY <1>1, <1>2 DEF Lock, MigratorGoes, Runners
  <2> QED
    BY <1>1, <1>2, <2>1 DEF Lock, SchemaInv, SchemaIsRecorded, RunnerInv, Holds
<1>3. CASE ReadApplied(m)
  <2>1. /\ migrating'[m].step = "ready" /\ migrating'[m].applied = recorded
        /\ UNCHANGED <<schema, recorded>>
    BY <1>1, <1>3 DEF ReadApplied, Runners
  <2> QED
    BY <1>1, <1>3, <2>1 DEF ReadApplied, SchemaInv, SchemaIsRecorded, RunnerInv, Holds
<1>4. CASE Apply(m)
  <2>1. PICK v \in Versions \ recorded :
          migrating' = [migrating EXCEPT ![m].version = v,
                          ![m].step = IF v \in schema THEN "clashed" ELSE "applied"]
    BY <1>4 DEF Apply, Outstanding, SchemaInv, RunnerInv
  <2>2. v \notin schema
    BY DEF SchemaInv, SchemaIsRecorded
  <2>3. /\ migrating'[m].step = "applied" /\ migrating'[m].version = v
        /\ migrating'[m].applied = migrating[m].applied
    BY <1>1, <2>1, <2>2 DEF Runners
  <2>4. UNCHANGED <<schema, recorded>>
    BY <1>4 DEF Apply
  <2> QED
    BY <1>1, <1>4, <2>2, <2>3, <2>4
       DEF Apply, SchemaInv, SchemaIsRecorded, RunnerInv, Holds
<1>5. CASE CommitMigration(m)
  <2>1. /\ migrating'[m].step = "ready"
        /\ migrating'[m].applied = migrating[m].applied \cup {migrating[m].version}
    BY <1>1, <1>5 DEF CommitMigration, Runners
  <2>2. /\ schema' = schema \cup {migrating[m].version}
        /\ recorded' = recorded \cup {migrating[m].version}
    BY <1>5 DEF CommitMigration
  <2>3. \A n \in Migrators : n # m => migrating[n].step \notin {"ready", "applied"}
    BY <1>5 DEF CommitMigration, SchemaInv, Holds
  <2> QED
    BY <1>1, <1>5, <2>1, <2>2, <2>3
       DEF CommitMigration, SchemaInv, SchemaIsRecorded, RunnerInv, Holds
<1>6. CASE EndMigration(m)
  <2>1. migrating'[m].step = "ended"
    BY <1>1, <1>6 DEF EndMigration, Runner
  <2>2. UNCHANGED <<schema, recorded>>
    BY <1>6 DEF EndMigration
  <2> QED
    BY <1>1, <1>6, <2>1, <2>2 DEF SchemaInv, SchemaIsRecorded, RunnerInv, Holds
<1> QED
  BY <1>2, <1>3, <1>4, <1>5, <1>6

LEMMA SchemaKept ==
  ASSUME SchemaInv, UNCHANGED <<schema, recorded, migrating>>
  PROVE  SchemaInv'
  BY DEF SchemaInv, SchemaIsRecorded, RunnerInv, Holds

----------------------------------------------------------------------------
(* The file *)

\* A line of a submission that has none that reads, written whole or cut before its
\* newline: lines stay apart, and what was told is there or something is damaged.
LEMMA WrittenDistinct ==
  ASSUME TypeOK, FileInv, NEW s \in Submissions, LinesOf(s) = {},
         NEW line \in Lines \cup {Damaged}, line # Damaged => line.submission = s,
         file' = Written(line)
  PROVE  /\ file' \in Seq(Lines \cup {Damaged}) /\ file' # <<>>
         /\ Distinct(file')
         /\ Malformed(file') \/ (file' = Append(file, line) /\ ~Malformed(file))
<1>1. CASE torn
  <2>1. Len(file) \in DOMAIN file /\ file' = [file EXCEPT ![Len(file)] = Damaged]
    BY <1>1 DEF Written, TypeOK
  <2>2. file' \in Seq(Lines \cup {Damaged}) /\ Len(file') = Len(file) /\ file' # <<>>
    BY <2>1 DEF TypeOK
  <2>3. DOMAIN file' = DOMAIN file /\ file'[Len(file)] = Damaged
    BY <2>1 DEF TypeOK
  <2>4. \A i \in DOMAIN file : file'[i] # Damaged => file'[i] = file[i]
    BY <2>1 DEF TypeOK
  <2>5. Distinct(file')
    BY <2>3, <2>4 DEF FileInv, Distinct
  <2>6. Malformed(file')
    BY <2>1, <2>3 DEF Malformed
  <2> QED
    BY <2>2, <2>5, <2>6
<1>2. CASE ~torn
  <2>1. file' = Append(file, line)
    BY <1>2 DEF Written
  <2>2. /\ file' \in Seq(Lines \cup {Damaged}) /\ file' # <<>>
        /\ DOMAIN file' = (DOMAIN file) \cup {Len(file) + 1}
        /\ file'[Len(file) + 1] = line
        /\ \A i \in DOMAIN file : file'[i] = file[i] /\ i # Len(file) + 1
    BY <2>1 DEF TypeOK
  <2>3. \A i \in DOMAIN file : file[i] # Damaged => file[i].submission # s
    BY DEF LinesOf
  <2>4. Distinct(file')
    BY <2>2, <2>3 DEF FileInv, Distinct
  <2>5. Malformed(file) => Malformed(file')
    BY <2>2 DEF Malformed
  <2> QED
    BY <2>1, <2>2, <2>4, <2>5
<1> QED
  BY <1>1, <1>2

LEMMA ToldStays ==
  ASSUME TypeOK, NEW line \in Lines \cup {Damaged}, file' = Append(file, line), NEW a,
         Tells(file, a)
  PROVE  Tells(file', a)
<1>1. \A i \in DOMAIN file : i \in DOMAIN file' /\ file'[i] = file[i]
  BY DEF TypeOK
<1> QED
  BY <1>1 DEF Tells

LEMMA FileStep ==
  ASSUME TypeOK, FileInv, NEW s \in Submissions, FileAnswers(s) \/ FileFails(s)
  PROVE  /\ FileInv' /\ file' \in Seq(Lines \cup {Damaged}) /\ (torn' => file' # <<>>)
         /\ torn' \in BOOLEAN /\ minted' \in Nat /\ answered' \subseteq Answers
         /\ \A a \in answered' \ answered : a.store = "file"
<1>1. CASE FileAnswers(s) /\ LinesOf(s) # {}
  <2>1. PICK i \in LinesOf(s) :
          /\ UNCHANGED <<file, torn, minted>>
          /\ answered' = answered \cup
               {[submission |-> s, receipt |-> file[i].receipt, store |-> "file"]}
    BY <1>1 DEF FileAnswers, Tell
  <2>2. file[i] \in Lines /\ file[i].submission = s /\ i \in DOMAIN file
    BY DEF LinesOf, TypeOK
  <2> DEFINE a == [submission |-> s, receipt |-> file[i].receipt, store |-> "file"]
  <2>3. a \in Answers /\ a.store = "file"
    BY <2>2 DEF Answers, Lines
  <2>4. Tells(file, a)
    BY <2>2, LineIsItsFields DEF Tells
  <2>5. answered' = answered \cup {a}
    BY <2>1
  <2> HIDE DEF a
  <2> QED
    BY <2>1, <2>3, <2>4, <2>5 DEF FileInv, TypeOK
<1>2. CASE FileAnswers(s) /\ LinesOf(s) = {}
  <2> DEFINE a == [submission |-> s, receipt |-> Receipt, store |-> "file"]
  <2>1. /\ minted' = Receipt /\ file' = Written(Line(s, Receipt)) /\ torn' = FALSE
        /\ answered' = answered \cup {a}
    BY <1>2 DEF FileAnswers, Tell, Mint
  <2>2. Receipt \in Nat \ {0}
    BY DEF Receipt, TypeOK
  <2>3. PICK n : n = Receipt
    OBVIOUS
  <2>4. PICK line : line = Line(s, n)
    OBVIOUS
  <2>5. line \in Lines /\ line # Damaged /\ line.submission = s
    BY <2>2, <2>3, <2>4, LineFields
  <2>6. file' = Written(line)
    BY <2>1, <2>3, <2>4
  <2>7. /\ file' \in Seq(Lines \cup {Damaged}) /\ file' # <<>> /\ Distinct(file')
        /\ Malformed(file') \/ (file' = Append(file, line) /\ ~Malformed(file))
    BY <1>2, <2>5, <2>6, WrittenDistinct
  <2>8. a \in Answers /\ a.store = "file" /\ Line(a.submission, a.receipt) = line
    BY <2>2, <2>3, <2>4 DEF Answers
  <2> HIDE DEF a
  <2>9. Malformed(file') \/ \A b \in answered' : b.store = "file" => Tells(file', b)
    <3> SUFFICES ASSUME ~Malformed(file'), NEW b \in answered', b.store = "file"
                 PROVE  Tells(file', b)
      OBVIOUS
    <3>1. file' = Append(file, line) /\ ~Malformed(file)
      BY <2>7
    <3>2. CASE b = a
      <4>1. Len(file) + 1 \in DOMAIN file' /\ file'[Len(file) + 1] = line
        BY <2>5, <3>1 DEF TypeOK
      <4> QED
        BY <2>8, <3>2, <4>1 DEF Tells
    <3>3. CASE b \in answered
      BY <2>5, <3>1, <3>3, ToldStays DEF FileInv
    <3> QED
      BY <2>1, <3>2, <3>3
  <2> QED
    BY <2>1, <2>2, <2>7, <2>8, <2>9 DEF FileInv, TypeOK
<1>3. CASE FileFails(s)
  <2>1. PICK line \in {Damaged, Line(s, Receipt)} : file' = Written(line)
    BY <1>3 DEF FileFails
  <2>2. Receipt \in Nat \ {0}
    BY DEF Receipt, TypeOK
  <2>3. PICK n : n = Receipt
    OBVIOUS
  <2>4. line \in Lines \cup {Damaged} /\ (line # Damaged => line.submission = s)
    BY <2>1, <2>2, <2>3, LineFields
  <2>5. /\ file' \in Seq(Lines \cup {Damaged}) /\ file' # <<>> /\ Distinct(file')
        /\ Malformed(file') \/ (file' = Append(file, line) /\ ~Malformed(file))
    BY <1>3, <2>1, <2>4, WrittenDistinct DEF FileFails
  <2>6. Malformed(file') \/ \A b \in answered : b.store = "file" => Tells(file', b)
    BY <2>4, <2>5, ToldStays DEF FileInv
  <2> QED
    BY <1>3, <2>2, <2>5, <2>6 DEF FileFails, FileInv, TypeOK, Mint
<1> QED
  BY <1>1, <1>2, <1>3

----------------------------------------------------------------------------
(* What the table and the runs say of each other *)

\* A run that did not move, beside a table that grew at other submissions.
LEMMA OtherRun ==
  ASSUME MoveInv, Grown(table, table'), NEW o \in Runs, importing'[o] = importing[o],
         Inserting(o) \cap DOMAIN table' = {}
  PROVE  ImportInv(importing'[o], table')
<1>1. PICK run, map, by : run = importing[o] /\ map = table /\ by = table'
  OBVIOUS
<1>2. ImportInv(run, map) /\ Grown(map, by) /\ DOMAIN run.inserted \cap DOMAIN by = {}
  BY <1>1 DEF MoveInv, Inserting
<1>3. ImportInv(run, by)
  BY <1>2, ImportKept
<1> QED
  BY <1>1, <1>3

LEMMA ToldCarried ==
  ASSUME MoveInv, Grown(table, table')
  PROVE  /\ \A a \in moved \cup {b \in answered : b.store = "table"} : Carries(table', a)
         /\ \A source \in imported : \A i \in DOMAIN source : Carries(table', source[i])
<1>1. PICK map, by : map = table /\ by = table'
  OBVIOUS
<1>2. \A line : Carries(map, line) => Carries(by, line)
  BY <1>1, CarriedOn
<1>3. \A a \in moved \cup {b \in answered : b.store = "table"} : Carries(map, a)
  BY <1>1 DEF MoveInv, ReceiptsMove, Carries
<1> QED
  BY <1>1, <1>2, <1>3 DEF MoveInv

\* Steps that move neither.
LEMMA MoveKept ==
  ASSUME MoveInv, UNCHANGED <<table, importing, moved, imported>>,
         \A a \in answered' \ answered : a.store = "file"
  PROVE  MoveInv'
<1>1. NoDirtyRows' /\ ReceiptsMove'
  BY DEF MoveInv, NoDirtyRows, ReceiptsMove
<1> QED
  BY <1>1 DEF MoveInv, Inserting

LEMMA TableStep ==
  ASSUME TypeOK, MoveInv, NEW s \in Submissions, TableAnswers(s)
  PROVE  /\ MoveInv' /\ minted' \in Nat /\ answered' \subseteq Answers
         /\ DOMAIN table' \subseteq Submissions /\ table' \in [DOMAIN table' -> Rowed]
         /\ \A a \in answered' \ answered : a.store = "table"
<1>1. CASE s \in DOMAIN table
  <2> DEFINE a == [submission |-> s, receipt |-> table[s].receipt, store |-> "table"]
  <2>1. answered' = answered \cup {a} /\ UNCHANGED <<minted, table, importing, moved, imported>>
    BY <1>1 DEF TableAnswers, Tell
  <2>2. a \in Answers /\ a.submission = s /\ a.receipt = table[s].receipt /\ a.store = "table"
    BY <1>1 DEF Answers, TypeOK, Rowed
  <2> HIDE DEF a
  <2>3. NoDirtyRows' /\ ReceiptsMove'
    BY <1>1, <2>1, <2>2 DEF MoveInv, NoDirtyRows, ReceiptsMove
  <2>4. MoveInv'
    BY <2>1, <2>3 DEF MoveInv, Inserting
  <2> QED
    BY <2>1, <2>2, <2>4 DEF TypeOK
<1>2. CASE s \notin DOMAIN table
  <2> DEFINE row == [receipt |-> Receipt, by |-> "app"]
             a   == [submission |-> s, receipt |-> Receipt, store |-> "table"]
  <2>1. /\ minted' = Receipt /\ table' = With(table, s, row)
        /\ answered' = answered \cup {a} \/ answered' = answered
        /\ UNCHANGED <<importing, moved, imported>>
        /\ \A r \in Runs : s \notin Inserting(r)
    BY <1>2 DEF TableAnswers, Tell, Mint
  <2>2. Receipt \in Nat \ {0}
    BY DEF Receipt, TypeOK
  <2>3. row \in Rowed /\ row.receipt = Receipt /\ row.by = "app"
    BY <2>2 DEF Rowed
  <2>4. a \in Answers /\ a.submission = s /\ a.receipt = Receipt /\ a.store = "table"
    BY <2>2 DEF Answers
  <2> HIDE DEF row, a
  <2>5. /\ DOMAIN table' = DOMAIN table \cup {s} /\ table'[s] = row
        /\ \A t \in DOMAIN table : table'[t] = table[t]
    <3>1. PICK map, r : map = table /\ r = row
      OBVIOUS
    <3>2. /\ DOMAIN With(map, s, r) = DOMAIN map \cup {s} /\ With(map, s, r)[s] = r
          /\ \A t \in DOMAIN map : t # s => With(map, s, r)[t] = map[t]
      BY DEF With
    <3> QED
      BY <1>2, <2>1, <3>1, <3>2
  <2>6. table' \in [DOMAIN table' -> Rowed]
    <3>1. table' = [t \in DOMAIN table' |-> table'[t]]
      BY <2>1 DEF With
    <3>2. \A t \in DOMAIN table' : table'[t] \in Rowed
      BY <2>3, <2>5 DEF TypeOK
    <3> QED
      BY <3>1, <3>2
  <2>7. Grown(table, table')
    BY <2>5 DEF Grown
  <2>8. \A r \in Runs : ImportInv(importing'[r], table')
    BY <2>1, <2>5, <2>7, OtherRun DEF MoveInv, ImportInv, Inserting
  <2>9. NoDirtyRows'
    BY <2>1, <2>3, <2>5 DEF MoveInv, NoDirtyRows
  <2>10. ReceiptsMove'
    BY <2>1, <2>3, <2>4, <2>5, <2>7, ToldCarried DEF ReceiptsMove, Carries
  <2>11. MoveInv'
    BY <2>1, <2>7, <2>8, <2>9, <2>10, ToldCarried DEF MoveInv, Inserting
  <2> QED
    BY <2>1, <2>2, <2>4, <2>5, <2>6, <2>11 DEF TypeOK
<1> QED
  BY <1>1, <1>2

----------------------------------------------------------------------------
(* The import *)

\* One run moves and the table does not.
LEMMA RunStep ==
  ASSUME TypeOK, MoveInv, NEW r \in Runs, NEW run \in Imports,
         importing' = [importing EXCEPT ![r] = run],
         UNCHANGED <<table, answered, moved, imported>>,
         ImportInv(run, table),
         \A o \in Runs \ {r} : DOMAIN run.inserted \cap Inserting(o) = {},
         importing[r].step \notin {"done", "unheard"}
  PROVE  MoveInv' /\ importing' \in [Runs -> Imports]
<1>1. /\ importing' \in [Runs -> Imports] /\ importing'[r] = run
      /\ \A o \in Runs \ {r} : importing'[o] = importing[o]
  BY DEF TypeOK
<1>2. \A o \in Runs : ImportInv(importing'[o], table')
  BY <1>1 DEF MoveInv
<1>3. \A o \in Runs \ {r} : Inserting(o)' = Inserting(o)
  BY <1>1 DEF Inserting
<1>4. Inserting(r)' = DOMAIN run.inserted
  BY <1>1 DEF Inserting
<1>5. NoDirtyRows'
  <2>1. \A s \in DOMAIN table : table[s].by \in Runs \cup {"app"}
    BY DEF TypeOK, Rowed
  <2> QED
    BY <1>1, <2>1 DEF MoveInv, NoDirtyRows
<1>6. ReceiptsMove'
  BY DEF MoveInv, ReceiptsMove
<1> QED
  BY <1>1, <1>2, <1>3, <1>4, <1>5, <1>6 DEF MoveInv

\* A run that ends with nothing in the table.
LEMMA UndoneStep ==
  ASSUME TypeOK, MoveInv, NEW r \in Runs, NEW step \in {"failed", "refused"},
         Undone(r, step), IsOpen(importing[r]),
         UNCHANGED <<table, answered, moved, imported>>,
         step = "refused" =>
           \E i \in DOMAIN importing[r].source :
             /\ importing[r].source[i].submission \in DOMAIN table
             /\ table[importing[r].source[i].submission].receipt
                  # importing[r].source[i].receipt
  PROVE  MoveInv' /\ importing' \in [Runs -> Imports]
<1>1. PICK run : run = [importing[r] EXCEPT !.step = step, !.inserted = NoRow]
  OBVIOUS
<1>2. importing[r] \in Imports /\ DOMAIN NoRow = {}
  BY DEF TypeOK, NoRow
<1>3. /\ run.step = step /\ run.source = importing[r].source /\ run.inserted = NoRow
      /\ run.next = importing[r].next /\ run.owed = importing[r].owed
  BY <1>1, <1>2 DEF Imports
<1>4. NoRow \in UNION {[rows -> Nat \ {0}] : rows \in SUBSET Submissions}
  <2>1. NoRow \in [{} -> Nat \ {0}] /\ {} \in SUBSET Submissions
    BY DEF NoRow
  <2> QED
    BY <2>1
<1>5. run \in Imports
  BY <1>1, <1>2, <1>4 DEF Imports
<1>6. importing' = [importing EXCEPT ![r] = run]
  BY <1>1, <1>2 DEF Undone, TypeOK
<1>7. ImportInv(run, table)
  BY <1>2, <1>3 DEF ImportInv, IsOpen
<1> QED
  BY <1>2, <1>3, <1>5, <1>6, <1>7, RunStep DEF IsOpen

LEMMA ReadSourceStep ==
  ASSUME TypeOK, FileInv, MoveInv, NEW r \in Runs, ReadSource(r)
  PROVE  MoveInv' /\ importing' \in [Runs -> Imports]
<1> DEFINE owed == {a \in answered : a.store = "file"}
           step == IF Malformed(file) THEN "refused" ELSE "inserting"
<1>1. PICK run : run = [importing[r] EXCEPT !.step = step, !.source = file, !.owed = owed]
  OBVIOUS
<1>2. importing[r] \in Imports /\ owed \subseteq Answers /\ file \in Seq(Lines \cup {Damaged})
  BY DEF TypeOK
<1>3. /\ run.step = step /\ run.source = file /\ run.owed = owed
      /\ run.next = importing[r].next /\ run.inserted = importing[r].inserted
  BY <1>1, <1>2 DEF Imports
<1>4. run \in Imports
  BY <1>1, <1>2 DEF Imports
<1>5. importing' = [importing EXCEPT ![r] = run]
  BY <1>1 DEF ReadSource
<1>6. importing[r].step = "new"
  BY DEF ReadSource
<1>7. ImportInv(importing[r], table)
  BY DEF MoveInv
<1>8. run.next = 1 /\ DOMAIN run.inserted = {}
  BY <1>3, <1>6, <1>7 DEF ImportInv, IsOpen
<1>9. ~Malformed(file) => file \in Seq(Lines)
  <2>1. ~Malformed(file) => \A i \in DOMAIN file : file[i] \in Lines
    BY <1>2 DEF Malformed
  <2> QED
    BY <1>2, <2>1
<1>10. ~Malformed(file) => \A a \in owed : Tells(file, a)
  BY DEF FileInv
<1> HIDE DEF owed
<1>11. ~Malformed(file) => OpenInv(run, table)
  <2> SUFFICES ASSUME ~Malformed(file) PROVE OpenInv(run, table)
    OBVIOUS
  <2>1. \A i \in DOMAIN file : ~(i < 1)
    BY <1>2
  <2> QED
    BY <1>3, <1>8, <1>9, <1>10, <2>1 DEF OpenInv, FileInv
<1>12. ImportInv(run, table)
  BY <1>3, <1>8, <1>11 DEF ImportInv, IsOpen
<1> QED
  BY <1>4, <1>5, <1>6, <1>8, <1>12, RunStep DEF ReadSource, inbox

\* A line that may be inserted, and where the run stands.
LEMMA CurrentLine ==
  ASSUME TypeOK, MoveInv, NEW r \in Runs, IsOpen(importing[r]), Remaining(r)
  PROVE  /\ importing[r] \in Imports /\ OpenInv(importing[r], table)
         /\ importing[r].next \in DOMAIN importing[r].source
         /\ Current(r) \in Lines
         /\ DOMAIN importing[r].inserted \cap DOMAIN table = {}
         /\ Current(r).submission \notin Inserting(r) \/
              \E i \in DOMAIN importing[r].source :
                i < importing[r].next /\ importing[r].source[i].submission = Current(r).submission
<1>1. importing[r] \in Imports
  BY DEF TypeOK
<1>2. ImportInv(importing[r], table)
  BY DEF MoveInv
<1>3. OpenInv(importing[r], table) /\ DOMAIN importing[r].inserted \cap DOMAIN table = {}
  BY <1>2 DEF ImportInv
<1>4. importing[r].source \in Seq(Lines) /\ importing[r].next \in Nat \ {0}
  BY <1>1, <1>3 DEF Imports, OpenInv
<1>5. importing[r].next \in DOMAIN importing[r].source /\ Current(r) \in Lines
  BY <1>4 DEF Remaining, Current
<1> QED
  BY <1>1, <1>3, <1>5 DEF OpenInv, Inserting

\* The source names every submission once.
LEMMA CurrentIsNew ==
  ASSUME TypeOK, MoveInv, NEW r \in Runs, IsOpen(importing[r]), Remaining(r)
  PROVE  Current(r).submission \notin Inserting(r)
<1>1. PICK run : run = importing[r]
  OBVIOUS
<1>2. /\ run.source \in Seq(Lines) /\ Distinct(run.source) /\ run.next \in DOMAIN run.source
      /\ Current(r) = run.source[run.next]
  BY <1>1, CurrentLine DEF OpenInv, Current
<1>3. \A i \in DOMAIN run.source : run.source[i] # Damaged
  BY <1>2, LinesRead
<1>4. \A i \in DOMAIN run.source :
        i < run.next => run.source[i].submission # run.source[run.next].submission
  BY <1>2, <1>3 DEF Distinct
<1> QED
  BY <1>1, <1>2, <1>4, CurrentLine

LEMMA InsertStep ==
  ASSUME TypeOK, MoveInv, NEW r \in Runs, Insert(r)
  PROVE  MoveInv' /\ importing' \in [Runs -> Imports]
<1>1. PICK old : old = importing[r]
  OBVIOUS
<1>2. /\ old.step = "inserting" /\ IsOpen(importing[r]) /\ Remaining(r)
      /\ \A o \in Runs \ {r} : Current(r).submission \notin Inserting(o)
  BY <1>1 DEF Insert, CanInsert, IsOpen
<1>3. PICK line : line = Current(r)
  OBVIOUS
<1>4. /\ old \in Imports /\ OpenInv(old, table) /\ old.next \in DOMAIN old.source
      /\ line = old.source[old.next] /\ line \in Lines
      /\ DOMAIN old.inserted \cap DOMAIN table = {} /\ line.submission \notin DOMAIN old.inserted
  BY <1>1, <1>2, <1>3, CurrentLine, CurrentIsNew DEF Current, Inserting
<1>5. CASE Present(r)
  <2>1. PICK run : run = [old EXCEPT !.step = "comparing"]
    OBVIOUS
  <2>2. /\ run \in Imports /\ run.step = "comparing" /\ run.source = old.source
        /\ run.next = old.next /\ run.inserted = old.inserted /\ run.owed = old.owed
    BY <1>4, <2>1 DEF Imports
  <2>3. importing' = [importing EXCEPT ![r] = run]
    BY <1>1, <1>5, <2>1 DEF Insert, ImportGoes, TypeOK
  <2>4. line.submission \in DOMAIN table
    BY <1>1, <1>3, <1>4, <1>5 DEF Present, Inserting
  <2>5. OpenInv(run, table)
    BY <1>4, <2>2 DEF OpenInv, Brought
  <2>6. ImportInv(run, table)
    BY <1>4, <2>2, <2>4, <2>5 DEF ImportInv, IsOpen
  <2>7. \A o \in Runs \ {r} : DOMAIN run.inserted \cap Inserting(o) = {}
    BY <1>1, <2>2 DEF MoveInv, Inserting
  <2> QED
    BY <1>1, <1>2, <2>2, <2>3, <2>6, <2>7, RunStep DEF Insert, inbox
<1>6. CASE ~Present(r)
  <2>1. PICK rows : rows = With(old.inserted, line.submission, line.receipt)
    OBVIOUS
  <2>2. /\ DOMAIN rows = DOMAIN old.inserted \cup {line.submission}
        /\ rows[line.submission] = line.receipt
        /\ \A s \in DOMAIN old.inserted : rows[s] = old.inserted[s]
    BY <1>4, <2>1 DEF With
  <2>3. rows \in UNION {[D -> Nat \ {0}] : D \in SUBSET Submissions}
    <3>1. PICK D \in SUBSET Submissions : old.inserted \in [D -> Nat \ {0}]
      BY <1>4 DEF Imports
    <3>2. line.submission \in Submissions /\ line.receipt \in Nat \ {0}
      BY <1>4 DEF Lines
    <3>3. rows \in [D \cup {line.submission} -> Nat \ {0}]
      BY <2>1, <3>1, <3>2 DEF With
    <3> QED
      BY <3>2, <3>3
  <2>4. PICK run :
          run = [old EXCEPT !.next = old.next + 1, !.step = "inserting", !.inserted = rows]
    OBVIOUS
  <2>5. /\ run \in Imports /\ run.step = "inserting" /\ run.source = old.source
        /\ run.next = old.next + 1 /\ run.inserted = rows /\ run.owed = old.owed
    <3>1. PICK n : n = old.next + 1
      OBVIOUS
    <3>2. n \in Nat \ {0}
      BY <1>4, <3>1 DEF Imports
    <3>3. run = [old EXCEPT !.next = n, !.step = "inserting", !.inserted = rows]
      BY <2>4, <3>1
    <3> QED
      BY <1>4, <2>3, <3>1, <3>2, <3>3 DEF Imports
  <2>6. importing' = [importing EXCEPT ![r] = run]
    BY <1>1, <1>3, <1>4, <1>6, <2>1, <2>4 DEF Insert, Advanced, Imports
  <2>7. line.submission \notin DOMAIN table
    BY <1>3, <1>6 DEF Present
  <2>8. old.source \in Seq(Lines) /\ old.next \in Nat
    BY <1>4 DEF OpenInv, Imports
  <2>9. \A i \in DOMAIN old.source : i < run.next => i < old.next \/ i = old.next
    BY <2>5, <2>8
  <2>10. \A i \in DOMAIN old.source : i < run.next => Brought(run, table, run.source[i])
    <3> SUFFICES ASSUME NEW i \in DOMAIN old.source, i < run.next
                 PROVE  Brought(run, table, old.source[i])
      BY <2>5
    <3>1. CASE i = old.next
      BY <1>4, <2>2, <2>5, <3>1 DEF Brought
    <3>2. CASE i < old.next
      <4>1. Brought(old, table, old.source[i])
        BY <1>4, <3>2 DEF OpenInv
      <4>2. old.source[i].submission # line.submission
        BY <1>4, <2>7, <4>1 DEF Brought, Carries
      <4> QED
        BY <2>2, <2>5, <4>1, <4>2 DEF Brought
    <3> QED
      BY <2>9, <3>1, <3>2
  <2>11. \A s \in DOMAIN rows :
           \E i \in DOMAIN old.source : i < run.next /\ old.source[i].submission = s
    <3> SUFFICES ASSUME NEW s \in DOMAIN rows
                 PROVE  \E i \in DOMAIN old.source :
                          i < run.next /\ old.source[i].submission = s
      OBVIOUS
    <3>1. CASE s = line.submission
      BY <1>4, <2>5, <2>8, <3>1
    <3>2. CASE s \in DOMAIN old.inserted
      <4>1. PICK i \in DOMAIN old.source : i < old.next /\ old.source[i].submission = s
        BY <1>4, <3>2 DEF OpenInv
      <4>2. i < run.next
        BY <2>5, <2>8, <4>1
      <4> QED
        BY <4>1, <4>2
    <3> QED
      BY <2>2, <3>1, <3>2
  <2>12. OpenInv(run, table)
    BY <1>4, <2>5, <2>10, <2>11 DEF OpenInv
  <2>13. ImportInv(run, table)
    BY <1>4, <2>2, <2>5, <2>7, <2>12 DEF ImportInv, IsOpen
  <2>14. \A o \in Runs \ {r} : DOMAIN run.inserted \cap Inserting(o) = {}
    BY <1>1, <1>2, <1>3, <2>2, <2>5 DEF MoveInv, Inserting
  <2> QED
    BY <1>1, <1>2, <2>5, <2>6, <2>13, <2>14, RunStep DEF Insert, inbox
<1> QED
  BY <1>5, <1>6

LEMMA CompareStep ==
  ASSUME TypeOK, MoveInv, NEW r \in Runs, Compare(r)
  PROVE  MoveInv' /\ importing' \in [Runs -> Imports]
<1>1. PICK old : old = importing[r]
  OBVIOUS
<1>2. old.step = "comparing" /\ IsOpen(importing[r])
  BY <1>1 DEF Compare, IsOpen
<1>3. /\ ImportInv(old, table) /\ old \in Imports
  BY <1>1 DEF MoveInv, TypeOK
<1>4. /\ OpenInv(old, table) /\ old.source \in Seq(Lines)
      /\ old.next \in DOMAIN old.source /\ old.source[old.next].submission \in DOMAIN table
      /\ DOMAIN old.inserted \cap DOMAIN table = {}
  BY <1>1, <1>2, <1>3 DEF ImportInv, OpenInv
<1>5. PICK line : line = Current(r)
  OBVIOUS
<1>6. line = old.source[old.next] /\ StoredReceipt(r) = table[line.submission].receipt
  BY <1>1, <1>4, <1>5 DEF Current, StoredReceipt, Inserting
<1>7. UNCHANGED <<table, answered, moved, imported>>
  BY DEF Compare, inbox
<1>8. CASE StoredReceipt(r) = Current(r).receipt
  <2>1. PICK run : run = [old EXCEPT !.next = old.next + 1, !.step = "inserting"]
    OBVIOUS
  <2>2. /\ run \in Imports /\ run.step = "inserting" /\ run.source = old.source
        /\ run.next = old.next + 1 /\ run.inserted = old.inserted /\ run.owed = old.owed
    <3>1. PICK n : n = old.next + 1
      OBVIOUS
    <3>2. n \in Nat \ {0}
      BY <1>3, <3>1 DEF Imports
    <3>3. run = [old EXCEPT !.next = n, !.step = "inserting"]
      BY <2>1, <3>1
    <3> QED
      BY <1>3, <3>1, <3>2, <3>3 DEF Imports
  <2>3. importing' = [importing EXCEPT ![r] = run]
    BY <1>1, <1>8, <2>1 DEF Compare, Advanced
  <2>4. old.next \in Nat
    BY <1>3 DEF Imports
  <2>5. \A i \in DOMAIN old.source : i < run.next => i < old.next \/ i = old.next
    BY <1>4, <2>2, <2>4
  <2>6. Brought(run, table, line)
    BY <1>4, <1>5, <1>6, <1>8, <2>2 DEF Brought, Carries
  <2>7. \A i \in DOMAIN old.source : i < run.next => Brought(run, table, old.source[i])
    BY <1>4, <1>6, <2>2, <2>5, <2>6 DEF OpenInv, Brought
  <2>8. \A i \in DOMAIN old.source : i < old.next => i < run.next
    BY <1>4, <2>2, <2>4
  <2>9. OpenInv(run, table)
    BY <1>4, <2>2, <2>7, <2>8 DEF OpenInv
  <2>10. ImportInv(run, table)
    BY <1>4, <2>2, <2>9 DEF ImportInv, IsOpen
  <2>11. \A o \in Runs \ {r} : DOMAIN run.inserted \cap Inserting(o) = {}
    BY <1>1, <2>2 DEF MoveInv, Inserting
  <2> QED
    BY <1>1, <1>2, <1>7, <2>2, <2>3, <2>10, <2>11, RunStep
<1>9. CASE StoredReceipt(r) # Current(r).receipt
  <2>1. Undone(r, "refused")
    BY <1>9 DEF Compare
  <2>2. /\ old.source[old.next].submission \in DOMAIN table
        /\ table[old.source[old.next].submission].receipt # old.source[old.next].receipt
    BY <1>4, <1>5, <1>6, <1>9
  <2> QED
    BY <1>1, <1>2, <1>4, <1>7, <2>1, <2>2, UndoneStep
<1> QED
  BY <1>8, <1>9

LEMMA FailStep ==
  ASSUME TypeOK, MoveInv, NEW r \in Runs, Fail(r)
  PROVE  MoveInv' /\ importing' \in [Runs -> Imports]
<1>1. /\ Undone(r, "failed") /\ IsOpen(importing[r])
      /\ UNCHANGED <<table, answered, moved, imported>>
  BY DEF Fail, IsOpen, inbox
<1> QED
  BY <1>1, UndoneStep

\* A run that has read every line has brought every line.
LEMMA ReadToTheEnd ==
  ASSUME TypeOK, MoveInv, NEW r \in Runs, IsOpen(importing[r]), ~Remaining(r)
  PROVE  \A i \in DOMAIN importing[r].source :
           Brought(importing[r], table, importing[r].source[i])
<1>1. PICK run : run = importing[r]
  OBVIOUS
<1>2. OpenInv(run, table) /\ run \in Imports
  BY <1>1 DEF MoveInv, ImportInv, TypeOK
<1>3. run.source \in Seq(Lines) /\ run.next \in Nat /\ ~(run.next <= Len(run.source))
  BY <1>1, <1>2 DEF OpenInv, Imports, Remaining
<1>4. \A i \in DOMAIN run.source : i < run.next
  BY <1>3
<1> QED
  BY <1>1, <1>2, <1>4 DEF OpenInv

\* The rows of a run come to the table beside those that are there.
LEMMA RowsJoin ==
  ASSUME TypeOK, MoveInv, NEW r \in Runs, table' = Joined(Rows(r), table)
  PROVE  /\ DOMAIN table' = Inserting(r) \cup DOMAIN table
         /\ \A s \in Inserting(r) :
              table'[s].receipt = importing[r].inserted[s] /\ table'[s].by = r
         /\ Grown(table, table')
         /\ DOMAIN table' \subseteq Submissions /\ table' \in [DOMAIN table' -> Rowed]
<1>1. PICK rows, held : rows = Rows(r) /\ held = table
  OBVIOUS
<1>2. /\ table' = Joined(rows, held) /\ DOMAIN rows = Inserting(r)
      /\ \A s \in Inserting(r) :
           rows[s].receipt = importing[r].inserted[s] /\ rows[s].by = r
  BY <1>1 DEF Rows
<1>3. Inserting(r) \cap DOMAIN held = {}
  BY <1>1 DEF MoveInv, ImportInv, Inserting
<1>4. /\ DOMAIN table' = DOMAIN rows \cup DOMAIN held
      /\ \A s \in DOMAIN rows : table'[s] = rows[s]
      /\ \A s \in DOMAIN held : table'[s] = held[s]
      /\ table' = [s \in DOMAIN table' |-> table'[s]]
  BY <1>2, <1>3 DEF Joined
<1>5. Inserting(r) \subseteq Submissions
      /\ \A s \in Inserting(r) : importing[r].inserted[s] \in Nat \ {0}
  <2>1. importing[r].inserted \in UNION {[D -> Nat \ {0}] : D \in SUBSET Submissions}
    BY DEF TypeOK, Imports
  <2> QED
    BY <2>1 DEF Inserting
<1>6. \A s \in DOMAIN rows : rows[s] \in Rowed
  BY <1>1, <1>2, <1>5 DEF Rows, Rowed
<1>7. \A s \in DOMAIN table' : table'[s] \in Rowed
  BY <1>1, <1>4, <1>6 DEF TypeOK
<1>8. DOMAIN table' \subseteq Submissions
  BY <1>1, <1>2, <1>4, <1>5 DEF TypeOK
<1> QED
  BY <1>1, <1>2, <1>4, <1>7, <1>8 DEF Grown

LEMMA CommitStep ==
  ASSUME TypeOK, MoveInv, NEW r \in Runs, Commit(r)
  PROVE  /\ MoveInv' /\ importing' \in [Runs -> Imports]
         /\ DOMAIN table' \subseteq Submissions /\ table' \in [DOMAIN table' -> Rowed]
         /\ moved' \subseteq Answers /\ imported' \subseteq Seq(Lines)
<1>1. PICK old : old = importing[r]
  OBVIOUS
<1>2. IsOpen(old) /\ ~Remaining(r) /\ old \in Imports
  BY <1>1 DEF Commit, IsOpen, TypeOK
<1>3. OpenInv(old, table)
  BY <1>1, <1>2 DEF MoveInv, ImportInv
<1>4. PICK step \in {"done", "unheard"} : Undone(r, step)
  BY DEF Commit
<1>5. PICK run : run = [old EXCEPT !.step = step, !.inserted = NoRow]
  OBVIOUS
<1>6. DOMAIN NoRow = {}
      /\ NoRow \in UNION {[rows -> Nat \ {0}] : rows \in SUBSET Submissions}
  <2>1. NoRow \in [{} -> Nat \ {0}] /\ {} \in SUBSET Submissions
    BY DEF NoRow
  <2> QED
    BY <2>1 DEF NoRow
<1>7. /\ run \in Imports /\ run.step = step /\ run.source = old.source
      /\ run.inserted = NoRow
  BY <1>2, <1>5, <1>6 DEF Imports
<1>8. /\ importing' = [importing EXCEPT ![r] = run]
      /\ importing' \in [Runs -> Imports] /\ importing'[r] = run
      /\ \A o \in Runs \ {r} : importing'[o] = importing[o]
  BY <1>1, <1>4, <1>5, <1>7 DEF Undone, TypeOK
<1>9. /\ table' = Joined(Rows(r), table) /\ answered' = answered
      /\ moved' = moved \cup old.owed /\ imported' = imported \cup {old.source}
  BY <1>1 DEF Commit, inbox
<1>10. /\ DOMAIN table' = Inserting(r) \cup DOMAIN table
       /\ \A s \in Inserting(r) : table'[s].receipt = old.inserted[s] /\ table'[s].by = r
       /\ Grown(table, table')
       /\ DOMAIN table' \subseteq Submissions /\ table' \in [DOMAIN table' -> Rowed]
  BY <1>1, <1>9, RowsJoin
<1>11. \A i \in DOMAIN old.source : Carries(table', old.source[i])
  <2> SUFFICES ASSUME NEW i \in DOMAIN old.source PROVE Carries(table', old.source[i])
    OBVIOUS
  <2>1. Brought(old, table, old.source[i])
    BY <1>1, <1>2, ReadToTheEnd
  <2> QED
    BY <1>1, <1>10, <2>1 DEF Brought, Carries, Grown, Inserting
<1>12. ImportInv(run, table')
  BY <1>6, <1>7, <1>11 DEF ImportInv, IsOpen, Carries
<1>13. \A o \in Runs \ {r} : Inserting(o) \cap DOMAIN table' = {}
  BY <1>10 DEF MoveInv, ImportInv, Inserting
<1>14. \A o \in Runs : ImportInv(importing'[o], table')
  BY <1>8, <1>10, <1>12, <1>13, OtherRun
<1>15. Inserting(r)' = {} /\ \A o \in Runs \ {r} : Inserting(o)' = Inserting(o)
  BY <1>6, <1>7, <1>8 DEF Inserting
<1>16. NoDirtyRows'
  <2> SUFFICES ASSUME NEW s \in DOMAIN table'
               PROVE  table'[s].by = "app"
                      \/ importing'[table'[s].by].step \in {"done", "unheard"}
    BY DEF NoDirtyRows
  <2>1. CASE s \in Inserting(r)
    BY <1>7, <1>8, <1>10, <2>1
  <2>2. CASE s \in DOMAIN table
    <3>1. table'[s] = table[s] /\ table[s].by \in Runs \cup {"app"}
      BY <1>10, <2>2 DEF Grown, TypeOK, Rowed
    <3> QED
      BY <1>7, <1>8, <2>2, <3>1 DEF MoveInv, NoDirtyRows
  <2> QED
    BY <1>10, <2>1, <2>2
<1>17. ReceiptsMove'
  <2>1. \A a \in moved \cup {b \in answered : b.store = "table"} : Carries(table', a)
    BY <1>10, ToldCarried
  <2>2. \A a \in old.owed : Carries(table', a)
    <3> SUFFICES ASSUME NEW a \in old.owed PROVE Carries(table', a)
      OBVIOUS
    <3>1. PICK i \in DOMAIN old.source : old.source[i] = Line(a.submission, a.receipt)
      BY <1>3 DEF OpenInv, Tells
    <3> QED
      BY <1>11, <3>1 DEF Carries, Line
  <2> QED
    BY <1>9, <2>1, <2>2 DEF ReceiptsMove, Carries
<1>18. \A source \in imported' : \A i \in DOMAIN source : Carries(table', source[i])
  BY <1>9, <1>10, <1>11, ToldCarried
<1>19. MoveInv'
  BY <1>14, <1>15, <1>16, <1>17, <1>18 DEF MoveInv
<1>20. old.owed \subseteq Answers /\ old.source \in Seq(Lines)
  BY <1>2, <1>3 DEF Imports, OpenInv
<1> QED
  BY <1>8, <1>9, <1>10, <1>19, <1>20 DEF TypeOK

----------------------------------------------------------------------------
(* The invariant *)

LEMMA InitInv ==
  ASSUME Init
  PROVE  IInv
<1>1. TypeOK
  <2>1. [step |-> "new", source |-> <<>>, next |-> 1, inserted |-> NoRow, owed |-> {}]
          \in Imports
    <3>1. NoRow \in [{} -> Nat \ {0}] /\ {} \in SUBSET Submissions
      BY DEF NoRow
    <3>2. NoRow \in UNION {[rows -> Nat \ {0}] : rows \in SUBSET Submissions}
      BY <3>1
    <3>3. <<>> \in Seq(Lines \cup {Damaged}) /\ {} \subseteq Answers
      OBVIOUS
    <3> QED
      BY <3>2, <3>3 DEF Imports
  <2>2. importing \in [Runs -> Imports]
    BY <2>1 DEF Init
  <2>3. DOMAIN table = {} /\ table \in [DOMAIN table -> Rowed]
    BY DEF Init, NoRow
  <2>4. migrating \in [Migrators -> Runners]
    BY DEF Init, Runner, Runners
  <2>5. /\ store = "file" /\ file = <<>> /\ torn = FALSE
        /\ schema = {} /\ recorded = {} /\ minted = 0 /\ switches = 0
        /\ answered = {} /\ moved = {} /\ imported = {}
    BY DEF Init
  <2>6. file \in Seq(Lines \cup {Damaged})
    BY <2>5
  <2> QED
    BY <2>2, <2>3, <2>4, <2>5, <2>6 DEF TypeOK
<1>2. SchemaInv
  BY DEF Init, Runner, SchemaInv, SchemaIsRecorded, RunnerInv, Holds
<1>3. FileInv
  BY DEF Init, FileInv, Distinct, Malformed
<1>4. MoveInv
  <2>1. DOMAIN table = {} /\ \A r \in Runs : DOMAIN importing[r].inserted = {}
    BY DEF Init, NoRow
  <2>2. \A r \in Runs : importing[r].step = "new" /\ importing[r].next = 1
    BY DEF Init
  <2>3. \A r \in Runs : ImportInv(importing[r], table)
    BY <2>1, <2>2 DEF ImportInv, IsOpen
  <2>4. moved = {} /\ answered = {} /\ imported = {}
    BY DEF Init
  <2> QED
    BY <2>1, <2>3, <2>4 DEF MoveInv, NoDirtyRows, ReceiptsMove, Inserting
<1> QED
  BY <1>1, <1>2, <1>3, <1>4 DEF IInv

\* What no step of an import touches.
LEMMA ImportAside ==
  ASSUME TypeOK, SchemaInv, FileInv, UNCHANGED <<inbox, schema, recorded, migrating>>,
         MoveInv', importing' \in [Runs -> Imports],
         DOMAIN table' \subseteq Submissions, table' \in [DOMAIN table' -> Rowed],
         moved' \subseteq Answers, imported' \subseteq Seq(Lines)
  PROVE  IInv'
<1>1. UNCHANGED <<store, file, torn, minted, switches, answered>>
  BY DEF inbox
<1>2. TypeOK'
  BY <1>1 DEF TypeOK
<1>3. SchemaInv'
  BY SchemaKept
<1>4. FileInv'
  BY <1>1 DEF FileInv
<1> QED
  BY <1>2, <1>3, <1>4 DEF IInv

LEMMA NextInv ==
  ASSUME IInv, [Next]_vars
  PROVE  IInv'
<1> USE DEF IInv
<1>1. CASE \E m \in Migrators :
             Lock(m) \/ ReadApplied(m) \/ Apply(m) \/ CommitMigration(m) \/ EndMigration(m)
  <2>1. PICK m \in Migrators :
          Lock(m) \/ ReadApplied(m) \/ Apply(m) \/ CommitMigration(m) \/ EndMigration(m)
    BY <1>1
  <2>2. /\ schema' \subseteq Versions /\ recorded' \subseteq Versions
        /\ migrating' \in [Migrators -> Runners] /\ Aside
    BY <2>1, MigrationType
  <2>3. SchemaInv'
    BY <2>1, MigrationSchema
  <2>4. UNCHANGED <<store, file, torn, minted, switches, answered, table, importing, moved,
                    imported>>
    BY <2>2 DEF Aside, inbox
  <2>5. TypeOK'
    BY <2>2, <2>4 DEF TypeOK
  <2>6. FileInv' /\ MoveInv'
    BY <2>4, MoveKept DEF FileInv
  <2> QED
    BY <2>3, <2>5, <2>6
<1>2. CASE \E s \in Submissions : FileAnswers(s) \/ FileFails(s)
  <2>1. PICK s \in Submissions : FileAnswers(s) \/ FileFails(s)
    BY <1>2
  <2>2. /\ FileInv' /\ file' \in Seq(Lines \cup {Damaged}) /\ (torn' => file' # <<>>)
        /\ torn' \in BOOLEAN /\ minted' \in Nat /\ answered' \subseteq Answers
        /\ \A a \in answered' \ answered : a.store = "file"
    BY <2>1, FileStep
  <2>3. UNCHANGED <<store, switches, table, schema, recorded, migrating, importing, moved,
                    imported>>
    BY <2>1 DEF FileAnswers, FileFails
  <2>4. TypeOK'
    BY <2>2, <2>3 DEF TypeOK
  <2>5. SchemaInv' /\ MoveInv'
    BY <2>2, <2>3, SchemaKept, MoveKept
  <2> QED
    BY <2>2, <2>4, <2>5
<1>3. CASE \E s \in Submissions : TableAnswers(s)
  <2>1. PICK s \in Submissions : TableAnswers(s)
    BY <1>3
  <2>2. /\ MoveInv' /\ minted' \in Nat /\ answered' \subseteq Answers
        /\ DOMAIN table' \subseteq Submissions /\ table' \in [DOMAIN table' -> Rowed]
        /\ \A a \in answered' \ answered : a.store = "table"
    BY <2>1, TableStep
  <2>3. UNCHANGED <<store, file, torn, switches, schema, recorded, migrating, importing,
                    moved, imported>>
    BY <2>1 DEF TableAnswers
  <2>4. TypeOK'
    BY <2>2, <2>3 DEF TypeOK
  <2>5. FileInv'
    BY <2>2, <2>3 DEF FileInv
  <2>6. SchemaInv'
    BY <2>3, SchemaKept
  <2> QED
    BY <2>2, <2>4, <2>5, <2>6
<1>4. CASE Switch
  <2>1. UNCHANGED <<file, torn, minted, answered, table, schema, recorded, migrating,
                    importing, moved, imported>>
    BY <1>4 DEF Switch
  <2>2. store' \in {"file", "table"} /\ switches' \in Nat
    BY <1>4 DEF Switch, TypeOK
  <2>3. TypeOK'
    BY <2>1, <2>2 DEF TypeOK
  <2>4. SchemaInv' /\ MoveInv' /\ FileInv'
    BY <2>1, SchemaKept, MoveKept DEF FileInv
  <2> QED
    BY <2>3, <2>4
<1>5. CASE \E r \in Runs : ReadSource(r) \/ Insert(r) \/ Compare(r) \/ Fail(r)
  <2>1. PICK r \in Runs : ReadSource(r) \/ Insert(r) \/ Compare(r) \/ Fail(r)
    BY <1>5
  <2>2. MoveInv' /\ importing' \in [Runs -> Imports]
    BY <2>1, ReadSourceStep, InsertStep, CompareStep, FailStep
  <2>3. UNCHANGED <<inbox, table, schema, recorded, migrating, moved, imported>>
    BY <2>1 DEF ReadSource, Insert, Compare, Fail
  <2>4. /\ DOMAIN table' \subseteq Submissions /\ table' \in [DOMAIN table' -> Rowed]
        /\ moved' \subseteq Answers /\ imported' \subseteq Seq(Lines)
    BY <2>3 DEF TypeOK
  <2> QED
    BY <2>2, <2>3, <2>4, ImportAside
<1>6. CASE \E r \in Runs : Commit(r)
  <2>1. PICK r \in Runs : Commit(r)
    BY <1>6
  <2>2. UNCHANGED <<inbox, schema, recorded, migrating>>
    BY <2>1 DEF Commit
  <2> QED
    BY <2>1, <2>2, CommitStep, ImportAside
<1>7. CASE UNCHANGED vars
  <2>1. UNCHANGED <<store, file, torn, minted, switches, answered, table, schema, recorded,
                    migrating, importing, moved, imported>>
    BY <1>7 DEF vars, inbox
  <2>2. TypeOK'
    BY <2>1 DEF TypeOK
  <2>3. SchemaInv' /\ MoveInv' /\ FileInv'
    BY <2>1, SchemaKept, MoveKept DEF FileInv
  <2> QED
    BY <2>2, <2>3
<1> QED
  BY <1>1, <1>2, <1>3, <1>4, <1>5, <1>6, <1>7 DEF Next

LEMMA Invariant == Spec => []IInv
<1>1. Init => IInv
  BY InitInv
<1>2. IInv /\ [Next]_vars => IInv'
  BY NextInv
<1> QED
  BY <1>1, <1>2, PTL DEF Spec

\* Every variable keeps its type, the imported contents being lines that read.
THEOREM TypeCorrect == Spec => []TypeOK
<1>1. IInv => TypeOK
  BY DEF IInv
<1> QED
  BY <1>1, Invariant, PTL

\* The lock makes what is applied what is recorded: a runner reads schema_migrations and
\* applies what is missing while no other does.
THEOREM SchemaRecorded == Spec => []SchemaIsRecorded
<1>1. IInv => SchemaIsRecorded
  BY DEF IInv, SchemaInv
<1> QED
  BY <1>1, Invariant, PTL

\* However the store is switched, the import repeated, cut or run beside the application:
\* what families were told is in the table under the receipt they hold.
THEOREM ReceiptsKept == Spec => []ReceiptsMove
<1>1. IInv => ReceiptsMove
  BY DEF IInv, MoveInv
<1> QED
  BY <1>1, Invariant, PTL

\* A run of the import leaves all of its source in the table, or nothing.
THEOREM ImportAllOrNothing == Spec => []AllOrNothing
<1>1. IInv => AllOrNothing
  <2> SUFFICES ASSUME IInv PROVE AllOrNothing
    OBVIOUS
  <2>1. \A r \in Runs : ImportInv(importing[r], table)
    BY DEF IInv, MoveInv
  <2>2. NoDirtyRows
    BY DEF IInv, MoveInv
  <2> QED
    BY <2>1, <2>2, RunsAssumption DEF AllOrNothing, ImportInv, NoDirtyRows
<1> QED
  BY <1>1, Invariant, PTL

\* A run over contents that were imported is never refused, in whatever order runs go.
THEOREM RerunSafe == Spec => []RerunIsSafe
<1>1. IInv => RerunIsSafe
  <2> SUFFICES ASSUME IInv, NEW r \in Runs, importing[r].step = "refused",
                      importing[r].source \in imported
               PROVE  FALSE
    BY DEF RerunIsSafe
  <2>1. PICK source : source = importing[r].source
    OBVIOUS
  <2>2. source \in Seq(Lines) /\ \A i \in DOMAIN source : Carries(table, source[i])
    BY <2>1 DEF IInv, TypeOK, MoveInv
  <2>3. ~Malformed(source)
    BY <2>2, LinesRead DEF Malformed
  <2>4. \E i \in DOMAIN source :
          /\ source[i].submission \in DOMAIN table
          /\ table[source[i].submission].receipt # source[i].receipt
    BY <2>1, <2>3 DEF IInv, MoveInv, ImportInv
  <2> QED
    BY <2>2, <2>4 DEF Carries
<1> QED
  BY <1>1, Invariant, PTL

----------------------------------------------------------------------------
(* What filtering a sequence of ages does: the lemmas the limiters need *)

\* A set of numbers that has one has a least one.
LEMMA LeastNat ==
  ASSUME NEW S, S \subseteq Nat, S # {}
  PROVE  \E m \in S : \A k \in S : m <= k
<1>1. S \subseteq Nat /\ S # {}
  OBVIOUS
<1>2. PICK x \in S : \A y \in S : ~(<<y, x>> \in OpToRel(<, Nat))
  BY ONLY <1>1, WFMin, NatLessThanWellFounded
<1>3. ASSUME NEW k \in S PROVE x <= k
  <2>1. k \in Nat /\ x \in Nat
    OBVIOUS
  <2>2. ~(k < x)
    BY <1>2, <2>1 DEF OpToRel
  <2> QED
    BY <2>1, <2>2
<1> QED
  BY <1>3

\* The filter, place by place: f[n] is what it has kept of the first n ages.
Keeps(ages, m, f) ==
  f = [n \in 0 .. m |->
         IF n = 0 THEN <<>>
         ELSE IF IsRecent(ages[n]) THEN Append(f[n - 1], ages[n]) ELSE f[n - 1]]

LEMMA FilterExists ==
  ASSUME NEW ages, NEW m \in Nat
  PROVE  \E f : Keeps(ages, m, f)
<1> DEFINE S == {k \in Nat : ~\E f : Keeps(ages, k, f)}
<1>1. SUFFICES ASSUME S # {} PROVE FALSE
  OBVIOUS
<1>2. PICK k \in S : \A i \in S : k <= i
  BY <1>1, LeastNat
<1>3. k # 0
  <2>1. Keeps(ages, 0, [n \in 0 .. 0 |-> <<>>])
    BY DEF Keeps
  <2> QED
    BY <1>2, <2>1
<1>4. PICK f : Keeps(ages, k - 1, f)
  <2>1. k - 1 \in Nat /\ ~(k <= k - 1)
    BY <1>3
  <2>2. k - 1 \notin S
    BY <1>2, <2>1
  <2> QED
    BY <2>1, <2>2
<1>5. PICK last : last = IF IsRecent(ages[k]) THEN Append(f[k - 1], ages[k]) ELSE f[k - 1]
  OBVIOUS
<1> DEFINE g == [n \in 0 .. k |-> IF n = k THEN last ELSE f[n]]
<1>6. Keeps(ages, k, g)
  <2>1. ASSUME NEW n \in 0 .. k
        PROVE  g[n] = IF n = 0 THEN <<>>
                      ELSE IF IsRecent(ages[n]) THEN Append(g[n - 1], ages[n]) ELSE g[n - 1]
    <3>1. CASE n = k
      BY <1>3, <1>5, <3>1
    <3>2. CASE n # k /\ n = 0
      BY <1>3, <1>4, <3>2 DEF Keeps
    <3>3. CASE n # k /\ n # 0
      <4>1. n \in 0 .. k - 1 /\ n - 1 \in 0 .. k /\ n - 1 # k
        BY <3>3
      <4>2. g[n] = f[n] /\ g[n - 1] = f[n - 1]
        BY <3>3, <4>1
      <4>3. f[n] = IF IsRecent(ages[n]) THEN Append(f[n - 1], ages[n]) ELSE f[n - 1]
        BY <1>4, <3>3, <4>1 DEF Keeps
      <4> QED
        BY <3>3, <4>2, <4>3
    <3> QED
      BY <3>1, <3>2, <3>3
  <2> QED
    BY <2>1 DEF Keeps
<1> QED
  BY <1>2, <1>6

LEMMA FilterAgrees ==
  ASSUME NEW a, NEW b, NEW k \in Nat, NEW m \in Nat, NEW f, NEW g,
         Keeps(a, k, f), Keeps(b, m, g), NEW n \in Nat, n <= k, n <= m,
         \A i \in 1 .. n : a[i] = b[i]
  PROVE  f[n] = g[n]
<1> DEFINE S == {i \in 0 .. n : f[i] # g[i]}
<1>1. SUFFICES ASSUME S # {} PROVE FALSE
  OBVIOUS
<1>2. PICK i \in S : \A j \in S : i <= j
  <2>1. S \subseteq Nat
    OBVIOUS
  <2> QED
    BY <1>1, <2>1, LeastNat
<1>3. i \in 0 .. k /\ i \in 0 .. m
  OBVIOUS
<1>4. i # 0
  BY <1>3 DEF Keeps
<1>5. i - 1 \in 0 .. n /\ ~(i <= i - 1)
  BY <1>4
<1>6. f[i - 1] = g[i - 1]
  BY <1>2, <1>5
<1>7. a[i] = b[i]
  BY <1>4
<1>8. f[i] = IF IsRecent(a[i]) THEN Append(f[i - 1], a[i]) ELSE f[i - 1]
  BY <1>3, <1>4 DEF Keeps
<1>9. g[i] = IF IsRecent(b[i]) THEN Append(g[i - 1], b[i]) ELSE g[i - 1]
  BY <1>3, <1>4 DEF Keeps
<1> QED
  BY <1>6, <1>7, <1>8, <1>9

LEMMA RecentByPlace ==
  ASSUME NEW ages, Len(ages) \in Nat
  PROVE  \E f : Keeps(ages, Len(ages), f) /\ Recent(ages) = f[Len(ages)]
<1> DEFINE f == CHOOSE f : Keeps(ages, Len(ages), f)
<1>1. Keeps(ages, Len(ages), f)
  BY FilterExists
<1>2. Recent(ages) = f[Len(ages)]
  BY DEF Recent, Keeps
<1> QED
  BY <1>1, <1>2

LEMMA RecentNone == Recent(<<>>) = <<>>
<1>1. Len(<<>>) = 0
  OBVIOUS
<1>2. PICK f : Keeps(<<>>, 0, f) /\ Recent(<<>>) = f[0]
  BY <1>1, RecentByPlace
<1> QED
  BY <1>2 DEF Keeps

LEMMA RecentAppend ==
  ASSUME NEW S, NEW ages \in Seq(S), NEW age \in S
  PROVE  Recent(Append(ages, age)) =
           IF IsRecent(age) THEN Append(Recent(ages), age) ELSE Recent(ages)
<1> DEFINE n == Len(ages)
<1>1. PICK longer : longer = Append(ages, age)
  OBVIOUS
<1>2. /\ n \in Nat /\ Len(longer) = n + 1 /\ longer[n + 1] = age
      /\ \A i \in 1 .. n : longer[i] = ages[i]
  BY <1>1
<1>3. PICK f : Keeps(ages, n, f) /\ Recent(ages) = f[n]
  BY <1>2, RecentByPlace
<1>4. PICK g : Keeps(longer, n + 1, g) /\ Recent(longer) = g[n + 1]
  <2>1. Len(longer) \in Nat
    BY <1>2
  <2> QED
    BY <1>2, <2>1, RecentByPlace
<1>5. g[n + 1] = IF IsRecent(age) THEN Append(g[n], age) ELSE g[n]
  <2>1. n + 1 \in 0 .. n + 1 /\ n + 1 # 0 /\ (n + 1) - 1 = n
    BY <1>2
  <2>2. g[n + 1] = IF IsRecent(longer[n + 1])
                     THEN Append(g[(n + 1) - 1], longer[n + 1]) ELSE g[(n + 1) - 1]
    BY <1>4, <2>1 DEF Keeps
  <2> QED
    BY <1>2, <2>1, <2>2
<1>6. f[n] = g[n]
  <2>1. n + 1 \in Nat /\ n <= n /\ n <= n + 1 /\ \A i \in 1 .. n : ages[i] = longer[i]
    BY <1>2
  <2> QED
    BY <1>2, <1>3, <1>4, <2>1, FilterAgrees
<1> QED
  BY <1>1, <1>3, <1>4, <1>5, <1>6

\* Induction over sequences, for the sets that can be written here.
LEMMA EverySequence ==
  ASSUME NEW S, NEW G, <<>> \in G,
         \A s \in Seq(S), e \in S : s \in G => Append(s, e) \in G
  PROVE  Seq(S) \subseteq G
<1>1. ASSUME NEW s \in Seq(S) PROVE s \in G
  <2> DEFINE Prefix(n) == [i \in 1 .. n |-> s[i]]
  <2> DEFINE Bad == {n \in 0 .. Len(s) : Prefix(n) \notin G}
  <2>1. Prefix(Len(s)) = s /\ Len(s) \in 0 .. Len(s)
    OBVIOUS
  <2>2. SUFFICES ASSUME Bad # {} PROVE FALSE
    <3>1. Prefix(Len(s)) \in G
      BY <2>1
    <3> QED
      BY <2>1, <3>1
  <2>3. PICK n \in Bad : \A k \in Bad : n <= k
    <3>1. Bad \subseteq Nat
      OBVIOUS
    <3> QED
      BY <2>2, <3>1, LeastNat
  <2>4. n # 0
    <3>1. Prefix(0) = <<>>
      OBVIOUS
    <3> QED
      BY <3>1
  <2>5. n \in 1 .. Len(s) /\ n - 1 \in 0 .. Len(s) /\ ~(n <= n - 1)
    BY <2>4
  <2>6. Prefix(n - 1) \in G
    BY <2>3, <2>5
  <2>7. Prefix(n - 1) \in Seq(S) /\ s[n] \in S
    BY <2>5
  <2>8. Prefix(n) = Append(Prefix(n - 1), s[n])
    BY <2>5, <2>7
  <2> HIDE DEF Prefix
  <2>9. Append(Prefix(n - 1), s[n]) \in G
    BY <2>6, <2>7
  <2> QED
    BY <2>3, <2>8, <2>9
<1> QED
  BY <1>1

Ages == 0 .. Window

LEMMA WindowIsSome == Window \in Nat /\ Window > 0 /\ 0 \in Ages /\ IsRecent(0)
BY WindowAssumption DEF Ages, IsRecent

LEMMA RecentType ==
  ASSUME NEW ages \in Seq(Ages)
  PROVE  Recent(ages) \in Seq(0 .. Window - 1) /\ Len(Recent(ages)) <= Len(ages)
<1> DEFINE G == {s \in Seq(Ages) : Recent(s) \in Seq(0 .. Window - 1) /\ Len(Recent(s)) <= Len(s)}
<1>1. <<>> \in G
  <2>1. <<>> \in Seq(0 .. Window - 1) /\ <<>> \in Seq(Ages) /\ Len(<<>>) = 0
    OBVIOUS
  <2>2. Recent(<<>>) \in Seq(0 .. Window - 1) /\ Len(Recent(<<>>)) = 0
    BY <2>1, RecentNone
  <2> QED
    BY <2>1, <2>2
<1>2. ASSUME NEW s \in Seq(Ages), NEW e \in Ages, s \in G PROVE Append(s, e) \in G
  <2>1. PICK r : r = Recent(s)
    OBVIOUS
  <2>2. r \in Seq(0 .. Window - 1) /\ Len(r) <= Len(s)
    BY <1>2, <2>1
  <2>3. IsRecent(e) => e \in 0 .. Window - 1
    BY WindowIsSome DEF IsRecent, Ages
  <2>4. Recent(Append(s, e)) = IF IsRecent(e) THEN Append(r, e) ELSE r
    BY <2>1, RecentAppend
  <2>5. PICK longer : longer = Append(s, e)
    OBVIOUS
  <2>6. longer \in Seq(Ages) /\ Len(longer) = Len(s) + 1
    BY <2>5
  <2>7. Recent(longer) \in Seq(0 .. Window - 1) /\ Len(Recent(longer)) <= Len(s) + 1
    <3>1. CASE IsRecent(e)
      <4>1. PICK more : more = Append(r, e)
        OBVIOUS
      <4>2. more \in Seq(0 .. Window - 1) /\ Len(more) = Len(r) + 1
        BY <2>2, <2>3, <3>1, <4>1
      <4>3. Recent(longer) = more
        BY <2>4, <2>5, <3>1, <4>1
      <4> QED
        BY <2>2, <4>2, <4>3
    <3>2. CASE ~IsRecent(e)
      <4>1. Recent(longer) = r
        BY <2>4, <2>5, <3>2
      <4> QED
        BY <2>2, <4>1
    <3> QED
      BY <3>1, <3>2
  <2>8. longer \in G
    BY <2>6, <2>7
  <2> QED
    BY <2>5, <2>8
<1>3. Seq(Ages) \subseteq G
  <2> HIDE DEF G
  <2> QED
    BY <1>1, <1>2, EverySequence
<1> QED
  BY <1>3

\* What is recent stays when the rest is dropped.
LEMMA RecentKept ==
  ASSUME NEW ages \in Seq(0 .. Window - 1)
  PROVE  Recent(ages) = ages
<1> DEFINE G == {s \in Seq(0 .. Window - 1) : Recent(s) = s}
<1>1. <<>> \in G
  BY RecentNone
<1>2. ASSUME NEW s \in Seq(0 .. Window - 1), NEW e \in 0 .. Window - 1, s \in G
      PROVE  Append(s, e) \in G
  <2>1. IsRecent(e)
    BY WindowIsSome DEF IsRecent
  <2>2. Recent(Append(s, e)) = Append(s, e)
    BY <1>2, <2>1, RecentAppend
  <2> QED
    BY <2>2
<1>3. Seq(0 .. Window - 1) \subseteq G
  <2> HIDE DEF G
  <2> QED
    BY <1>1, <1>2, EverySequence
<1> QED
  BY <1>3

LEMMA OlderType ==
  ASSUME NEW age \in Ages
  PROVE  /\ Older(age) \in Ages
         /\ ~IsRecent(age) => ~IsRecent(Older(age))
         /\ IsRecent(age) => Older(age) = age + 1
BY WindowIsSome DEF Older, Ages, IsRecent

LEMMA LaterType ==
  ASSUME NEW ages \in Seq(Ages)
  PROVE  LaterAges(ages) \in Seq(Ages) /\ Len(LaterAges(ages)) = Len(ages)
BY OlderType DEF LaterAges

\* Every age of a sequence one higher.
Shifted(ages) == [i \in DOMAIN ages |-> ages[i] + 1]

LEMMA ShiftedType ==
  ASSUME NEW ages \in Seq(0 .. Window - 1)
  PROVE  Shifted(ages) \in Seq(Ages)
BY WindowIsSome DEF Shifted, Ages

LEMMA AppendIs ==
  ASSUME NEW S, NEW s \in Seq(S), NEW e \in S, NEW t \in Seq(S), Len(t) = Len(s) + 1,
         \A i \in 1 .. Len(s) : t[i] = s[i], t[Len(s) + 1] = e
  PROVE  t = Append(s, e)
<1>1. PICK a : a = Append(s, e)
  OBVIOUS
<1>2. /\ a \in Seq(S) /\ Len(a) = Len(s) + 1 /\ a[Len(s) + 1] = e
      /\ \A i \in 1 .. Len(s) : a[i] = s[i]
  BY <1>1
<1>3. \A i \in 1 .. Len(t) : t[i] = a[i]
  BY <1>2
<1>4. t = a
  BY <1>2, <1>3
<1> QED
  BY <1>1, <1>4

LEMMA ShiftedAppend ==
  ASSUME NEW ages \in Seq(0 .. Window - 1), NEW age \in 0 .. Window - 1
  PROVE  Shifted(Append(ages, age)) = Append(Shifted(ages), age + 1)
<1>1. PICK longer, shifted, t :
        longer = Append(ages, age) /\ shifted = Shifted(ages) /\ t = Shifted(longer)
  OBVIOUS
<1>2. /\ DOMAIN longer = 1 .. Len(ages) + 1 /\ longer[Len(ages) + 1] = age
      /\ \A i \in 1 .. Len(ages) : longer[i] = ages[i]
  BY <1>1
<1>3. shifted \in Seq(Ages) /\ age + 1 \in Ages
  BY <1>1, ShiftedType, WindowIsSome DEF Ages
<1>4. Len(shifted) = Len(ages) /\ \A i \in 1 .. Len(ages) : shifted[i] = ages[i] + 1
  <2>1. DOMAIN shifted = 1 .. Len(ages)
    BY <1>1 DEF Shifted
  <2>2. Len(shifted) = Len(ages)
    BY <1>3, <2>1
  <2> QED
    BY <1>1, <2>2 DEF Shifted
<1>5. t = [i \in 1 .. Len(ages) + 1 |-> longer[i] + 1]
  BY <1>1, <1>2 DEF Shifted
<1>6. t \in Seq(Ages) /\ Len(t) = Len(shifted) + 1
  <2>1. longer \in Seq(0 .. Window - 1) /\ Len(longer) = Len(ages) + 1
    BY <1>1
  <2>2. t \in Seq(Ages)
    BY <1>1, <2>1, ShiftedType
  <2> QED
    BY <1>4, <1>5, <2>1, <2>2
<1>7. t[Len(shifted) + 1] = age + 1 /\ \A i \in 1 .. Len(shifted) : t[i] = shifted[i]
  BY <1>2, <1>4, <1>5
<1>8. t = Append(shifted, age + 1)
  BY <1>3, <1>6, <1>7, AppendIs
<1> QED
  BY <1>1, <1>8

LEMMA LaterAppend ==
  ASSUME NEW ages \in Seq(Ages), NEW age \in Ages
  PROVE  LaterAges(Append(ages, age)) = Append(LaterAges(ages), Older(age))
<1>1. PICK longer, later, t :
        longer = Append(ages, age) /\ later = LaterAges(ages) /\ t = LaterAges(longer)
  OBVIOUS
<1>2. /\ DOMAIN longer = 1 .. Len(ages) + 1 /\ longer[Len(ages) + 1] = age
      /\ \A i \in 1 .. Len(ages) : longer[i] = ages[i]
  BY <1>1
<1>3. later \in Seq(Ages) /\ Len(later) = Len(ages) /\ Older(age) \in Ages
  BY <1>1, LaterType, OlderType
<1>4. \A i \in 1 .. Len(ages) : later[i] = Older(ages[i])
  BY <1>1 DEF LaterAges
<1>5. t = [i \in 1 .. Len(ages) + 1 |-> Older(longer[i])]
  BY <1>1, <1>2 DEF LaterAges
<1>6. t \in Seq(Ages) /\ Len(t) = Len(later) + 1
  <2>1. longer \in Seq(Ages) /\ Len(longer) = Len(ages) + 1
    BY <1>1
  <2> QED
    BY <1>1, <1>3, <2>1, LaterType
<1>7. t[Len(later) + 1] = Older(age) /\ \A i \in 1 .. Len(later) : t[i] = later[i]
  BY <1>2, <1>3, <1>4, <1>5
<1>8. t = Append(later, Older(age))
  BY <1>3, <1>6, <1>7, AppendIs
<1> QED
  BY <1>1, <1>8

\* Dropping what is outside the window before the clock moves drops nothing that is inside
\* after it.
LEMMA RecentLater ==
  ASSUME NEW ages \in Seq(Ages)
  PROVE  Recent(LaterAges(ages)) = Recent(Shifted(Recent(ages)))
<1> DEFINE G == {s \in Seq(Ages) : Recent(LaterAges(s)) = Recent(Shifted(Recent(s)))}
<1>1. <<>> \in G
  <2>1. LaterAges(<<>>) = <<>> /\ Shifted(<<>>) = <<>>
    BY DEF LaterAges, Shifted
  <2> QED
    BY <2>1, RecentNone
<1>2. ASSUME NEW s \in Seq(Ages), NEW e \in Ages, s \in G PROVE Append(s, e) \in G
  <2>1. PICK r, later : r = Recent(s) /\ later = LaterAges(s)
    OBVIOUS
  <2>2. r \in Seq(0 .. Window - 1) /\ later \in Seq(Ages) /\ Shifted(r) \in Seq(Ages)
    BY <2>1, RecentType, LaterType, ShiftedType
  <2>3. Recent(later) = Recent(Shifted(r))
    BY <1>2, <2>1
  <2>4. /\ LaterAges(Append(s, e)) = Append(later, Older(e))
        /\ Older(e) \in Ages
        /\ Recent(Append(s, e)) = IF IsRecent(e) THEN Append(r, e) ELSE r
    BY <2>1, LaterAppend, OlderType, RecentAppend
  <2>5. Recent(Append(later, Older(e))) =
          IF IsRecent(Older(e)) THEN Append(Recent(later), Older(e)) ELSE Recent(later)
    BY <2>2, <2>4, RecentAppend
  <2>6. CASE ~IsRecent(e)
    <3>1. ~IsRecent(Older(e))
      BY <2>6, OlderType
    <3>2. Recent(LaterAges(Append(s, e))) = Recent(later)
      BY <2>4, <2>5, <3>1
    <3>3. Recent(Append(s, e)) = r
      BY <2>4, <2>6
    <3>4. Append(s, e) \in Seq(Ages)
      OBVIOUS
    <3> QED
      BY <2>3, <3>2, <3>3, <3>4
  <2>7. CASE IsRecent(e)
    <3>1. e \in 0 .. Window - 1 /\ Older(e) = e + 1 /\ e + 1 \in Ages
      BY <2>4, <2>7, OlderType, WindowIsSome DEF IsRecent, Ages
    <3>2. Shifted(Append(r, e)) = Append(Shifted(r), e + 1)
      BY <2>2, <3>1, ShiftedAppend
    <3>3. Recent(Append(Shifted(r), e + 1)) =
            IF IsRecent(e + 1) THEN Append(Recent(Shifted(r)), e + 1) ELSE Recent(Shifted(r))
      BY <2>2, <3>1, RecentAppend
    <3>4. Recent(LaterAges(Append(s, e))) = Recent(Append(later, e + 1))
      BY <2>4, <3>1
    <3>5. Recent(Shifted(Recent(Append(s, e)))) = Recent(Append(Shifted(r), e + 1))
      BY <2>4, <2>7, <3>2
    <3>6. Recent(LaterAges(Append(s, e))) = Recent(Shifted(Recent(Append(s, e))))
      BY <2>3, <2>5, <3>1, <3>3, <3>4, <3>5
    <3>7. Append(s, e) \in Seq(Ages)
      OBVIOUS
    <3> QED
      BY <3>6, <3>7
  <2> QED
    BY <2>6, <2>7
<1>3. Seq(Ages) \subseteq G
  <2> HIDE DEF G
  <2> QED
    BY <1>1, <1>2, EverySequence
<1> QED
  BY <1>3

----------------------------------------------------------------------------
(* The map of one limiter *)

MapOK(map, limit) ==
  /\ map = [key \in DOMAIN map |-> map[key]]
  /\ IsFiniteSet(DOMAIN map) /\ Cardinality(DOMAIN map) <= MaxTracked
  /\ \A key \in DOMAIN map : map[key] \in Seq(Ages) /\ Len(map[key]) <= limit

RecentOf(map, key) == IF key \in DOMAIN map THEN Recent(map[key]) ELSE <<>>

LEMMA SpentOfKey ==
  ASSUME NEW map, NEW key
  PROVE  /\ DOMAIN SpentOf(map) = {k \in DOMAIN map : Recent(map[k]) # <<>>}
         /\ key \in DOMAIN SpentOf(map) => SpentOf(map)[key] = RecentOf(map, key)
         /\ key \in DOMAIN SpentOf(map) <=> RecentOf(map, key) # <<>>
BY DEF SpentOf, RecentOf

\* Maps that have the same recent attempts have the same grants.
LEMMA SameSpent ==
  ASSUME NEW m, NEW n, \A key \in DOMAIN m \cup DOMAIN n : RecentOf(m, key) = RecentOf(n, key)
  PROVE  SpentOf(m) = SpentOf(n)
<1>1. \A key : RecentOf(m, key) = RecentOf(n, key)
  BY DEF RecentOf
<1>2. DOMAIN SpentOf(m) = DOMAIN SpentOf(n)
  <2>1. ASSUME NEW key PROVE key \in DOMAIN SpentOf(m) <=> key \in DOMAIN SpentOf(n)
    <3>1. key \in DOMAIN SpentOf(m) <=> RecentOf(m, key) # <<>>
      BY SpentOfKey
    <3>2. key \in DOMAIN SpentOf(n) <=> RecentOf(n, key) # <<>>
      BY SpentOfKey
    <3> QED
      BY <1>1, <3>1, <3>2
  <2> QED
    BY <2>1
<1>3. \A key \in DOMAIN SpentOf(m) : SpentOf(m)[key] = SpentOf(n)[key]
  BY <1>1, <1>2, SpentOfKey
<1>4. /\ SpentOf(m) = [key \in DOMAIN SpentOf(m) |-> SpentOf(m)[key]]
      /\ SpentOf(n) = [key \in DOMAIN SpentOf(n) |-> SpentOf(n)[key]]
  BY DEF SpentOf
<1> QED
  BY <1>2, <1>3, <1>4

LEMMA SpentFinite ==
  ASSUME NEW map, IsFiniteSet(DOMAIN map)
  PROVE  /\ IsFiniteSet(DOMAIN SpentOf(map)) /\ DOMAIN SpentOf(map) \subseteq DOMAIN map
         /\ Cardinality(DOMAIN SpentOf(map)) \in Nat /\ Cardinality(DOMAIN map) \in Nat
         /\ Cardinality(DOMAIN SpentOf(map)) <= Cardinality(DOMAIN map)
<1>1. DOMAIN SpentOf(map) \subseteq DOMAIN map
  BY SpentOfKey
<1> QED
  BY <1>1, FS_Subset, FS_CardinalityType

LEMMA SweepKeeps ==
  ASSUME NEW map
  PROVE  SpentOf(SweepStale(map)) = SpentOf(map) /\ DOMAIN SweepStale(map) = DOMAIN SpentOf(map)
<1>1. /\ DOMAIN SweepStale(map) = DOMAIN SpentOf(map)
      /\ \A key \in DOMAIN SweepStale(map) : SweepStale(map)[key] = map[key]
  BY SpentOfKey DEF SweepStale
<1>2. \A key \in DOMAIN SweepStale(map) \cup DOMAIN map :
        RecentOf(SweepStale(map), key) = RecentOf(map, key)
  BY <1>1, SpentOfKey DEF RecentOf
<1> QED
  BY <1>1, <1>2, SameSpent

LEMMA RoomMade ==
  ASSUME NEW limit \in Nat, NEW map, MapOK(map, limit)
  PROVE  /\ MapOK(MakeRoom(map), limit) /\ DOMAIN MakeRoom(map) \subseteq DOMAIN map
         /\ SpentOf(MakeRoom(map)) = SpentOf(map)
         /\ Cardinality(DOMAIN MakeRoom(map)) < MaxTracked
              <=> Cardinality(DOMAIN SpentOf(map)) < MaxTracked
<1>1. /\ IsFiniteSet(DOMAIN SpentOf(map)) /\ DOMAIN SpentOf(map) \subseteq DOMAIN map
      /\ Cardinality(DOMAIN SpentOf(map)) \in Nat /\ Cardinality(DOMAIN map) \in Nat
      /\ Cardinality(DOMAIN SpentOf(map)) <= Cardinality(DOMAIN map)
  BY SpentFinite DEF MapOK
<1>2. CASE Cardinality(DOMAIN map) < MaxTracked
  BY <1>1, <1>2, TrackedAssumption DEF MakeRoom
<1>3. CASE ~(Cardinality(DOMAIN map) < MaxTracked)
  <2>1. PICK swept : swept = SweepStale(map)
    OBVIOUS
  <2>2. /\ SpentOf(swept) = SpentOf(map) /\ DOMAIN swept = DOMAIN SpentOf(map)
        /\ MakeRoom(map) = swept
    BY <1>3, <2>1, SweepKeeps DEF MakeRoom
  <2>3. /\ swept = [key \in DOMAIN swept |-> swept[key]]
        /\ \A key \in DOMAIN swept : swept[key] = map[key]
    BY <2>1 DEF SweepStale
  <2>4. MapOK(swept, limit)
    BY <1>1, <2>2, <2>3, TrackedAssumption DEF MapOK
  <2> QED
    BY <1>1, <2>2, <2>4
<1> QED
  BY <1>2, <1>3

LEMMA PutOK ==
  ASSUME NEW limit \in Nat, NEW map, MapOK(map, limit), NEW key, NEW ages \in Seq(Ages),
         Len(ages) <= limit, key \in DOMAIN map \/ Cardinality(DOMAIN map) < MaxTracked
  PROVE  MapOK(Put(map, key, ages), limit)
<1>1. PICK d : d = DOMAIN map \cup {key}
  OBVIOUS
<1>2. IsFiniteSet(DOMAIN map) /\ Cardinality(DOMAIN map) \in Nat
  BY FS_CardinalityType DEF MapOK
<1>3. IsFiniteSet(d) /\ Cardinality(d) <= MaxTracked
  <2>1. CASE key \in DOMAIN map
    <3>1. d = DOMAIN map
      BY <1>1, <2>1
    <3> QED
      BY <3>1 DEF MapOK
  <2>2. CASE key \notin DOMAIN map
    <3>1. IsFiniteSet(d) /\ Cardinality(d) = Cardinality(DOMAIN map) + 1
      BY <1>1, <1>2, <2>2, FS_AddElement
    <3> QED
      BY <1>2, <2>2, <3>1, TrackedAssumption
  <2> QED
    BY <2>1, <2>2
<1>4. PICK put : put = Put(map, key, ages)
  OBVIOUS
<1>5. /\ put = [k \in DOMAIN put |-> put[k]] /\ DOMAIN put = d
      /\ \A k \in d : put[k] = IF k = key THEN ages ELSE map[k]
  BY <1>1, <1>4 DEF Put
<1>6. \A k \in DOMAIN put : put[k] \in Seq(Ages) /\ Len(put[k]) <= limit
  BY <1>1, <1>5 DEF MapOK
<1> QED
  BY <1>3, <1>4, <1>5, <1>6 DEF MapOK

LEMMA RecentPut ==
  ASSUME NEW map, NEW key, NEW ages, NEW k
  PROVE  RecentOf(Put(map, key, ages), k) = IF k = key THEN Recent(ages) ELSE RecentOf(map, k)
BY DEF Put, RecentOf

\* What is granted is remembered, and nothing else changes.
LEMMA SpentGranted ==
  ASSUME NEW map, NEW key, NEW ages, Recent(ages) = ages, ages # <<>>
  PROVE  SpentOf(Put(map, key, ages)) = Put(SpentOf(map), key, ages)
<1>1. PICK put, spent, d :
        put = Put(map, key, ages) /\ spent = SpentOf(put) /\ d = DOMAIN SpentOf(map) \cup {key}
  OBVIOUS
<1>2. \A k : RecentOf(put, k) = IF k = key THEN ages ELSE RecentOf(map, k)
  BY <1>1, RecentPut
<1>3. DOMAIN spent = d
  <2>1. ASSUME NEW k PROVE k \in DOMAIN spent <=> k \in d
    <3>1. k \in DOMAIN spent <=> RecentOf(put, k) # <<>>
      BY <1>1, SpentOfKey
    <3>2. k \in DOMAIN SpentOf(map) <=> RecentOf(map, k) # <<>>
      BY SpentOfKey
    <3> QED
      BY <1>1, <1>2, <3>1, <3>2
  <2> QED
    BY <2>1
<1>4. ASSUME NEW k \in d
      PROVE  spent[k] = IF k = key THEN ages ELSE SpentOf(map)[k]
  <2>1. spent[k] = RecentOf(put, k)
    BY <1>1, <1>3, SpentOfKey
  <2>2. k # key => SpentOf(map)[k] = RecentOf(map, k)
    BY <1>1, SpentOfKey
  <2> QED
    BY <1>2, <2>1, <2>2
<1>5. spent = [k \in DOMAIN spent |-> spent[k]]
  BY <1>1 DEF SpentOf
<1> QED
  BY <1>1, <1>3, <1>4, <1>5 DEF Put

LEMMA SpentRefused ==
  ASSUME NEW map, NEW key, NEW ages, Recent(ages) = RecentOf(map, key)
  PROVE  SpentOf(Put(map, key, ages)) = SpentOf(map)
<1>1. \A k : RecentOf(Put(map, key, ages), k) = RecentOf(map, k)
  BY RecentPut
<1> QED
  BY <1>1, SameSpent

SpentBy(spent, key) == IF key \in DOMAIN spent THEN spent[key] ELSE <<>>

Allows(spent, key, limit) ==
  /\ Len(SpentBy(spent, key)) < limit
  /\ key \in DOMAIN spent \/ Cardinality(DOMAIN spent) < MaxTracked

\* tryConsume on a map that is in order: the map stays in order, the answer is the one of a
\* limiter that remembers every grant, and of what was granted nothing is lost.
LEMMA ConsumeDecides ==
  ASSUME NEW limit \in Nat, NEW map, MapOK(map, limit), NEW key,
         NEW spent, spent = SpentOf(map), NEW c, c = TryConsume(map, key, limit)
  PROVE  /\ MapOK(c.attempts, limit)
         /\ c.granted = Allows(spent, key, limit)
         /\ SpentOf(c.attempts) =
              IF c.granted THEN Put(spent, key, Append(SpentBy(spent, key), 0)) ELSE spent
<1>1. PICK roomy, recent :
        /\ roomy = IF key \in DOMAIN map THEN map ELSE MakeRoom(map)
        /\ recent = RecentOf(map, key)
  OBVIOUS
<1>2. /\ MapOK(roomy, limit) /\ SpentOf(roomy) = spent /\ RecentOf(roomy, key) = recent
      /\ key \in DOMAIN map <=> key \in DOMAIN roomy
  BY <1>1, RoomMade DEF RecentOf
<1>3. /\ recent \in Seq(0 .. Window - 1) /\ Recent(recent) = recent /\ Len(recent) <= limit
      /\ recent \in Seq(Ages)
  <2>1. CASE key \in DOMAIN map
    <3>1. PICK ages : ages = map[key]
      OBVIOUS
    <3>2. ages \in Seq(Ages) /\ Len(ages) <= limit /\ recent = Recent(ages)
      BY <1>1, <2>1, <3>1 DEF MapOK, RecentOf
    <3>3. recent \in Seq(0 .. Window - 1) /\ Len(recent) <= Len(ages)
      BY <3>2, RecentType
    <3> QED
      BY <3>2, <3>3, RecentKept, WindowIsSome DEF Ages
  <2>2. CASE key \notin DOMAIN map
    BY <1>1, <2>2, RecentNone DEF RecentOf
  <2> QED
    BY <2>1, <2>2
<1>4. SpentBy(spent, key) = recent /\ (key \in DOMAIN spent <=> recent # <<>>)
  BY <1>1, SpentOfKey DEF SpentBy
<1>5. c = IF key \notin DOMAIN map /\ Cardinality(DOMAIN roomy) >= MaxTracked
            THEN Refused(roomy)
            ELSE IF Len(recent) >= limit
                   THEN Refused(Put(roomy, key, recent))
                   ELSE Granted(Put(roomy, key, Append(recent, 0)))
  BY <1>1 DEF TryConsume, RecentOf
<1>6. Cardinality(DOMAIN roomy) \in Nat /\ Cardinality(DOMAIN spent) \in Nat
  BY <1>2, SpentFinite DEF MapOK
<1>7. CASE key \notin DOMAIN map /\ Cardinality(DOMAIN roomy) >= MaxTracked
  <2>1. recent = <<>> /\ key \notin DOMAIN spent
    BY <1>1, <1>4, <1>7 DEF RecentOf
  <2>2. ~(Cardinality(DOMAIN spent) < MaxTracked)
    BY <1>1, <1>6, <1>7, RoomMade, TrackedAssumption
  <2>3. c.granted = FALSE /\ c.attempts = roomy
    BY <1>5, <1>7 DEF Refused
  <2>4. Allows(spent, key, limit) = FALSE
    BY <2>1, <2>2 DEF Allows
  <2> QED
    BY <1>2, <2>3, <2>4
<1>8. CASE ~(key \notin DOMAIN map /\ Cardinality(DOMAIN roomy) >= MaxTracked)
  <2>1. key \in DOMAIN roomy \/ Cardinality(DOMAIN roomy) < MaxTracked
    BY <1>2, <1>6, <1>8, TrackedAssumption
  <2>2. key \in DOMAIN spent \/ Cardinality(DOMAIN spent) < MaxTracked
    <3>1. CASE key \notin DOMAIN map
      BY <1>1, <1>2, <2>1, <3>1, RoomMade
    <3>2. CASE key \in DOMAIN map /\ key \notin DOMAIN spent
      <4>1. PICK all, some : all = DOMAIN map /\ some = DOMAIN spent
        OBVIOUS
      <4>2. IsFiniteSet(all) /\ Cardinality(all) <= MaxTracked /\ some \subseteq all
            /\ key \in all /\ key \notin some
        BY <3>2, <4>1, SpentOfKey DEF MapOK
      <4>3. /\ Cardinality(some) <= Cardinality(all)
            /\ Cardinality(some) = Cardinality(all) => some = all
            /\ Cardinality(some) \in Nat /\ Cardinality(all) \in Nat
        BY <4>2, FS_Subset, FS_CardinalityType
      <4> QED
        BY <4>1, <4>2, <4>3, TrackedAssumption
    <3> QED
      BY <3>1, <3>2
  <2>3. CASE Len(recent) >= limit
    <3>1. c.granted = FALSE /\ c.attempts = Put(roomy, key, recent)
      BY <1>5, <1>8, <2>3 DEF Refused
    <3>2. Allows(spent, key, limit) = FALSE
      BY <1>3, <1>4, <2>3 DEF Allows
    <3>3. MapOK(c.attempts, limit)
      BY <1>2, <1>3, <2>1, <3>1, PutOK
    <3>4. SpentOf(c.attempts) = spent
      BY <1>2, <1>3, <3>1, SpentRefused
    <3> QED
      BY <3>1, <3>2, <3>3, <3>4
  <2>4. CASE ~(Len(recent) >= limit)
    <3>1. PICK more : more = Append(recent, 0)
      OBVIOUS
    <3>2. c.granted = TRUE /\ c.attempts = Put(roomy, key, more)
      BY <1>5, <1>8, <2>4, <3>1 DEF Granted
    <3>3. more \in Seq(0 .. Window - 1) /\ Len(more) = Len(recent) + 1 /\ more # <<>>
      BY <1>3, <3>1, WindowIsSome
    <3>4. more \in Seq(Ages) /\ Len(more) <= limit /\ Recent(more) = more
      BY <1>3, <2>4, <3>3, RecentKept, WindowIsSome DEF Ages
    <3>5. MapOK(c.attempts, limit)
      BY <1>2, <2>1, <3>2, <3>4, PutOK
    <3>6. SpentOf(c.attempts) = Put(spent, key, more)
      BY <1>2, <3>2, <3>3, <3>4, SpentGranted
    <3>7. Allows(spent, key, limit) = TRUE
      BY <1>3, <1>4, <2>2, <2>4 DEF Allows
    <3> QED
      BY <1>4, <3>1, <3>2, <3>5, <3>6, <3>7
  <2> QED
    BY <2>3, <2>4
<1> QED
  BY <1>7, <1>8

LEMMA RecentOfLater ==
  ASSUME NEW ages \in Seq(Ages), NEW recent, recent = Recent(ages)
  PROVE  Recent(LaterAges(ages)) = Recent(Shifted(recent))
BY RecentLater

\* The grants that are inside the window a step later.
StillSpent(spent) ==
  [key \in {k \in DOMAIN spent : Recent(Shifted(spent[k])) # <<>>} |->
     Recent(Shifted(spent[key]))]

\* The clock keeps a map in order, and its grants are those that are inside a step later.
LEMMA LaterKeeps ==
  ASSUME NEW limit \in Nat, NEW map, MapOK(map, limit), NEW spent, spent = SpentOf(map)
  PROVE  /\ MapOK(Later(map), limit)
         /\ SpentOf(Later(map)) = StillSpent(spent)
<1>1. PICK later, gone, d :
        /\ later = Later(map) /\ gone = SpentOf(later)
        /\ d = {k \in DOMAIN spent : Recent(Shifted(spent[k])) # <<>>}
  OBVIOUS
<1>2. /\ later = [key \in DOMAIN later |-> later[key]] /\ DOMAIN later = DOMAIN map
      /\ \A key \in DOMAIN map : later[key] = LaterAges(map[key])
  BY <1>1 DEF Later
<1>3. MapOK(later, limit)
  <2>1. ASSUME NEW key \in DOMAIN later
        PROVE  later[key] \in Seq(Ages) /\ Len(later[key]) <= limit
    <3>1. PICK ages : ages = map[key]
      OBVIOUS
    <3>2. ages \in Seq(Ages) /\ Len(ages) <= limit /\ later[key] = LaterAges(ages)
      BY <1>2, <2>1, <3>1 DEF MapOK
    <3> QED
      BY <3>2, LaterType
  <2> QED
    BY <1>2, <2>1 DEF MapOK
<1>4. ASSUME NEW key
      PROVE  /\ key \in DOMAIN spent => RecentOf(later, key) = Recent(Shifted(spent[key]))
             /\ key \notin DOMAIN spent => RecentOf(later, key) = <<>>
  <2>1. CASE key \notin DOMAIN map
    BY <1>2, <2>1, SpentOfKey DEF RecentOf
  <2>2. CASE key \in DOMAIN map
    <3>1. PICK ages, recent : ages = map[key] /\ recent = Recent(ages)
      OBVIOUS
    <3>2. ages \in Seq(Ages)
      BY <2>2, <3>1 DEF MapOK
    <3>3. RecentOf(later, key) = Recent(Shifted(recent))
      BY <1>2, <2>2, <3>1, <3>2, RecentOfLater DEF RecentOf
    <3>4. CASE key \in DOMAIN spent
      <4>1. spent[key] = recent
        BY <2>2, <3>1, <3>4, SpentOfKey DEF RecentOf
      <4> QED
        BY <3>3, <3>4, <4>1
    <3>5. CASE key \notin DOMAIN spent
      <4>1. recent = <<>>
        BY <2>2, <3>1, <3>5, SpentOfKey DEF RecentOf
      <4>2. Shifted(<<>>) = <<>>
        BY DEF Shifted
      <4> QED
        BY <3>3, <3>5, <4>1, <4>2, RecentNone
    <3> QED
      BY <3>4, <3>5
  <2> QED
    BY <2>1, <2>2
<1>5. DOMAIN gone = d
  <2>1. ASSUME NEW k PROVE k \in DOMAIN gone <=> k \in d
    <3>1. k \in DOMAIN gone <=> RecentOf(later, k) # <<>>
      BY <1>1, SpentOfKey
    <3> QED
      BY <1>1, <1>4, <3>1
  <2> QED
    BY <2>1
<1>6. ASSUME NEW k \in d PROVE gone[k] = Recent(Shifted(spent[k]))
  <2>1. gone[k] = RecentOf(later, k)
    BY <1>1, <1>5, SpentOfKey
  <2> QED
    BY <1>1, <1>4, <2>1
<1>7. gone = [k \in DOMAIN gone |-> gone[k]]
  BY <1>1 DEF SpentOf
<1>8. gone = StillSpent(spent)
  BY <1>1, <1>5, <1>6, <1>7 DEF StillSpent
<1> QED
  BY <1>1, <1>3, <1>8

LEMMA NothingSpent ==
  /\ \A limit \in Nat : MapOK(NoAttempts, limit)
  /\ SpentOf(NoAttempts) = NoAttempts
<1>1. DOMAIN NoAttempts = {} /\ NoAttempts = [key \in DOMAIN NoAttempts |-> NoAttempts[key]]
  BY DEF NoAttempts
<1>2. \A limit \in Nat : MapOK(NoAttempts, limit)
  BY <1>1, FS_EmptySet, TrackedAssumption DEF MapOK
<1>3. SpentOf(NoAttempts) = NoAttempts
  BY DEF SpentOf, NoAttempts
<1> QED
  BY <1>2, <1>3

----------------------------------------------------------------------------
(* The limiters of the process *)

BrakesOK ==
  /\ DOMAIN attempts = Limiters /\ DOMAIN verdicts = Limiters /\ calls \in Nat
  /\ \A l \in Limiters :
       MapOK(attempts[l], Limit[l]) /\ verdicts[l].call \in Nat /\ verdicts[l].call <= calls

\* What a step of the process is to one limiter.
BrakeStep(l) ==
  \/ attempts'[l] = attempts[l] /\ verdicts'[l] = verdicts[l] /\ calls' \in {calls, calls + 1}
  \/ \E key :
       /\ attempts'[l] = Consume(l, key).attempts /\ verdicts'[l] = Verdict(l, key)
       /\ calls' = calls + 1
  \/ attempts'[l] = Later(attempts[l]) /\ verdicts'[l] = NoVerdict /\ calls' = calls
  \/ attempts'[l] = NoAttempts /\ verdicts'[l] = NoVerdict /\ calls' = calls

LEMMA GuardStep ==
  ASSUME BrakesOK, NEW route \in Routes, NEW audience, NEW address, NEW number,
         Guard(route, audience, address, number)
  PROVE  /\ DOMAIN attempts' = Limiters /\ DOMAIN verdicts' = Limiters
         /\ \A l \in Limiters : BrakeStep(l)
<1>1. DOMAIN attempts = Limiters /\ DOMAIN verdicts = Limiters
  BY DEF BrakesOK
<1>2. PICK g, key : g = OfRoute(route) /\ key = Requester(address, number)
  OBVIOUS
<1>3. g \in Limiters /\ calls' = calls + 1
  BY <1>2 DEF Limiters, Guard, Arrive
<1>4. CASE UNCHANGED <<attempts, verdicts>>
  BY <1>1, <1>3, <1>4 DEF BrakeStep
<1>5. CASE /\ attempts' = [attempts EXCEPT ![g] = Consume(g, key).attempts]
           /\ verdicts' = [verdicts EXCEPT ![g] = Verdict(g, key)]
  BY <1>1, <1>3, <1>5 DEF BrakeStep
<1> QED
  BY <1>2, <1>4, <1>5 DEF Guard

LEMMA SignInStep ==
  ASSUME BrakesOK, NEW audience \in Audiences, NEW address, SignIn(audience, address)
  PROVE  /\ DOMAIN attempts' = Limiters /\ DOMAIN verdicts' = Limiters
         /\ \A l \in Limiters : BrakeStep(l)
<1>1. DOMAIN attempts = Limiters /\ DOMAIN verdicts = Limiters
  BY DEF BrakesOK
<1>2. PICK all, one : all = GlobalSignIn(audience) /\ one = CallerSignIn(audience)
  OBVIOUS
<1>3. all \in Limiters /\ one \in Limiters /\ all # one /\ calls' = calls + 1
  BY <1>2 DEF Limiters, GlobalSignIn, CallerSignIn, SignIn, Arrive
<1>4. CASE /\ attempts' = [attempts EXCEPT ![all] = Consume(all, "all").attempts,
                                           ![one] = Consume(one, address).attempts]
           /\ verdicts' = [verdicts EXCEPT ![all] = Verdict(all, "all"),
                                           ![one] = Verdict(one, address)]
  BY <1>1, <1>3, <1>4 DEF BrakeStep
<1>5. CASE /\ attempts' = [attempts EXCEPT ![all] = Consume(all, "all").attempts]
           /\ verdicts' = [verdicts EXCEPT ![all] = Verdict(all, "all")]
  BY <1>1, <1>3, <1>5 DEF BrakeStep
<1> QED
  BY <1>2, <1>4, <1>5 DEF SignIn

LEMMA NextBrakes ==
  ASSUME BrakesOK, GatesNext
  PROVE  /\ DOMAIN attempts' = Limiters /\ DOMAIN verdicts' = Limiters
         /\ \A l \in Limiters : BrakeStep(l)
<1>1. CASE \E audience \in Audiences, address \in Addresses : SignIn(audience, address)
  BY <1>1, SignInStep
<1>2. CASE \E p \in pending : RefuseBody(p) \/ \E code \in Codes : OpenSession(p, code)
  BY <1>2 DEF RefuseBody, OpenSession, BrakesOK, BrakeStep
<1>3. CASE FamilyRequest
  BY <1>3, GuardStep DEF FamilyRequest
<1>4. CASE AdminRequest
  BY <1>4, GuardStep DEF AdminRequest
<1>5. CASE Tick
  BY <1>5 DEF Tick, BrakeStep
<1>6. CASE Restart
  BY <1>6 DEF Restart, BrakeStep
<1> QED
  BY <1>1, <1>2, <1>3, <1>4, <1>5, <1>6 DEF GatesNext

LEMMA BrakeKept ==
  ASSUME BrakesOK, NEW l \in Limiters, BrakeStep(l)
  PROVE  /\ MapOK(attempts'[l], Limit[l]) /\ verdicts'[l].call \in Nat
         /\ verdicts'[l].call <= calls' /\ calls' \in Nat
<1>1. PICK map, limit, spent : map = attempts[l] /\ limit = Limit[l] /\ spent = SpentOf(map)
  OBVIOUS
<1>2. /\ MapOK(map, limit) /\ verdicts[l].call \in Nat /\ verdicts[l].call <= calls
      /\ calls \in Nat /\ limit \in Nat
  BY <1>1, LimitAssumption DEF BrakesOK
<1>3. CASE attempts'[l] = attempts[l] /\ verdicts'[l] = verdicts[l]
           /\ calls' \in {calls, calls + 1}
  BY <1>1, <1>2, <1>3
<1>4. ASSUME NEW key, attempts'[l] = Consume(l, key).attempts, verdicts'[l] = Verdict(l, key),
             calls' = calls + 1
      PROVE  MapOK(attempts'[l], limit) /\ verdicts'[l].call = calls'
  <2>1. PICK c : c = TryConsume(map, key, limit)
    OBVIOUS
  <2>2. MapOK(c.attempts, limit)
    BY <1>2, <2>1, ConsumeDecides
  <2> QED
    BY <1>1, <1>4, <2>1, <2>2 DEF Consume, Verdict
<1>5. CASE attempts'[l] = Later(attempts[l]) /\ verdicts'[l] = NoVerdict /\ calls' = calls
  BY <1>1, <1>2, <1>5, LaterKeeps DEF NoVerdict
<1>6. CASE attempts'[l] = NoAttempts /\ verdicts'[l] = NoVerdict /\ calls' = calls
  BY <1>1, <1>2, <1>6, NothingSpent DEF NoVerdict
<1>7. CASE \E key :
             /\ attempts'[l] = Consume(l, key).attempts /\ verdicts'[l] = Verdict(l, key)
             /\ calls' = calls + 1
  <2>1. MapOK(attempts'[l], limit) /\ verdicts'[l].call = calls' /\ calls' = calls + 1
    BY <1>4, <1>7
  <2> QED
    BY <1>1, <1>2, <2>1
<1> QED
  BY <1>3, <1>5, <1>6, <1>7 DEF BrakeStep

LEMMA AgedIsRecent ==
  ASSUME NEW l, NEW ages
  PROVE  Promise(l)!Aged(ages) = Recent(Shifted(ages))
BY DEF Promise!Aged, Promise!Inside, Recent, Shifted, IsRecent

LEMMA SameCardinality ==
  ASSUME NEW l, NEW S
  PROVE  Promise(l)!Cardinality(S) = Cardinality(S)
BY DEF Promise!Cardinality, Cardinality

LEMMA BrakePromise ==
  ASSUME BrakesOK, NEW l \in Limiters, BrakeStep(l)
  PROVE  [Promise(l)!Next]_<<attempts[l], verdicts[l]>>
<1>1. PICK map, limit, spent : map = attempts[l] /\ limit = Limit[l] /\ spent = SpentOf(map)
  OBVIOUS
<1>2. MapOK(map, limit) /\ limit \in Nat /\ verdicts[l].call \in Nat /\ verdicts[l].call <= calls
      /\ calls \in Nat
  BY <1>1, LimitAssumption DEF BrakesOK
<1>3. CASE attempts'[l] = attempts[l] /\ verdicts'[l] = verdicts[l]
  BY <1>3
<1>4. ASSUME NEW key, attempts'[l] = Consume(l, key).attempts, verdicts'[l] = Verdict(l, key),
             calls' = calls + 1
      PROVE  Promise(l)!Ask
  <2>1. PICK c : c = TryConsume(map, key, limit)
    OBVIOUS
  <2>2. /\ c.granted = Allows(spent, key, limit)
        /\ SpentOf(c.attempts) =
             IF c.granted THEN Put(spent, key, Append(SpentBy(spent, key), 0)) ELSE spent
    BY <1>1, <1>2, <2>1, ConsumeDecides
  <2>3. /\ verdicts'[l].call = calls + 1 /\ verdicts'[l].key = key
        /\ verdicts'[l].granted = c.granted /\ attempts'[l] = c.attempts
    BY <1>1, <1>4, <2>1 DEF Consume, Verdict
  <2>4. SpentOf(attempts'[l]) =
          IF c.granted THEN Put(spent, key, Append(SpentBy(spent, key), 0)) ELSE spent
    BY <2>2, <2>3
  <2>5. verdicts'[l].call > verdicts[l].call
    BY <1>2, <2>3
  <2>6. verdicts'[l].granted = Promise(l)!Allowed(verdicts'[l].key)
    BY <1>1, <2>2, <2>3, SameCardinality DEF Promise!Allowed, Promise!Spent, Allows, SpentBy
  <2> QED
    BY <1>1, <2>3, <2>4, <2>5, <2>6 DEF Promise!Ask, Promise!Spent, Put, SpentBy
<1>5. CASE attempts'[l] = Later(attempts[l]) /\ verdicts'[l] = NoVerdict
  <2>1. SpentOf(attempts'[l]) = StillSpent(spent)
    BY <1>1, <1>2, <1>5, LaterKeeps
  <2>2. SpentOf(attempts'[l]) =
          [key \in {k \in DOMAIN spent : Promise(l)!Aged(spent[k]) # <<>>} |->
             Promise(l)!Aged(spent[key])]
    BY <2>1, AgedIsRecent DEF StillSpent
  <2>3. verdicts'[l].call = 0
    BY <1>5 DEF NoVerdict
  <2> QED
    BY <1>1, <2>2, <2>3 DEF Promise!Next, Promise!Tick, Promise!NothingAsked
<1>6. CASE attempts'[l] = NoAttempts /\ verdicts'[l] = NoVerdict
  <2>1. SpentOf(attempts'[l]) = NoAttempts /\ verdicts'[l].call = 0
    BY <1>6, NothingSpent DEF NoVerdict
  <2> QED
    BY <2>1 DEF Promise!Next, Promise!Forget, Promise!NothingAsked, NoAttempts
<1>7. CASE \E key :
             /\ attempts'[l] = Consume(l, key).attempts /\ verdicts'[l] = Verdict(l, key)
             /\ calls' = calls + 1
  BY <1>4, <1>7 DEF Promise!Next
<1> QED
  BY <1>3, <1>5, <1>6, <1>7 DEF BrakeStep

----------------------------------------------------------------------------
(* The sessions *)

RequestOK == [number : 1 .. MaxCalls, audience : Audiences]
SessionOK == [number : 1 .. MaxCalls, key : Codes \X Secrets, left : 0 .. Ttl]
OpenedOK == [number : 1 .. MaxCalls, entered : Codes, secret : Secrets, age : 0 .. Ttl]

DoorsOK ==
  /\ config \in Configurations
  /\ pending \subseteq RequestOK /\ sessions \subseteq SessionOK /\ opened \subseteq OpenedOK
  /\ calls \in 0 .. MaxCalls /\ restarts \in 0 .. MaxRestarts
  /\ answer.status \in Statuses /\ answer.audience \in Audiences

Matches(s, o) ==
  o.number = s.number /\ s.key = <<o.entered, o.secret>> /\ o.age = Ttl - s.left

SessionsOK == \A s \in sessions : \E o \in opened : Matches(s, o)

GatesIInv == DoorsOK /\ BrakesOK /\ SessionsOK

LEMMA NumbersAreNat == Ttl \in Nat /\ Ttl > 0 /\ MaxCalls \in Nat /\ MaxRestarts \in Nat
BY NumbersAssumption

LEMMA ConfigType ==
  ASSUME DoorsOK
  PROVE  config.family \in Codes \cup {Blank} /\ config.admin \in Codes \cup {Blank}
         /\ config.secret \in Secrets
BY ConfigurationAssumption DEF DoorsOK

LEMMA ArriveType ==
  ASSUME DoorsOK, Arrive
  PROVE  calls' \in 0 .. MaxCalls /\ calls' \in 1 .. MaxCalls
BY NumbersAreNat DEF DoorsOK, Arrive

LEMMA SignInDoors ==
  ASSUME DoorsOK, SessionsOK, NEW audience \in Audiences, NEW address, SignIn(audience, address)
  PROVE  DoorsOK' /\ SessionsOK'
<1>1. calls' \in 0 .. MaxCalls /\ calls' \in 1 .. MaxCalls
  BY ArriveType DEF SignIn
<1>2. UNCHANGED <<config, sessions, restarts, opened>>
  BY DEF SignIn
<1>3. \/ pending' = pending \cup {[number |-> calls', audience |-> audience]} /\ UNCHANGED answer
      \/ UNCHANGED pending /\ answer'.status = "too-many-requests" /\ answer'.audience = audience
  BY DEF SignIn, Respond
<1>4. pending' \subseteq RequestOK
  BY <1>1, <1>3 DEF DoorsOK, RequestOK
<1>5. answer'.status \in Statuses /\ answer'.audience \in Audiences
  BY <1>3 DEF DoorsOK, Statuses
<1> QED
  BY <1>1, <1>2, <1>4, <1>5 DEF DoorsOK, SessionsOK

LEMMA GuardDoors ==
  ASSUME DoorsOK, SessionsOK, NEW route, NEW audience \in Audiences, NEW address, NEW number,
         Guard(route, audience, address, number)
  PROVE  DoorsOK' /\ SessionsOK'
<1>1. calls' \in 0 .. MaxCalls
  BY ArriveType DEF Guard
<1>2. UNCHANGED <<config, pending, sessions, restarts, opened>>
  BY DEF Guard
<1>3. answer'.status \in Statuses /\ answer'.audience \in Audiences
  <2>1. VerifySession(audience, number) \in {"unavailable", "granted", "denied"}
    BY DEF VerifySession
  <2> QED
    BY <2>1 DEF Guard, Respond, Statuses
<1> QED
  BY <1>1, <1>2, <1>3 DEF DoorsOK, SessionsOK

LEMMA RefuseDoors ==
  ASSUME DoorsOK, SessionsOK, NEW p \in pending, RefuseBody(p)
  PROVE  DoorsOK' /\ SessionsOK'
<1>1. p.audience \in Audiences
  BY DEF DoorsOK, RequestOK
<1>2. answer'.status = "invalid-payload" /\ answer'.audience = p.audience
  BY DEF RefuseBody, NoAnswer
<1>3. UNCHANGED <<config, sessions, calls, restarts, opened>> /\ pending' \subseteq pending
  BY DEF RefuseBody
<1> QED
  BY <1>1, <1>2, <1>3 DEF DoorsOK, SessionsOK, Statuses

LEMMA OpenDoors ==
  ASSUME DoorsOK, SessionsOK, NEW p \in pending, NEW code \in Codes, OpenSession(p, code)
  PROVE  DoorsOK' /\ SessionsOK'
<1>1. p.number \in 1 .. MaxCalls /\ p.audience \in Audiences
  BY DEF DoorsOK, RequestOK
<1>2. UNCHANGED <<config, calls, restarts>> /\ pending' \subseteq pending
  BY DEF OpenSession
<1>3. /\ answer'.audience = p.audience
      /\ answer'.status \in {"authenticated", "invalid-credentials", "gate-unavailable"}
  BY DEF OpenSession, NoAnswer
<1>4. answer'.status \in Statuses /\ answer'.audience \in Audiences
  BY <1>1, <1>3 DEF Statuses
<1>5. CASE UNCHANGED <<sessions, opened>>
  BY <1>2, <1>4, <1>5 DEF DoorsOK, SessionsOK
<1>6. CASE ~UNCHANGED <<sessions, opened>>
  <2>1. PICK s, o :
          /\ s = [number |-> p.number, key |-> <<code, config.secret>>, left |-> Ttl]
          /\ o = [number |-> p.number, entered |-> code, secret |-> config.secret, age |-> 0]
    OBVIOUS
  <2>2. sessions' = sessions \cup {s} /\ opened' = opened \cup {o}
    BY <1>6, <2>1 DEF OpenSession, Minted, SigningKey
  <2>3. s \in SessionOK /\ o \in OpenedOK
    BY <1>1, <2>1, ConfigType, NumbersAreNat DEF SessionOK, OpenedOK
  <2>4. Matches(s, o)
    BY <2>1, NumbersAreNat DEF Matches
  <2>5. SessionsOK'
    BY <2>2, <2>4 DEF SessionsOK
  <2>6. DoorsOK'
    BY <1>2, <1>4, <2>2, <2>3 DEF DoorsOK
  <2> QED
    BY <2>5, <2>6
<1> QED
  BY <1>5, <1>6

LEMMA TickDoors ==
  ASSUME DoorsOK, SessionsOK, Tick
  PROVE  DoorsOK' /\ SessionsOK'
<1> DEFINE Spend(s) == [s EXCEPT !.left = IF @ > 0 THEN @ - 1 ELSE 0]
<1> DEFINE Age(o) == [o EXCEPT !.age = IF @ < Ttl THEN @ + 1 ELSE Ttl]
<1>1. /\ sessions' = {Spend(s) : s \in sessions} /\ opened' = {Age(o) : o \in opened}
      /\ answer' = NoAnswer /\ UNCHANGED <<config, pending, calls, restarts>>
  BY DEF Tick
<1>2. ASSUME NEW s \in SessionOK
      PROVE  /\ Spend(s) \in SessionOK /\ Spend(s).number = s.number /\ Spend(s).key = s.key
             /\ Spend(s).left = IF s.left > 0 THEN s.left - 1 ELSE 0
  BY NumbersAreNat DEF SessionOK
<1>3. ASSUME NEW o \in OpenedOK
      PROVE  /\ Age(o) \in OpenedOK /\ Age(o).number = o.number
             /\ Age(o).entered = o.entered /\ Age(o).secret = o.secret
             /\ Age(o).age = IF o.age < Ttl THEN o.age + 1 ELSE Ttl
  BY NumbersAreNat DEF OpenedOK
<1> HIDE DEF Spend, Age
<1>4. sessions \subseteq SessionOK /\ opened \subseteq OpenedOK
  BY DEF DoorsOK
<1>5. DoorsOK'
  <2>1. sessions' \subseteq SessionOK /\ opened' \subseteq OpenedOK
    BY <1>1, <1>2, <1>3, <1>4
  <2>2. NoAnswer.status \in Statuses /\ NoAnswer.audience \in Audiences
    BY DEF NoAnswer, Statuses, Audiences
  <2> QED
    BY <1>1, <2>1, <2>2 DEF DoorsOK
<1>6. ASSUME NEW t \in sessions' PROVE \E o \in opened' : Matches(t, o)
  <2>1. PICK s \in sessions : t = Spend(s)
    BY <1>1
  <2>2. PICK o \in opened : Matches(s, o)
    BY DEF SessionsOK
  <2>3. s \in SessionOK /\ o \in OpenedOK /\ Age(o) \in opened'
    BY <1>1, <1>4
  <2>4. s.left \in 0 .. Ttl /\ o.age \in 0 .. Ttl /\ o.age = Ttl - s.left
    BY <2>2, <2>3 DEF SessionOK, OpenedOK, Matches
  <2>5. Age(o).age = Ttl - t.left
    BY <1>2, <1>3, <2>1, <2>3, <2>4, NumbersAreNat
  <2>6. Matches(t, Age(o))
    BY <1>2, <1>3, <2>1, <2>2, <2>3, <2>5 DEF Matches
  <2> QED
    BY <2>3, <2>6
<1> QED
  BY <1>5, <1>6 DEF SessionsOK

LEMMA RestartDoors ==
  ASSUME DoorsOK, SessionsOK, Restart
  PROVE  DoorsOK' /\ SessionsOK'
BY NumbersAreNat DEF DoorsOK, SessionsOK, Restart, NoAnswer, Statuses, Audiences

LEMMA NextDoors ==
  ASSUME DoorsOK, SessionsOK, GatesNext
  PROVE  DoorsOK' /\ SessionsOK'
<1>1. CASE \E audience \in Audiences, address \in Addresses : SignIn(audience, address)
  BY <1>1, SignInDoors
<1>2. CASE \E p \in pending : RefuseBody(p) \/ \E code \in Codes : OpenSession(p, code)
  BY <1>2, RefuseDoors, OpenDoors
<1>3. CASE FamilyRequest
  BY <1>3, GuardDoors DEF FamilyRequest, Audiences
<1>4. CASE AdminRequest
  BY <1>4, GuardDoors DEF AdminRequest, Audiences
<1>5. CASE Tick
  BY <1>5, TickDoors
<1>6. CASE Restart
  BY <1>6, RestartDoors
<1> QED
  BY <1>1, <1>2, <1>3, <1>4, <1>5, <1>6 DEF GatesNext

LEMMA GatesStep == GatesIInv /\ [GatesNext]_gatesVars => GatesIInv'
<1>1. ASSUME GatesIInv, GatesNext PROVE GatesIInv'
  <2>1. DoorsOK' /\ SessionsOK'
    BY <1>1, NextDoors DEF GatesIInv
  <2>2. /\ DOMAIN attempts' = Limiters /\ DOMAIN verdicts' = Limiters
        /\ \A l \in Limiters : BrakeStep(l)
    BY <1>1, NextBrakes DEF GatesIInv
  <2>3. \A l \in Limiters : /\ MapOK(attempts'[l], Limit[l]) /\ verdicts'[l].call \in Nat
                            /\ verdicts'[l].call <= calls'
    BY <1>1, <2>2, BrakeKept DEF GatesIInv
  <2>4. calls' \in Nat
    BY <2>1, NumbersAreNat DEF DoorsOK
  <2>5. BrakesOK'
    BY <2>2, <2>3, <2>4 DEF BrakesOK
  <2> QED
    BY <2>1, <2>5 DEF GatesIInv
<1>2. ASSUME GatesIInv, UNCHANGED gatesVars PROVE GatesIInv'
  BY <1>2 DEF gatesVars, GatesIInv, DoorsOK, SessionsOK, BrakesOK
<1> QED
  BY <1>1, <1>2

LEMMA GatesBegin == GatesInit => GatesIInv
<1> SUFFICES ASSUME GatesInit PROVE GatesIInv
  OBVIOUS
<1>1. DoorsOK /\ SessionsOK
  BY NumbersAreNat DEF GatesInit, DoorsOK, SessionsOK, NoAnswer, Statuses, Audiences
<1>2. BrakesOK
  BY NothingSpent, LimitAssumption DEF GatesInit, BrakesOK, NoVerdict
<1> QED
  BY <1>1, <1>2 DEF GatesIInv

LEMMA GatesInvariant == GatesSpec => []GatesIInv
BY GatesBegin, GatesStep, PTL DEF GatesSpec

\* Type correctness of the doors, and the bound of every limiter: no map has more keys than
\* maxTrackedKeys, and no key more attempts than its limit (in-memory-rate-limiter.ts).
THEOREM LimitersAreBounded == GatesSpec => []GatesTypeOK
<1>1. GatesIInv => GatesTypeOK
  <2> SUFFICES ASSUME GatesIInv PROVE GatesTypeOK
    OBVIOUS
  <2>1. ASSUME NEW l \in Limiters
        PROVE  /\ Cardinality(DOMAIN attempts[l]) <= MaxTracked
               /\ \A key \in DOMAIN attempts[l] :
                    /\ Len(attempts[l][key]) <= Limit[l]
                    /\ \A i \in DOMAIN attempts[l][key] : attempts[l][key][i] \in 0 .. Window
    <3>1. MapOK(attempts[l], Limit[l])
      BY DEF GatesIInv, BrakesOK
    <3>2. ASSUME NEW key \in DOMAIN attempts[l]
          PROVE  /\ Len(attempts[l][key]) <= Limit[l]
                 /\ \A i \in DOMAIN attempts[l][key] : attempts[l][key][i] \in 0 .. Window
      <4>1. PICK ages : ages = attempts[l][key]
        OBVIOUS
      <4>2. ages \in Seq(Ages) /\ Len(ages) <= Limit[l]
        BY <3>1, <4>1 DEF MapOK
      <4>3. \A i \in DOMAIN ages : ages[i] \in Ages
        BY <4>2
      <4> QED
        BY <4>1, <4>2, <4>3 DEF Ages
    <3> QED
      BY <3>1, <3>2 DEF MapOK
  <2>2. DoorsOK
    BY DEF GatesIInv
  <2> QED
    BY <2>1, <2>2 DEF GatesTypeOK, DoorsOK, RequestOK, SessionOK, OpenedOK
<1> QED
  BY <1>1, GatesInvariant, PTL

\* Every limiter, pruned and swept as it is, decides step by step like SlidingWindow, which
\* remembers every grant for its window and counts nothing it refuses (rate-limiter.ts).
THEOREM LimitersImplement == GatesSpec => Implements
<1>1. GatesInit => \A l \in Limiters : Promise(l)!Init
  BY NothingSpent DEF GatesInit, Promise!Init, NoVerdict, NoAttempts
<1>2. GatesIInv /\ [GatesNext]_gatesVars =>
        [\A l \in Limiters : [Promise(l)!Next]_<<attempts[l], verdicts[l]>>]_gatesVars
  <2>1. ASSUME GatesIInv, GatesNext, NEW l \in Limiters
        PROVE  [Promise(l)!Next]_<<attempts[l], verdicts[l]>>
    BY <2>1, NextBrakes, BrakePromise DEF GatesIInv
  <2> QED
    BY <2>1
<1> QED
  BY <1>1, <1>2, GatesInvariant, PTL DEF GatesSpec, Implements

\* A door opens only to a session that was opened by entering the code which is configured
\* for it now, under the present secret and within its life, and the admin door never to
\* the code the children hold (hmac-family-access-gate.ts, createAdminAccessGate).
THEOREM DoorsNeedTheCode == GatesSpec => SessionsAreCurrent
<1>1. ASSUME GatesIInv, NEW route, NEW audience \in Audiences, NEW address, NEW number,
             Guard(route, audience, address, number), answer'.status = "granted"
      PROVE  EnteredTheCode(answer'.audience, answer'.session)
  <2>1. /\ VerifySession(audience, number) = "granted"
        /\ answer'.audience = audience /\ answer'.session = number
    BY <1>1 DEF Guard, Respond, VerifySession
  <2>2. PICK s \in sessions :
          s.number = number /\ s.key = SigningKey(audience) /\ s.left > 0
    BY <2>1 DEF VerifySession
  <2>3. IsConfigured(audience)
    BY <2>1 DEF VerifySession
  <2>4. PICK o \in opened : Matches(s, o)
    BY <1>1 DEF GatesIInv, SessionsOK
  <2>5. s.left \in 0 .. Ttl
    BY <1>1 DEF GatesIInv, DoorsOK, SessionOK
  <2>6. o.number = number /\ o.entered = Code(audience) /\ o.secret = config.secret /\ o.age < Ttl
    BY <2>2, <2>4, <2>5, NumbersAreNat DEF Matches, SigningKey
  <2>7. /\ Code(audience) = IF audience = "admin" THEN config.admin ELSE config.family
        /\ audience = "admin" => Code(audience) # config.family
    BY <1>1, <2>3 DEF Code, IsConfigured, Audiences
  <2> QED
    BY <2>1, <2>6, <2>7 DEF EnteredTheCode
<1>2. GatesIInv /\ [GatesNext]_gatesVars =>
        [answer' # answer /\ answer'.status = "granted" =>
           EnteredTheCode(answer'.audience, answer'.session)]_gatesVars
  <2> SUFFICES ASSUME GatesIInv, GatesNext, answer' # answer, answer'.status = "granted"
               PROVE  EnteredTheCode(answer'.audience, answer'.session)
    OBVIOUS
  <2>1. CASE \E audience \in Audiences, address \in Addresses : SignIn(audience, address)
    BY <2>1 DEF SignIn, Respond
  <2>2. CASE \E p \in pending : RefuseBody(p) \/ \E code \in Codes : OpenSession(p, code)
    BY <2>2 DEF RefuseBody, OpenSession, NoAnswer
  <2>3. CASE FamilyRequest
    BY <1>1, <2>3 DEF FamilyRequest, Audiences
  <2>4. CASE AdminRequest
    BY <1>1, <2>4 DEF AdminRequest, Audiences
  <2>5. CASE Tick \/ Restart
    BY <2>5 DEF Tick, Restart, NoAnswer
  <2> QED
    BY <2>1, <2>2, <2>3, <2>4, <2>5 DEF GatesNext
<1> QED
  BY <1>2, GatesInvariant, PTL DEF GatesSpec, SessionsAreCurrent
=============================================================================
