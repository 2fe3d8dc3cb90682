----------------------- MODULE PostgresLifecycleLog ------------------------
(***************************************************************************)
(* adapters/persistence/postgres-question-lifecycle-log.ts over migration  *)
(* 0003, called by the change route.  Several adults, one autocommitted    *)
(* statement each, no lock and no explicit transaction: what keeps the     *)
(* history of a question a chain is UNIQUE (question_id, revision) alone.  *)
(*                                                                         *)
(* The APPEND statement is two steps.  Evaluate is everything it decides   *)
(* on its snapshot (the WHERE, the revision, the identity value);  Commit  *)
(* or Collide is its entry in the unique index, where it waits for a row   *)
(* of the same key that is still in flight.  Other statements run between. *)
(* A statement whose caller gave up (query_timeout, a dead connection)     *)
(* stays in the server and may still commit.                               *)
(***************************************************************************)
EXTENDS ChangeRoute, FiniteSets

CONSTANT MaxSequence   \* bound: no call starts once the identity column passed it

ASSUME MaxSequenceAssumption == MaxSequence \in Nat

Rows ==
  [question : Questions, revision : Nat, previous : States, next : States,
   sequence : Nat]

VARIABLES
  rows,          \* the committed rows of question_lifecycle_event
  nextSequence,  \* the identity column's next value
  statements     \* inserts evaluated but not committed: caller, awaited, row

vars == <<rows, nextSequence, statements, phase, request, answer, held>>

RowsOf(q) == {r \in rows : r.question = q}

\* ORDER BY revision DESC LIMIT 1
Newest(S) == CHOOSE r \in S : \A s \in S : s.revision <= r.revision

Latest(q) == Newest(RowsOf(q))

StateOf(q) == IF RowsOf(q) = {} THEN Seeded[q] ELSE Latest(q).next

\* coalesce((SELECT revision FROM latest), -1) + 1
NextRevision(q) == IF RowsOf(q) = {} THEN 0 ELSE Latest(q).revision + 1

Snapshot ==
  [q \in {r.question : r \in rows} |->
     [state |-> Latest(q).next, sequence |-> Latest(q).sequence]]

\* MUTANT: migration 0003 without question_lifecycle_revision_unique.
KeyNeverTaken(row) == FALSE

\* UNIQUE (question_id, revision)
KeyTaken(row) ==
  \E r \in rows : r.question = row.question /\ r.revision = row.revision

Init ==
  /\ rows = {}
  /\ nextSequence = 1
  /\ statements = {}
  /\ NothingAsked

----------------------------------------------------------------------------
(* The route and the adapter *)

\* The row enters the table: every open call about its question has now seen its state.
Insert(row) ==
  /\ rows' = rows \cup {row}
  /\ held' = [c \in Callers |->
                IF phase[c] # "idle" /\ request[c].question = row.question
                  THEN held[c] \cup {row.next} ELSE held[c]]

Call(c, r) ==
  /\ nextSequence <= MaxSequence
  /\ Ask(c, r, StateOf(r.question))
  /\ UNCHANGED <<rows, nextSequence, statements>>

RefuseInvalid(c) ==
  /\ Refuse(c)
  /\ UNCHANGED <<rows, nextSequence, statements>>

\* MUTANT: the file adapter's numbering, one more than the rows it can see.
NewRowNumberedByCount(r) ==
  [question |-> r.question, revision |-> NextRevision(r.question),
   previous |-> r.expected, next |-> r.next, sequence |-> Cardinality(rows) + 1]

NewRow(r) ==
  [question |-> r.question, revision |-> NextRevision(r.question),
   previous |-> r.expected, next |-> r.next, sequence |-> nextSequence]

\* The statement runs on its snapshot and its WHERE holds.  The identity value is
\* drawn here, so it is gone whatever becomes of the insert.
Evaluate(c) ==
  /\ phase[c] = "called"
  /\ Storable(request[c])
  /\ StateOf(request[c].question) = request[c].expected
  /\ statements' = statements \cup
       {[caller |-> c, awaited |-> TRUE, row |-> NewRow(request[c])]}
  /\ nextSequence' = nextSequence + 1
  /\ phase' = [phase EXCEPT ![c] = "inserting"]
  /\ UNCHANGED <<rows, request, answer, held>>

\* The WHERE refused it: no row comes back, and append goes on to stale().
RefuseMoved(c) ==
  /\ phase[c] = "called"
  /\ Storable(request[c])
  /\ StateOf(request[c].question) # request[c].expected
  /\ phase' = [phase EXCEPT ![c] = "stale"]
  /\ UNCHANGED <<rows, nextSequence, statements, request, answer, held>>

Commit(c) ==
  \E st \in statements :
    /\ st.caller = c /\ st.awaited /\ phase[c] = "inserting"
    /\ ~KeyTaken(st.row)
    /\ Insert(st.row)
    /\ statements' = statements \ {st}
    /\ Reply(c, Applied(st.row.next))
    /\ UNCHANGED <<nextSequence, request>>

\* MUTANT: "somebody wrote it already" taken for success.
CollideAsApplied(c) ==
  \E st \in statements :
    /\ st.caller = c /\ st.awaited /\ phase[c] = "inserting"
    /\ KeyTaken(st.row)
    /\ statements' = statements \ {st}
    /\ Reply(c, Applied(st.row.next))
    /\ UNCHANGED <<rows, nextSequence, request, held>>

\* 23505, and run lets it through: append goes on to stale().
Collide(c) ==
  \E st \in statements :
    /\ st.caller = c /\ st.awaited /\ phase[c] = "inserting"
    /\ KeyTaken(st.row)
    /\ statements' = statements \ {st}
    /\ phase' = [phase EXCEPT ![c] = "stale"]
    /\ UNCHANGED <<rows, nextSequence, request, answer, held>>

\* MUTANT: the branch for "no row yet" taken always.
ReadBackSeeded(c) ==
  /\ phase[c] = "stale"
  /\ Reply(c, Stale(Seeded[request[c].question]))
  /\ UNCHANGED <<rows, nextSequence, statements, request, held>>

\* MUTANT: read again until the state disagrees with the caller.
ReadBackUntilMoved(c) ==
  /\ phase[c] = "stale"
  /\ StateOf(request[c].question) # request[c].expected
  /\ Reply(c, Stale(StateOf(request[c].question)))
  /\ UNCHANGED <<rows, nextSequence, statements, request, held>>

\* stale(): a second statement, with a snapshot of its own.
ReadBack(c) ==
  /\ phase[c] = "stale"
  /\ Reply(c, Stale(StateOf(request[c].question)))
  /\ UNCHANGED <<rows, nextSequence, statements, request, held>>

----------------------------------------------------------------------------
(* What the database and the connection may do *)

\* A statement fails with nothing done: no connection to be had, cancelled, refused.
Fail(c) ==
  /\ phase[c] \in {"called", "inserting", "stale"}
  /\ Storable(request[c])
  /\ statements' = {st \in statements : ~(st.caller = c /\ st.awaited)}
  /\ Reply(c, Plain("unavailable"))
  /\ UNCHANGED <<rows, nextSequence, request, held>>

\* The caller gives up on an insert that the server is still running.
Abandon(c) ==
  \E st \in statements :
    /\ st.caller = c /\ st.awaited /\ phase[c] = "inserting"
    /\ statements' = (statements \ {st}) \cup {[st EXCEPT !.awaited = FALSE]}
    /\ Reply(c, Plain("unavailable"))
    /\ UNCHANGED <<rows, nextSequence, request, held>>

\* Nobody is left to hear what becomes of it.
CommitAbandoned ==
  \E st \in statements :
    /\ ~st.awaited
    /\ ~KeyTaken(st.row)
    /\ Insert(st.row)
    /\ statements' = statements \ {st}
    /\ UNCHANGED <<nextSequence, phase, request, answer>>

DropAbandoned ==
  \E st \in statements :
    /\ ~st.awaited
    /\ statements' = statements \ {st}
    /\ UNCHANGED <<rows, nextSequence, phase, request, answer, held>>

Handle(c) ==
  RefuseInvalid(c) \/ Evaluate(c) \/ RefuseMoved(c) \/ Commit(c) \/ Collide(c)
    \/ ReadBack(c)

Next ==
  \/ \E c \in Callers :
       \/ \E r \in Requests : Call(c, r)
       \/ RefuseInvalid(c)
       \/ Evaluate(c)
       \/ RefuseMoved(c)
       \/ Commit(c)
       \/ Collide(c)
       \/ ReadBack(c)
       \/ Fail(c)
       \/ Abandon(c)
  \/ CommitAbandoned
  \/ DropAbandoned

Spec == Init /\ [][Next]_vars

\* The handler runs on once it has been called: every await of it is bounded by a
\* timeout of the pool, after which it fails.  Nothing makes an adult call.
FairSpec == Spec /\ \A c \in Callers : WF_vars(Handle(c))

----------------------------------------------------------------------------
(* Properties *)

Statements == [caller : Callers, awaited : BOOLEAN, row : Rows]

\* Type invariant of the table, the server and the calls.
TypeOK ==
  /\ rows \subseteq Rows
  /\ nextSequence \in Nat \ {0}
  /\ statements \subseteq Statements
  /\ RouteOK({"inserting", "stale"})

\* The archive is a chain (0003, "previous_state is stored rather than replayed"):
\* one row per revision of a question, no revision missing, every row starting from
\* the state the row before it left, the first from the dataset's.
HistoryIsAChain ==
  /\ \A r, s \in rows : r.question = s.question /\ r.revision = s.revision => r = s
  /\ \A r \in rows : r.previous # r.next
  /\ \A r \in rows :
       IF r.revision = 0 THEN r.previous = Seeded[r.question]
       ELSE \E s \in rows : /\ s.question = r.question
                            /\ s.revision = r.revision - 1
                            /\ s.next = r.previous

\* "sequence" is a total order of all rows that agrees with every question's own
\* order: history() sorts by the one, snapshot() by the other, and they never differ.
SequenceOrdersHistory ==
  \A r, s \in rows :
    /\ r.sequence = s.sequence => r = s
    /\ r.question = s.question /\ r.revision < s.revision => r.sequence < s.sequence

\* A 409 is the truth: during the call the question really was in a state the caller
\* did not expect, and the state the answer names really held.
StaleIsHonest ==
  \A c \in Callers :
    phase[c] = "idle" /\ answer[c].kind = "stale"
      => /\ answer[c].state \in held[c]
         /\ \E s \in held[c] : s # request[c].expected

Register == INSTANCE LifecycleRegister WITH
  state <- [q \in Questions |-> StateOf(q)],
  phase <- [c \in Callers |-> IF phase[c] = "idle" THEN "idle" ELSE "called"],
  late  <- {[id |-> st.row.sequence,
             request |-> [question |-> st.row.question,
                          expected |-> st.row.previous, next |-> st.row.next]] :
               st \in {x \in statements : ~x.awaited}}

\* The table and its constraint implement the compare-and-set of the port: an applied
\* answer is one change made by this call, and no other answer is.
Implements == Register!Spec

\* Whoever calls is answered, however the others interleave.
EveryCallAnswered == \A c \in Callers : phase[c] # "idle" ~> phase[c] = "idle"

\* "reopening must not steal the turn" (content/open-questions.ts): while the question
\* being asked stays open, it stays the one being asked.
TurnIsNotStolen ==
  [][rows' # rows =>
       \A q \in Active(Snapshot) :
         q \in OpenIn(Snapshot') => q \in Active(Snapshot')]_vars

\* "unavailable ... Es wurde nichts geaendert" (admin-question-board.tsx): an insert
\* whose caller was answered 503 never becomes a row.
UnavailableChangesNothing ==
  [][\A st \in statements :
       ~st.awaited => st.row \notin rows']_vars
=============================================================================
