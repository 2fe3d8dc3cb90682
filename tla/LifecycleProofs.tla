-------------------------- MODULE LifecycleProofs --------------------------
(***************************************************************************)
(* Proofs about the two question lifecycle logs, for every set of          *)
(* questions and of callers.  PostgresLifecycleLog: the table's history is *)
(* a chain, 409 answers are true, and the table implements the             *)
(* compare-and-set register of the port.  FileLifecycleLog: the log is a   *)
(* chain, nothing answered is lost silently, nobody loses the turn, and    *)
(* until a line is damaged the file is the same register.                  *)
(***************************************************************************)
EXTENDS PostgresLifecycleLog, FileLifecycleLog, FiniteSetTheorems, SequenceTheorems, TLAPS

----------------------------------------------------------------------------
(* The table *)

\* Every question with rows has a newest one.
HasLatest ==
  \A q \in Questions : RowsOf(q) # {} =>
    \E r \in RowsOf(q) : \A s \in RowsOf(q) : s.revision <= r.revision

\* No revision below an existing one is missing.
Complete ==
  \A r \in rows : \A k \in 0 .. (r.revision - 1) :
    \E s \in rows : s.question = r.question /\ s.revision = k

\* Identity values are never handed out twice.
SequencesDrawn ==
  /\ \A r \in rows : r.sequence < nextSequence
  /\ \A st \in statements : st.row.sequence < nextSequence
  /\ \A st \in statements, r \in rows : st.row.sequence # r.sequence
  /\ \A st, tt \in statements : st.row.sequence = tt.row.sequence => st = tt

\* An insert in flight continues the chain from the row it saw as the latest.
StatementsContinue ==
  \A st \in statements :
    /\ st.row.previous # st.row.next
    /\ IF st.row.revision = 0 THEN st.row.previous = Seeded[st.row.question]
       ELSE \E s \in rows : /\ s.question = st.row.question
                            /\ s.revision = st.row.revision - 1
                            /\ s.next = st.row.previous
    /\ \A r \in rows :
         r.question = st.row.question /\ r.revision < st.row.revision
           => r.sequence < st.row.sequence

\* An awaited insert is the one its caller's request asked for, and the only one.
StatementsAreRequests ==
  \A st \in statements : st.awaited =>
    /\ phase[st.caller] = "inserting"
    /\ request[st.caller].question = st.row.question
    /\ request[st.caller].expected = st.row.previous
    /\ request[st.caller].next = st.row.next
    /\ \A tt \in statements : tt.awaited /\ tt.caller = st.caller => tt = st

\* What an open call has witnessed: the present state, and a state other than the
\* expected one as soon as its answer can only be "stale".
CallsWitness ==
  \A c \in Callers :
    /\ phase[c] # "idle" => StateOf(request[c].question) \in held[c]
    /\ phase[c] \in {"inserting", "stale"} => Storable(request[c])
    /\ phase[c] = "stale" => \E s \in held[c] : s # request[c].expected
    /\ \A st \in statements :
         st.awaited /\ st.caller = c /\ KeyTaken(st.row)
           => \E s \in held[c] : s # request[c].expected

IInv ==
  /\ TypeOK
  /\ HistoryIsAChain
  /\ SequenceOrdersHistory
  /\ HasLatest
  /\ Complete
  /\ SequencesDrawn
  /\ StatementsContinue
  /\ StatementsAreRequests
  /\ CallsWitness
  /\ StaleIsHonest

----------------------------------------------------------------------------
(* The newest row of a question *)

\* What ORDER BY revision DESC LIMIT 1 returns: a row no other is newer than.
LEMMA LatestIsNewest ==
  ASSUME HasLatest, NEW q \in Questions, RowsOf(q) # {}
  PROVE  /\ Latest(q) \in RowsOf(q)
         /\ \A s \in RowsOf(q) : s.revision <= Latest(q).revision
<1>1. PICK r \in RowsOf(q) : \A s \in RowsOf(q) : s.revision <= r.revision
  BY DEF HasLatest
<1> QED
  BY <1>1 DEF Latest, Newest

\* Rows with different revisions have one newest only.
LEMMA NewestIsUnique ==
  ASSUME NEW S, NEW r \in S,
         \A s \in S : s.revision \in Nat /\ s.revision <= r.revision,
         \A s, t \in S : s.revision = t.revision => s = t
  PROVE  Newest(S) = r
<1>1. Newest(S) \in S /\ \A s \in S : s.revision <= Newest(S).revision
  BY DEF Newest
<1>2. Newest(S).revision \in Nat /\ r.revision \in Nat
  BY <1>1
<1>3. Newest(S).revision = r.revision
  BY <1>1, <1>2
<1> QED
  BY <1>1, <1>3

\* An insert whose key is free continues the chain from its present end.
LEMMA FreeKeyIsNext ==
  ASSUME IInv, NEW st \in statements, ~KeyTaken(st.row)
  PROVE  /\ StateOf(st.row.question) = st.row.previous
         /\ \A s \in RowsOf(st.row.question) : s.revision < st.row.revision
<1> DEFINE row == st.row
           q   == st.row.question
<1>1. row \in Rows /\ q \in Questions /\ row.revision \in Nat
  BY DEF IInv, TypeOK, RouteOK, Statements, Rows
<1>2. ASSUME NEW s \in RowsOf(q) PROVE s.revision < row.revision
  <2>1. s \in rows /\ s.question = q /\ s.revision \in Nat
    BY DEF RowsOf, IInv, TypeOK, RouteOK, Rows
  <2>2. SUFFICES ASSUME ~(s.revision < row.revision) PROVE FALSE
    OBVIOUS
  <2>3. CASE s.revision = row.revision
    BY <2>1, <2>3 DEF KeyTaken
  <2>4. CASE row.revision < s.revision
    <3>1. row.revision \in 0 .. (s.revision - 1)
      BY <1>1, <2>1, <2>4
    <3> QED
      BY <2>1, <3>1 DEF IInv, Complete, KeyTaken
  <2> QED
    BY <1>1, <2>1, <2>2, <2>3, <2>4
<1>3. CASE row.revision = 0
  <2>1. RowsOf(q) = {}
    <3> SUFFICES ASSUME NEW s \in RowsOf(q) PROVE FALSE
      OBVIOUS
    <3>1. s.revision \in Nat
      BY DEF RowsOf, IInv, TypeOK, RouteOK, Rows
    <3> QED
      BY <1>2, <1>3, <3>1
  <2>2. row.previous = Seeded[q]
    BY <1>3 DEF IInv, StatementsContinue
  <2> QED
    BY <1>2, <2>1, <2>2 DEF StateOf
<1>4. CASE row.revision # 0
  <2>1. PICK p \in rows : /\ p.question = q
                          /\ p.revision = row.revision - 1
                          /\ p.next = row.previous
    BY <1>4 DEF IInv, StatementsContinue
  <2>2. p \in RowsOf(q)
    BY <2>1 DEF RowsOf
  <2>3. ASSUME NEW s \in RowsOf(q) PROVE s.revision <= p.revision
    <3>1. s.revision \in Nat /\ s.revision < row.revision
      BY <1>2 DEF RowsOf, IInv, TypeOK, RouteOK, Rows
    <3> QED
      BY <1>1, <2>1, <3>1
  <2>4. Latest(q) = p
    <3>1. \A s \in RowsOf(q) : s.revision \in Nat /\ s.revision <= p.revision
      BY <2>3 DEF RowsOf, IInv, TypeOK, RouteOK, Rows
    <3>2. \A s, t \in RowsOf(q) : s.revision = t.revision => s = t
      BY DEF RowsOf, IInv, HistoryIsAChain
    <3> QED
      BY <2>2, <3>1, <3>2, NewestIsUnique DEF Latest
  <2> QED
    BY <1>2, <2>1, <2>2, <2>4 DEF StateOf
<1> QED
  BY <1>3, <1>4

----------------------------------------------------------------------------
(* The three kinds of step the table sees *)

\* Rows and statements after an insert.
Inserted(st) ==
  /\ st \in statements
  /\ ~KeyTaken(st.row)
  /\ rows' = rows \cup {st.row}
  /\ statements' = statements \ {st}
  /\ nextSequence' = nextSequence

\* The new row is its question's latest; the other questions see nothing.
LEMMA InsertMovesItsQuestion ==
  ASSUME IInv, NEW st, Inserted(st)
  PROVE  /\ Latest(st.row.question)' = st.row
         /\ RowsOf(st.row.question)' # {}
         /\ StateOf(st.row.question)' = st.row.next
         /\ \A q \in Questions : q # st.row.question =>
              RowsOf(q)' = RowsOf(q) /\ StateOf(q)' = StateOf(q)
<1> DEFINE row == st.row
           q   == st.row.question
<1>1. row \in Rows /\ q \in Questions /\ row.revision \in Nat
  BY DEF Inserted, IInv, TypeOK, RouteOK, Statements, Rows
<1>2. RowsOf(q)' = RowsOf(q) \cup {row}
  BY DEF Inserted, RowsOf
<1>3. \A s \in RowsOf(q)' : s.revision \in Nat /\ s.revision <= row.revision
  <2>1. \A s \in RowsOf(q) : s.revision \in Nat /\ s.revision < row.revision
    BY FreeKeyIsNext DEF Inserted, RowsOf, IInv, TypeOK, RouteOK, Rows
  <2> QED
    BY <1>1, <1>2, <2>1
<1>4. \A s, t \in RowsOf(q)' : s.revision = t.revision => s = t
  <2>1. \A s \in RowsOf(q) : s.revision # row.revision
    BY DEF Inserted, KeyTaken, RowsOf
  <2>2. \A s, t \in RowsOf(q) : s.revision = t.revision => s = t
    BY DEF RowsOf, IInv, HistoryIsAChain
  <2> QED
    BY <1>2, <2>1, <2>2
<1>5. Newest(RowsOf(q)') = row
  BY <1>2, <1>3, <1>4, NewestIsUnique
<1>6. Latest(q)' = row
  BY <1>5 DEF Latest
<1>7. StateOf(q)' = row.next
  BY <1>2, <1>6 DEF StateOf
<1>8. ASSUME NEW p \in Questions, p # q
      PROVE  RowsOf(p)' = RowsOf(p) /\ StateOf(p)' = StateOf(p)
  <2>1. RowsOf(p)' = RowsOf(p)
    BY <1>8 DEF Inserted, RowsOf
  <2> QED
    BY <2>1 DEF StateOf, Latest
<1> QED
  BY <1>2, <1>6, <1>7, <1>8

\* The table is left alone: statements may end or lose their caller.
Quiet ==
  /\ rows' = rows
  /\ nextSequence' = nextSequence
  /\ \A st \in statements' : \E tt \in statements : tt.row = st.row
  /\ \A st, tt \in statements' : st.row.sequence = tt.row.sequence => st = tt

LEMMA StepKinds ==
  ASSUME IInv, [Next]_vars
  PROVE  (\E st : Inserted(st)) \/ (\E c \in Callers : Evaluate(c)) \/ Quiet
<1> USE DEF IInv, SequencesDrawn
<1>1. ASSUME NEW S, S \subseteq statements, rows' = rows,
             nextSequence' = nextSequence, statements' = S
      PROVE  Quiet
  BY <1>1 DEF Quiet
<1>2. ASSUME NEW c \in Callers, Abandon(c) PROVE Quiet
  <2>1. PICK st \in statements :
          /\ statements' = (statements \ {st}) \cup {[st EXCEPT !.awaited = FALSE]}
          /\ rows' = rows /\ nextSequence' = nextSequence
    BY <1>2 DEF Abandon
  <2>2. PICK un : un = [st EXCEPT !.awaited = FALSE]
    OBVIOUS
  <2>3. un.row = st.row
    BY <2>2 DEF TypeOK, RouteOK, Statements
  <2>4. statements' = (statements \ {st}) \cup {un}
    BY <2>1, <2>2
  <2> QED
    BY <2>1, <2>3, <2>4 DEF Quiet
<1>3. ASSUME NEW c \in Callers, Commit(c) PROVE \E st : Inserted(st)
  BY <1>3 DEF Commit, Inserted, Insert
<1>4. ASSUME CommitAbandoned PROVE \E st : Inserted(st)
  BY <1>4 DEF CommitAbandoned, Inserted, Insert
<1>5. ASSUME NEW c \in Callers,
             \/ \E r \in Requests : Call(c, r)
             \/ RefuseInvalid(c) \/ RefuseMoved(c) \/ ReadBack(c)
             \/ Fail(c) \/ Collide(c)
      PROVE  Quiet
  BY <1>1, <1>5 DEF Call, Ask, RefuseInvalid, Refuse, RefuseMoved, ReadBack, Fail, Collide
<1>6. ASSUME DropAbandoned PROVE Quiet
  BY <1>1, <1>6 DEF DropAbandoned
<1>7. ASSUME UNCHANGED vars PROVE Quiet
  BY <1>1, <1>7 DEF vars
<1> QED
  BY <1>2, <1>3, <1>4, <1>5, <1>6, <1>7 DEF Next

\* The part of the invariant that speaks of the table and its statements.
TableInv ==
  /\ HistoryIsAChain
  /\ SequenceOrdersHistory
  /\ HasLatest
  /\ Complete
  /\ SequencesDrawn
  /\ StatementsContinue

LEMMA InsertKeepsTable ==
  ASSUME IInv, NEW st, Inserted(st)
  PROVE  TableInv'
<1> DEFINE row == st.row
           q   == st.row.question
<1> USE DEF Inserted
<1>1. row \in Rows /\ q \in Questions /\ row.revision \in Nat
  BY DEF IInv, TypeOK, RouteOK, Statements, Rows
<1>2. \A s \in rows : s \in Rows /\ s.revision \in Nat
  BY DEF IInv, TypeOK, RouteOK, Rows
<1>3. \A s \in rows : s.question = q => s.revision < row.revision
  BY FreeKeyIsNext DEF RowsOf
<1>4. HistoryIsAChain'
  <2>1. \A r, s \in rows' :
          r.question = s.question /\ r.revision = s.revision => r = s
    BY DEF IInv, HistoryIsAChain, KeyTaken
  <2>2. \A r \in rows' : r.previous # r.next
    BY DEF IInv, HistoryIsAChain, StatementsContinue
  <2>3. \A r \in rows' :
          IF r.revision = 0 THEN r.previous = Seeded[r.question]
          ELSE \E s \in rows' : /\ s.question = r.question
                                /\ s.revision = r.revision - 1
                                /\ s.next = r.previous
    BY DEF IInv, HistoryIsAChain, StatementsContinue
  <2> QED
    BY <2>1, <2>2, <2>3 DEF HistoryIsAChain
<1>5. SequenceOrdersHistory'
  <2>1. \A r \in rows : r.sequence # row.sequence
    BY DEF IInv, SequencesDrawn
  <2>2. \A r \in rows : r.question = q => r.sequence < row.sequence
    BY <1>3 DEF IInv, StatementsContinue
  <2>3. \A r \in rows : r.question = q => ~(row.revision < r.revision)
    BY <1>1, <1>2, <1>3
  <2> QED
    BY <1>1, <2>1, <2>2, <2>3 DEF IInv, SequenceOrdersHistory
<1>6. HasLatest'
  <2> SUFFICES ASSUME NEW p \in Questions, RowsOf(p)' # {}
               PROVE  \E r \in RowsOf(p)' : \A s \in RowsOf(p)' : s.revision <= r.revision
    BY DEF HasLatest
  <2>1. CASE p = q
    <3>1. row \in RowsOf(p)'
      BY <2>1 DEF RowsOf
    <3>2. \A s \in RowsOf(p)' : s.revision <= row.revision
      BY <1>1, <1>2, <1>3, <2>1 DEF RowsOf
    <3> QED
      BY <3>1, <3>2
  <2>2. CASE p # q
    <3>1. RowsOf(p)' = RowsOf(p)
      BY <2>2 DEF RowsOf
    <3> QED
      BY <3>1 DEF IInv, HasLatest
  <2> QED
    BY <2>1, <2>2
<1>7. Complete'
  <2> SUFFICES ASSUME NEW r \in rows', NEW k \in 0 .. (r.revision - 1)
               PROVE  \E s \in rows' : s.question = r.question /\ s.revision = k
    BY DEF Complete
  <2>1. CASE r \in rows
    BY <2>1 DEF IInv, Complete
  <2>2. CASE r = row
    <3>1. PICK p \in rows : p.question = q /\ p.revision = row.revision - 1
      BY <1>1, <2>2 DEF IInv, StatementsContinue
    <3>2. CASE k = p.revision
      BY <2>2, <3>1, <3>2
    <3>3. CASE k # p.revision
      <4>1. k \in 0 .. (p.revision - 1)
        BY <1>1, <1>2, <2>2, <3>1, <3>3
      <4> QED
        BY <2>2, <3>1, <4>1 DEF IInv, Complete
    <3> QED
      BY <3>2, <3>3
  <2> QED
    BY <2>1, <2>2
<1>8. SequencesDrawn'
  BY DEF IInv, SequencesDrawn
<1>9. StatementsContinue'
  <2> SUFFICES ASSUME NEW tt \in statements'
               PROVE  /\ tt.row.previous # tt.row.next
                      /\ IF tt.row.revision = 0 THEN tt.row.previous = Seeded[tt.row.question]
                         ELSE \E s \in rows' : /\ s.question = tt.row.question
                                               /\ s.revision = tt.row.revision - 1
                                               /\ s.next = tt.row.previous
                      /\ \A r \in rows' :
                           r.question = tt.row.question /\ r.revision < tt.row.revision
                             => r.sequence < tt.row.sequence
    BY DEF StatementsContinue
  <2>1. tt \in statements /\ tt.row \in Rows
    BY DEF IInv, TypeOK, RouteOK, Statements
  <2>2. ASSUME q = tt.row.question, row.revision < tt.row.revision PROVE FALSE
    <3>1. PICK p \in rows : p.question = q /\ p.revision = tt.row.revision - 1
      BY <1>1, <2>1, <2>2 DEF IInv, StatementsContinue, Rows
    <3> QED
      BY <1>1, <1>2, <1>3, <2>1, <2>2, <3>1 DEF Rows
  <2> QED
    BY <2>1, <2>2 DEF IInv, StatementsContinue
<1> QED
  BY <1>4, <1>5, <1>6, <1>7, <1>8, <1>9 DEF TableInv

\* A quiet step, or a statement that begins: the rows stay, one insert may join.
LEMMA OthersKeepTable ==
  ASSUME IInv, Quiet \/ \E c \in Callers : Evaluate(c)
  PROVE  TableInv'
<1>1. rows' = rows
  BY DEF Quiet, Evaluate
<1>2. HistoryIsAChain' /\ SequenceOrdersHistory' /\ Complete'
  BY <1>1 DEF IInv, HistoryIsAChain, SequenceOrdersHistory, Complete
<1>3. HasLatest'
  BY <1>1 DEF IInv, HasLatest, RowsOf
<1>4. CASE Quiet
  BY <1>1, <1>2, <1>3, <1>4
     DEF Quiet, TableInv, IInv, SequencesDrawn, StatementsContinue
<1>5. ASSUME NEW c \in Callers, Evaluate(c)
      PROVE  SequencesDrawn' /\ StatementsContinue'
  <2> DEFINE q   == request[c].question
             row == NewRow(request[c])
             new == [caller |-> c, awaited |-> TRUE, row |-> row]
  <2>1. statements' = statements \cup {new} /\ nextSequence' = nextSequence + 1
    BY <1>5 DEF Evaluate
  <2>2. request[c] \in Requests /\ q \in Questions /\ nextSequence \in Nat
    BY <1>5 DEF Evaluate, IInv, TypeOK, RouteOK, Requests
  <2>3. /\ row.question = q /\ row.previous = request[c].expected
        /\ row.next = request[c].next /\ row.sequence = nextSequence
        /\ row.revision = NextRevision(q)
    BY DEF NewRow
  <2>4. new.row = row
    OBVIOUS
  <2>5. SequencesDrawn'
    <3>1. \A st \in statements : st.row.sequence \in Nat
      BY DEF IInv, TypeOK, RouteOK, Statements, Rows
    <3>2. \A r \in rows : r.sequence \in Nat
      BY DEF IInv, TypeOK, RouteOK, Rows
    <3> HIDE DEF new, row
    <3> QED
      BY <1>1, <2>1, <2>2, <2>3, <2>4, <3>1, <3>2 DEF IInv, SequencesDrawn
  <2>6. /\ row.previous # row.next
        /\ IF row.revision = 0 THEN row.previous = Seeded[q]
           ELSE \E s \in rows : /\ s.question = q
                                /\ s.revision = row.revision - 1
                                /\ s.next = row.previous
    <3>1. row.previous # row.next
      BY <1>5, <2>3 DEF Evaluate, Storable
    <3>2. row.previous = StateOf(q)
      BY <1>5, <2>3 DEF Evaluate
    <3>3. CASE RowsOf(q) = {}
      BY <2>3, <3>1, <3>2, <3>3 DEF StateOf, NextRevision
    <3>4. CASE RowsOf(q) # {}
      <4>1. Latest(q) \in RowsOf(q)
        BY <2>2, <3>4, LatestIsNewest DEF IInv
      <4>2. /\ Latest(q) \in rows /\ Latest(q).question = q
            /\ Latest(q).revision \in Nat
        BY <4>1 DEF RowsOf, IInv, TypeOK, RouteOK, Rows
      <4>3. row.revision = Latest(q).revision + 1 /\ row.previous = Latest(q).next
        BY <2>3, <3>2, <3>4 DEF StateOf, NextRevision
      <4> HIDE DEF row
      <4> QED
        BY <3>1, <4>2, <4>3
    <3> QED
      BY <3>3, <3>4
  <2>7. \A r \in rows : r.sequence < row.sequence
    BY <2>3 DEF IInv, SequencesDrawn
  <2>8. StatementsContinue'
    <3> HIDE DEF new, row
    <3> QED
      BY <1>1, <2>1, <2>3, <2>4, <2>6, <2>7 DEF IInv, StatementsContinue
  <2> QED
    BY <2>5, <2>8
<1> QED
  BY <1>2, <1>3, <1>4, <1>5 DEF TableInv

LEMMA TablePreserved == IInv /\ [Next]_vars => TableInv'
BY StepKinds, InsertKeepsTable, OthersKeepTable

----------------------------------------------------------------------------
(* Types *)

LEMMA NextRevisionIsNat ==
  ASSUME IInv, NEW q \in Questions
  PROVE  NextRevision(q) \in Nat
<1>1. CASE RowsOf(q) = {}
  BY <1>1 DEF NextRevision
<1>2. CASE RowsOf(q) # {}
  <2>1. Latest(q) \in RowsOf(q)
    BY <1>2, LatestIsNewest DEF IInv
  <2>2. Latest(q).revision \in Nat
    BY <2>1 DEF RowsOf, IInv, TypeOK, RouteOK, Rows
  <2> QED
    BY <1>2, <2>2 DEF NextRevision
<1> QED
  BY <1>1, <1>2

LEMMA StateIsAState ==
  ASSUME IInv, NEW q \in Questions
  PROVE  StateOf(q) \in States
<1>1. CASE RowsOf(q) = {}
  BY <1>1, SeededAssumption DEF StateOf
<1>2. CASE RowsOf(q) # {}
  <2>1. Latest(q) \in RowsOf(q)
    BY <1>2, LatestIsNewest DEF IInv
  <2> QED
    BY <1>2, <2>1 DEF StateOf, RowsOf, IInv, TypeOK, RouteOK, Rows
<1> QED
  BY <1>1, <1>2

LEMMA TypePreserved == IInv /\ [Next]_vars => TypeOK'
<1> SUFFICES ASSUME IInv, [Next]_vars PROVE TypeOK'
  OBVIOUS
<1> USE DEF TypeOK, RouteOK
<1>0. TypeOK
  BY DEF IInv
<1>1. ASSUME NEW c \in Callers, NEW r \in Requests, Call(c, r) PROVE TypeOK'
  <2>1. StateOf(r.question) \in States
    BY StateIsAState DEF Requests
  <2> QED
    BY <1>0, <1>1, <2>1 DEF Call, Ask, Answers, Plain
<1>2. ASSUME NEW c \in Callers, RefuseInvalid(c) PROVE TypeOK'
  BY <1>0, <1>2 DEF RefuseInvalid, Refuse, Reply, Answers, Plain
<1>3. ASSUME NEW c \in Callers, Evaluate(c) PROVE TypeOK'
  <2>1. request[c] \in Requests
    BY <1>0, <1>3 DEF Evaluate
  <2>2. NextRevision(request[c].question) \in Nat
    BY <2>1, NextRevisionIsNat DEF Requests
  <2>3. NewRow(request[c]) \in Rows
    BY <1>0, <2>1, <2>2 DEF NewRow, Rows, Requests
  <2>4. [caller |-> c, awaited |-> TRUE, row |-> NewRow(request[c])] \in Statements
    BY <2>3 DEF Statements
  <2>5. statements' \subseteq Statements
    BY <1>0, <1>3, <2>4 DEF Evaluate
  <2>6. nextSequence' \in Nat \ {0}
    BY <1>0, <1>3 DEF Evaluate
  <2> QED
    BY <1>0, <1>3, <2>1, <2>5, <2>6 DEF Evaluate
<1>4. ASSUME NEW c \in Callers, RefuseMoved(c) PROVE TypeOK'
  BY <1>0, <1>4 DEF RefuseMoved
<1>5. ASSUME NEW st \in statements, Insert(st.row)
      PROVE  rows' \subseteq Rows /\ held' \in [Callers -> SUBSET States]
  <2>1. st.row \in Rows /\ st.row.next \in States
    BY <1>0 DEF Statements, Rows
  <2> QED
    BY <1>0, <1>5, <2>1 DEF Insert
<1>6. ASSUME NEW c \in Callers, Commit(c) PROVE TypeOK'
  <2>1. PICK st \in statements :
          /\ Insert(st.row) /\ statements' = statements \ {st}
          /\ Reply(c, Applied(st.row.next)) /\ UNCHANGED <<nextSequence, request>>
    BY <1>6 DEF Commit
  <2>2. Applied(st.row.next) \in Answers
    BY <1>0 DEF Statements, Rows, Applied, Answers
  <2>3. rows' \subseteq Rows /\ held' \in [Callers -> SUBSET States]
    BY <1>5, <2>1
  <2>4. /\ phase' \in [Callers -> {"idle", "called", "inserting", "stale"}]
        /\ answer' \in [Callers -> Answers]
        /\ \A d \in Callers : phase'[d] # "idle" => request'[d] \in Requests
    BY <1>0, <2>1, <2>2 DEF Reply
  <2> QED
    BY <1>0, <2>1, <2>3, <2>4
<1>7. ASSUME NEW c \in Callers, Collide(c) PROVE TypeOK'
  BY <1>0, <1>7 DEF Collide
<1>8. ASSUME NEW c \in Callers, ReadBack(c) PROVE TypeOK'
  <2>1. Stale(StateOf(request[c].question)) \in Answers
    BY <1>0, <1>8, StateIsAState DEF ReadBack, Requests, Stale, Answers
  <2> QED
    BY <1>0, <1>8, <2>1 DEF ReadBack, Reply
<1>9. ASSUME NEW c \in Callers, Fail(c) PROVE TypeOK'
  BY <1>0, <1>9 DEF Fail, Reply, Answers, Plain
<1>10. ASSUME NEW c \in Callers, Abandon(c) PROVE TypeOK'
  <2>1. PICK st \in statements :
          statements' = (statements \ {st}) \cup {[st EXCEPT !.awaited = FALSE]}
    BY <1>10 DEF Abandon
  <2>2. st \in Statements
    BY <1>0
  <2>3. [st EXCEPT !.awaited = FALSE] \in Statements
    BY <2>2 DEF Statements
  <2>4. statements' \subseteq Statements
    BY <1>0, <2>1, <2>3
  <2> QED
    BY <1>0, <1>10, <2>4 DEF Abandon, Reply, Answers, Plain
<1>11. ASSUME CommitAbandoned PROVE TypeOK'
  <2>1. PICK st \in statements :
          /\ Insert(st.row) /\ statements' = statements \ {st}
          /\ UNCHANGED <<nextSequence, phase, request, answer>>
    BY <1>11 DEF CommitAbandoned
  <2>2. rows' \subseteq Rows /\ held' \in [Callers -> SUBSET States]
    BY <1>5, <2>1
  <2> QED
    BY <1>0, <2>1, <2>2
<1>12. ASSUME DropAbandoned PROVE TypeOK'
  BY <1>0, <1>12 DEF DropAbandoned
<1>13. ASSUME UNCHANGED vars PROVE TypeOK'
  BY <1>0, <1>13 DEF vars
<1> QED
  BY <1>1, <1>2, <1>3, <1>4, <1>6, <1>7, <1>8, <1>9, <1>10, <1>11, <1>12, <1>13 DEF Next

----------------------------------------------------------------------------
(* Calls *)

LEMMA RequestsPreserved == IInv /\ [Next]_vars => StatementsAreRequests'
<1> SUFFICES ASSUME IInv, [Next]_vars PROVE StatementsAreRequests'
  OBVIOUS
<1> USE DEF StatementsAreRequests
<1>0. StatementsAreRequests /\ TypeOK
  BY DEF IInv
<1>1. ASSUME NEW c \in Callers, phase[c] # "inserting", statements' = statements,
             \A d \in Callers \ {c} : phase'[d] = phase[d] /\ request'[d] = request[d]
      PROVE  StatementsAreRequests'
  <2>1. \A st \in statements : st.awaited => st.caller \in Callers \ {c}
    BY <1>0, <1>1 DEF TypeOK, RouteOK, Statements
  <2> QED
    BY <1>0, <1>1, <2>1
<1>2. ASSUME NEW c \in Callers,
             \/ \E r \in Requests : Call(c, r)
             \/ RefuseInvalid(c) \/ RefuseMoved(c) \/ ReadBack(c)
      PROVE  StatementsAreRequests'
  <2>1. phase[c] # "inserting" /\ statements' = statements
    BY <1>2 DEF Call, Ask, RefuseInvalid, Refuse, RefuseMoved, ReadBack
  <2>2. \A d \in Callers \ {c} : phase'[d] = phase[d] /\ request'[d] = request[d]
    BY <1>0, <1>2
       DEF Call, Ask, RefuseInvalid, Refuse, RefuseMoved, ReadBack, Reply, TypeOK, RouteOK
  <2> QED
    BY <1>1, <2>1, <2>2
<1>3. ASSUME NEW c \in Callers, Evaluate(c) PROVE StatementsAreRequests'
  <2> DEFINE row == NewRow(request[c])
             new == [caller |-> c, awaited |-> TRUE, row |-> row]
  <2>1. /\ new.caller = c /\ new.awaited /\ new.row = row
        /\ row.question = request[c].question
        /\ row.previous = request[c].expected /\ row.next = request[c].next
    BY DEF NewRow
  <2>2. statements' = statements \cup {new} /\ request' = request
    BY <1>3 DEF Evaluate
  <2>3. phase'[c] = "inserting" /\ \A d \in Callers \ {c} : phase'[d] = phase[d]
    BY <1>0, <1>3 DEF Evaluate, TypeOK, RouteOK
  <2>4. \A st \in statements : st.awaited => st.caller \in Callers \ {c}
    BY <1>0, <1>3 DEF Evaluate, TypeOK, RouteOK, Statements
  <2> HIDE DEF new, row
  <2> QED
    BY <1>0, <2>1, <2>2, <2>3, <2>4
<1>4. ASSUME NEW c \in Callers, request' = request,
             \A d \in Callers \ {c} : phase'[d] = phase[d],
             \A tt \in statements' : tt.awaited => tt \in statements /\ tt.caller # c
      PROVE  StatementsAreRequests'
  BY <1>0, <1>4 DEF TypeOK, RouteOK, Statements
<1>5. ASSUME NEW c \in Callers, Commit(c) \/ Collide(c)
      PROVE  StatementsAreRequests'
  <2>1. PICK st \in statements :
          st.caller = c /\ st.awaited /\ statements' = statements \ {st}
    BY <1>5 DEF Commit, Collide
  <2>2. request' = request /\ \A d \in Callers \ {c} : phase'[d] = phase[d]
    BY <1>0, <1>5 DEF Commit, Collide, Reply, TypeOK, RouteOK
  <2> QED
    BY <1>0, <1>4, <2>1, <2>2
<1>6. ASSUME NEW c \in Callers, Fail(c) PROVE StatementsAreRequests'
  <2>1. request' = request /\ \A d \in Callers \ {c} : phase'[d] = phase[d]
    BY <1>0, <1>6 DEF Fail, Reply, TypeOK, RouteOK
  <2>2. \A tt \in statements' : tt.awaited => tt \in statements /\ tt.caller # c
    BY <1>6 DEF Fail
  <2> QED
    BY <1>4, <2>1, <2>2
<1>7. ASSUME NEW c \in Callers, Abandon(c) PROVE StatementsAreRequests'
  <2>1. PICK st \in statements :
          /\ st.caller = c /\ st.awaited
          /\ statements' = (statements \ {st}) \cup {[st EXCEPT !.awaited = FALSE]}
    BY <1>7 DEF Abandon
  <2>2. PICK un : un = [st EXCEPT !.awaited = FALSE]
    OBVIOUS
  <2>3. ~un.awaited
    BY <1>0, <2>2 DEF TypeOK, RouteOK, Statements
  <2>4. statements' = (statements \ {st}) \cup {un}
    BY <2>1, <2>2
  <2>5. request' = request /\ \A d \in Callers \ {c} : phase'[d] = phase[d]
    BY <1>0, <1>7 DEF Abandon, Reply, TypeOK, RouteOK
  <2> QED
    BY <1>0, <1>4, <2>1, <2>3, <2>4, <2>5
<1>8. ASSUME CommitAbandoned \/ DropAbandoned \/ UNCHANGED vars
      PROVE  StatementsAreRequests'
  BY <1>0, <1>8 DEF CommitAbandoned, DropAbandoned, vars
<1> QED
  BY <1>2, <1>3, <1>5, <1>6, <1>7, <1>8 DEF Next

\* The key an insert is evaluated with is free at that moment.
LEMMA NewRowIsFree ==
  ASSUME IInv, NEW r \in Requests
  PROVE  ~KeyTaken(NewRow(r))
<1> DEFINE q == r.question
<1> SUFFICES ASSUME NEW s \in rows, s.question = q, s.revision = NextRevision(q)
             PROVE  FALSE
  BY DEF KeyTaken, NewRow
<1>1. q \in Questions /\ s \in RowsOf(q)
  BY DEF Requests, RowsOf
<1>2. s.revision <= Latest(q).revision /\ Latest(q) \in RowsOf(q)
  BY <1>1, LatestIsNewest DEF IInv
<1>3. s.revision \in Nat /\ Latest(q).revision \in Nat
  BY <1>2 DEF RowsOf, IInv, TypeOK, RouteOK, Rows
<1> QED
  BY <1>1, <1>2, <1>3 DEF NextRevision

\* What CallsWitness says of one caller.
Witnesses(c) ==
  /\ phase[c] # "idle" => StateOf(request[c].question) \in held[c]
  /\ phase[c] \in {"inserting", "stale"} => Storable(request[c])
  /\ phase[c] = "stale" => \E s \in held[c] : s # request[c].expected
  /\ \A st \in statements :
       st.awaited /\ st.caller = c /\ KeyTaken(st.row)
         => \E s \in held[c] : s # request[c].expected

\* A caller the step does not touch, while the rows stay: nothing to re-establish.
LEMMA WitnessKept ==
  ASSUME NEW d, Witnesses(d), rows' = rows, phase'[d] = phase[d],
         request'[d] = request[d], held'[d] = held[d],
         \A st \in statements' : st.awaited /\ st.caller = d => st \in statements
  PROVE  Witnesses(d)'
<1>1. \A q : StateOf(q)' = StateOf(q)
  BY DEF StateOf, Latest, RowsOf
<1>2. \A row : KeyTaken(row)' = KeyTaken(row)
  BY DEF KeyTaken
<1> QED
  BY <1>1, <1>2 DEF Witnesses

LEMMA WitnessPreserved == IInv /\ [Next]_vars => CallsWitness'
<1> SUFFICES ASSUME IInv, [Next]_vars, NEW d \in Callers PROVE Witnesses(d)'
  BY DEF CallsWitness, Witnesses
<1>0. TypeOK /\ StatementsAreRequests /\ Witnesses(d)
  BY DEF IInv, CallsWitness, Witnesses
<1>1. ASSUME rows' = rows PROVE \A q : StateOf(q)' = StateOf(q)
  BY <1>1 DEF StateOf, Latest, RowsOf
<1>2. ASSUME rows' = rows PROVE \A row : KeyTaken(row)' = KeyTaken(row)
  BY <1>2 DEF KeyTaken
<1>3. ASSUME NEW c \in Callers, NEW r \in Requests, Call(c, r) PROVE Witnesses(d)'
  <2>1. rows' = rows /\ statements' = statements
    BY <1>3 DEF Call, Ask
  <2>2. CASE d # c
    BY <1>0, <1>3, <2>1, <2>2, WitnessKept DEF Call, Ask, TypeOK, RouteOK
  <2>3. CASE d = c
    <3>1. phase'[d] = "called" /\ request'[d] = r /\ held'[d] = {StateOf(r.question)}
      BY <1>0, <1>3, <2>3 DEF Call, Ask, TypeOK, RouteOK
    <3>2. \A st \in statements : ~(st.awaited /\ st.caller = d)
      BY <1>0, <1>3, <2>3 DEF Call, Ask, StatementsAreRequests
    <3> QED
      BY <1>1, <2>1, <3>1, <3>2 DEF Witnesses
  <2> QED
    BY <2>2, <2>3
<1>4. ASSUME NEW c \in Callers, Evaluate(c) PROVE Witnesses(d)'
  <2> DEFINE new == [caller |-> c, awaited |-> TRUE, row |-> NewRow(request[c])]
  <2>1. /\ rows' = rows /\ request' = request /\ held' = held
        /\ statements' = statements \cup {new}
        /\ Storable(request[c]) /\ request[c] \in Requests
    BY <1>0, <1>4 DEF Evaluate, TypeOK, RouteOK
  <2>2. new.caller = c /\ new.row = NewRow(request[c])
    OBVIOUS
  <2>3. ~KeyTaken(new.row)
    BY <2>1, <2>2, NewRowIsFree
  <2> HIDE DEF new
  <2>4. CASE d # c
    BY <1>0, <1>4, <2>1, <2>2, <2>4, WitnessKept DEF Evaluate, TypeOK, RouteOK
  <2>5. CASE d = c
    <3>1. phase[d] = "called" /\ phase'[d] = "inserting"
      BY <1>0, <1>4, <2>5 DEF Evaluate, TypeOK, RouteOK
    <3> QED
      BY <1>0, <1>1, <1>2, <2>1, <2>3, <2>5, <3>1 DEF Witnesses
  <2> QED
    BY <2>4, <2>5
<1>5. ASSUME NEW c \in Callers, RefuseMoved(c) PROVE Witnesses(d)'
  <2>1. /\ rows' = rows /\ request' = request /\ held' = held /\ statements' = statements
        /\ Storable(request[c])
        /\ StateOf(request[c].question) # request[c].expected
    BY <1>5 DEF RefuseMoved
  <2>2. CASE d # c
    BY <1>0, <1>5, <2>1, <2>2, WitnessKept DEF RefuseMoved, TypeOK, RouteOK
  <2>3. CASE d = c
    <3>1. phase[d] = "called" /\ phase'[d] = "stale"
      BY <1>0, <1>5, <2>3 DEF RefuseMoved, TypeOK, RouteOK
    <3> QED
      BY <1>0, <1>1, <1>2, <2>1, <2>3, <3>1 DEF Witnesses
  <2> QED
    BY <2>2, <2>3
<1>6. ASSUME NEW c \in Callers, Collide(c) PROVE Witnesses(d)'
  <2>1. PICK st \in statements :
          /\ st.caller = c /\ st.awaited /\ phase[c] = "inserting" /\ KeyTaken(st.row)
          /\ statements' = statements \ {st} /\ phase' = [phase EXCEPT ![c] = "stale"]
          /\ rows' = rows /\ request' = request /\ held' = held
    BY <1>6 DEF Collide
  <2>2. CASE d # c
    BY <1>0, <2>1, <2>2, WitnessKept DEF TypeOK, RouteOK
  <2>3. CASE d = c
    <3>1. phase'[d] = "stale"
      BY <1>0, <2>1, <2>3 DEF TypeOK, RouteOK
    <3> QED
      BY <1>0, <1>1, <1>2, <2>1, <2>3, <3>1 DEF Witnesses
  <2> QED
    BY <2>2, <2>3
<1>7. ASSUME NEW c \in Callers, phase' = [phase EXCEPT ![c] = "idle"],
             rows' = rows, request' = request, held' = held,
             \A st \in statements' : st.awaited => st \in statements
      PROVE  Witnesses(d)'
  <2>1. CASE d # c
    BY <1>0, <1>7, <2>1, WitnessKept DEF TypeOK, RouteOK
  <2>2. CASE d = c
    <3>1. phase'[d] = "idle"
      BY <1>0, <1>7, <2>2 DEF TypeOK, RouteOK
    <3> QED
      BY <1>0, <1>2, <1>7, <3>1 DEF Witnesses
  <2> QED
    BY <2>1, <2>2
<1>8. ASSUME NEW c \in Callers, RefuseInvalid(c) \/ ReadBack(c) \/ Fail(c)
      PROVE  Witnesses(d)'
  BY <1>7, <1>8 DEF RefuseInvalid, Refuse, ReadBack, Fail, Reply
<1>9. ASSUME NEW c \in Callers, Abandon(c) PROVE Witnesses(d)'
  <2>1. PICK st \in statements :
          statements' = (statements \ {st}) \cup {[st EXCEPT !.awaited = FALSE]}
    BY <1>9 DEF Abandon
  <2>2. PICK un : un = [st EXCEPT !.awaited = FALSE]
    OBVIOUS
  <2>3. ~un.awaited
    BY <1>0, <2>2 DEF TypeOK, RouteOK, Statements
  <2>4. \A tt \in statements' : tt.awaited => tt \in statements
    BY <2>1, <2>2, <2>3
  <2> QED
    BY <1>7, <1>9, <2>4 DEF Abandon, Reply
<1>10. ASSUME NEW st, Inserted(st), Insert(st.row), request' = request,
              \/ phase' = phase
              \/ st.awaited /\ phase' = [phase EXCEPT ![st.caller] = "idle"]
       PROVE  Witnesses(d)'
  <2> DEFINE row == st.row
  <2>1. /\ row.question \in Questions /\ row.previous # row.next
        /\ StateOf(row.question) = row.previous
    BY <1>0, <1>10, FreeKeyIsNext
       DEF Inserted, TypeOK, RouteOK, Statements, Rows, IInv, StatementsContinue
  <2>2. /\ StateOf(row.question)' = row.next
        /\ \A q \in Questions : q # row.question => StateOf(q)' = StateOf(q)
    BY <1>10, InsertMovesItsQuestion
  <2>3. /\ held[d] \subseteq held'[d]
        /\ phase[d] # "idle" /\ request[d].question = row.question => row.next \in held'[d]
    BY <1>10 DEF Insert
  <2>4. phase'[d] = phase[d] \/ phase'[d] = "idle"
    BY <1>0, <1>10 DEF TypeOK, RouteOK
  <2>5. phase[d] # "idle" => request[d].question \in Questions
    BY <1>0 DEF TypeOK, RouteOK, Requests
  <2>6. ASSUME NEW tt \in statements', tt.awaited, tt.caller = d, KeyTaken(tt.row)'
        PROVE  \E s \in held'[d] : s # request[d].expected
    <3>1. tt \in statements
      BY <1>10, <2>6 DEF Inserted
    <3>2. CASE KeyTaken(tt.row)
      BY <1>0, <2>3, <2>6, <3>1, <3>2 DEF Witnesses
    <3>3. CASE ~KeyTaken(tt.row)
      <4>1. tt.row.question = row.question
        BY <1>10, <2>6, <3>3 DEF KeyTaken, Inserted
      <4>2. StateOf(tt.row.question) = tt.row.previous
        BY <3>1, <3>3, FreeKeyIsNext
      <4>3. /\ phase[d] = "inserting" /\ request[d].question = tt.row.question
            /\ request[d].expected = tt.row.previous
        BY <1>0, <2>6, <3>1 DEF StatementsAreRequests
      <4> QED
        BY <2>1, <2>3, <4>1, <4>2, <4>3
    <3> QED
      BY <3>2, <3>3
  <2>7. PICK q : q = request[d].question
    OBVIOUS
  <2>8. request'[d] = request[d]
    BY <1>10
  <2>9. StateOf(request[d].question)' = StateOf(q)'
    BY <2>7, <2>8 DEF StateOf, Latest, RowsOf
  <2>10. phase'[d] # "idle" => StateOf(q)' \in held'[d]
    <3>1. phase'[d] # "idle" => phase[d] # "idle" /\ q \in Questions
      BY <2>4, <2>5, <2>7
    <3>2. phase[d] # "idle" => StateOf(q) \in held[d]
      BY <1>0, <2>7 DEF Witnesses
    <3> QED
      BY <2>2, <2>3, <2>7, <3>1, <3>2
  <2>11. /\ phase'[d] \in {"inserting", "stale"} => Storable(request'[d])
         /\ phase'[d] = "stale" => \E s \in held'[d] : s # request'[d].expected
    BY <1>0, <2>3, <2>4, <2>8 DEF Witnesses
  <2> QED
    BY <2>6, <2>8, <2>9, <2>10, <2>11 DEF Witnesses, Storable
<1>11. ASSUME NEW c \in Callers, Commit(c) PROVE Witnesses(d)'
  <2>1. PICK st \in statements :
          /\ st.caller = c /\ st.awaited /\ Inserted(st) /\ Insert(st.row)
          /\ request' = request /\ phase' = [phase EXCEPT ![c] = "idle"]
    BY <1>11 DEF Commit, Inserted, Insert, Reply
  <2> QED
    BY <1>10, <2>1
<1>12. ASSUME CommitAbandoned PROVE Witnesses(d)'
  <2>1. PICK st \in statements :
          Inserted(st) /\ Insert(st.row) /\ request' = request /\ phase' = phase
    BY <1>12 DEF CommitAbandoned, Inserted, Insert
  <2> QED
    BY <1>10, <2>1
<1>13. ASSUME DropAbandoned \/ UNCHANGED vars PROVE Witnesses(d)'
  BY <1>0, <1>13, WitnessKept DEF DropAbandoned, vars
<1> QED
  BY <1>3, <1>4, <1>5, <1>6, <1>8, <1>9, <1>11, <1>12, <1>13 DEF Next

\* An answered call keeps what it was told and what it saw, until it calls again.
LEMMA StalePreserved == IInv /\ [Next]_vars => StaleIsHonest'
<1> SUFFICES ASSUME IInv, [Next]_vars, NEW d \in Callers,
                    phase'[d] = "idle", answer'[d].kind = "stale"
             PROVE  /\ answer'[d].state \in held'[d]
                    /\ \E s \in held'[d] : s # request'[d].expected
  BY DEF StaleIsHonest
<1>0. TypeOK /\ Witnesses(d) /\ StaleIsHonest
  BY DEF IInv, CallsWitness, Witnesses
<1> DEFINE Honest(a, h, r) == a.state \in h /\ \E s \in h : s # r.expected
<1>1. ASSUME phase[d] = "idle", answer'[d] = answer[d], request'[d] = request[d],
             held[d] \subseteq held'[d]
      PROVE  Honest(answer'[d], held'[d], request'[d])
  BY <1>0, <1>1 DEF StaleIsHonest
<1>2. ASSUME NEW row, Insert(row) PROVE held[d] \subseteq held'[d]
  BY <1>2 DEF Insert
<1>3. ASSUME NEW c \in Callers,
             \/ \E r \in Requests : Call(c, r)
             \/ Evaluate(c) \/ RefuseMoved(c) \/ Collide(c)
      PROVE  Honest(answer'[d], held'[d], request'[d])
  <2>1. phase'[c] # "idle"
    BY <1>0, <1>3 DEF Call, Ask, Evaluate, RefuseMoved, Collide, TypeOK, RouteOK
  <2>2. d # c
    BY <2>1
  <2> QED
    BY <1>0, <1>1, <1>3, <2>2 DEF Call, Ask, Evaluate, RefuseMoved, Collide, TypeOK, RouteOK
<1>4. ASSUME NEW c \in Callers, NEW a \in Answers, Reply(c, a), request' = request,
             held[d] \subseteq held'[d], c = d => a.kind # "stale"
      PROVE  Honest(answer'[d], held'[d], request'[d])
  <2>1. d # c
    BY <1>0, <1>4 DEF Reply, TypeOK, RouteOK
  <2> QED
    BY <1>0, <1>1, <1>4, <2>1 DEF Reply, TypeOK, RouteOK
<1>5. Plain("invalid") \in Answers /\ Plain("invalid").kind = "invalid"
  BY DEF Answers, Plain
<1>6. Plain("unavailable") \in Answers /\ Plain("unavailable").kind = "unavailable"
  BY DEF Answers, Plain
<1>7. \A s \in States : Applied(s) \in Answers /\ Applied(s).kind = "applied"
  BY DEF Answers, Applied
<1>8. ASSUME NEW c \in Callers, RefuseInvalid(c) \/ Fail(c) \/ Abandon(c)
      PROVE  Honest(answer'[d], held'[d], request'[d])
  BY <1>4, <1>5, <1>6, <1>8 DEF RefuseInvalid, Refuse, Fail, Abandon
<1>9. ASSUME NEW c \in Callers, Commit(c)
      PROVE  Honest(answer'[d], held'[d], request'[d])
  <2>1. PICK st \in statements :
          Insert(st.row) /\ Reply(c, Applied(st.row.next)) /\ request' = request
    BY <1>9 DEF Commit
  <2>2. st.row.next \in States
    BY <1>0 DEF TypeOK, RouteOK, Statements, Rows
  <2> QED
    BY <1>2, <1>4, <1>7, <2>1, <2>2
<1>10. ASSUME NEW c \in Callers, ReadBack(c)
       PROVE  Honest(answer'[d], held'[d], request'[d])
  <2>1. /\ phase[c] = "stale" /\ request' = request /\ held' = held
        /\ answer' = [answer EXCEPT ![c] = Stale(StateOf(request[c].question))]
        /\ phase' = [phase EXCEPT ![c] = "idle"]
    BY <1>10 DEF ReadBack, Reply
  <2>2. CASE d # c
    BY <1>0, <1>1, <2>1, <2>2 DEF TypeOK, RouteOK
  <2>3. CASE d = c
    <3>1. answer'[d].state = StateOf(request[d].question)
      BY <1>0, <2>1, <2>3 DEF Stale, TypeOK, RouteOK
    <3> QED
      BY <1>0, <2>1, <2>3, <3>1 DEF Witnesses
  <2> QED
    BY <2>2, <2>3
<1>11. ASSUME CommitAbandoned PROVE Honest(answer'[d], held'[d], request'[d])
  BY <1>1, <1>2, <1>11 DEF CommitAbandoned
<1>12. ASSUME DropAbandoned \/ UNCHANGED vars
       PROVE  Honest(answer'[d], held'[d], request'[d])
  BY <1>1, <1>12 DEF DropAbandoned, vars
<1> QED
  BY <1>3, <1>8, <1>9, <1>10, <1>11, <1>12 DEF Next

----------------------------------------------------------------------------
(* The theorems *)

LEMMA InitInv == Init => IInv
<1> SUFFICES ASSUME Init PROVE IInv
  OBVIOUS
<1> USE DEF Init, NothingAsked
<1>1. TypeOK
  <2>1. Plain("none") \in Answers
    BY DEF Answers, Plain
  <2> QED
    BY <2>1 DEF TypeOK, RouteOK
<1>2. HistoryIsAChain /\ SequenceOrdersHistory /\ Complete /\ SequencesDrawn
  BY DEF HistoryIsAChain, SequenceOrdersHistory, Complete, SequencesDrawn
<1>3. HasLatest
  BY DEF HasLatest, RowsOf
<1>4. StatementsContinue /\ StatementsAreRequests
  BY DEF StatementsContinue, StatementsAreRequests
<1>5. CallsWitness
  BY DEF CallsWitness
<1>6. StaleIsHonest
  BY DEF StaleIsHonest, Plain
<1> QED
  BY <1>1, <1>2, <1>3, <1>4, <1>5, <1>6 DEF IInv

LEMMA InvStep == IInv /\ [Next]_vars => IInv'
  BY TablePreserved, TypePreserved, RequestsPreserved, WitnessPreserved, StalePreserved
     DEF IInv, TableInv

\* The inductive invariant holds in every reachable state.
THEOREM Invariant == Spec => []IInv
  BY InitInv, InvStep, PTL DEF Spec

\* The type invariant of the table, the statements in flight and the calls.
THEOREM TypeCorrect == Spec => []TypeOK
<1>1. IInv => TypeOK
  BY DEF IInv
<1> QED
  BY <1>1, Invariant, PTL

\* Whatever concurrent inserts, lost connections and abandoned statements do, the rows
\* of a question are one chain, kept so by the unique key alone.
THEOREM ChainKept == Spec => []HistoryIsAChain
<1>1. IInv => HistoryIsAChain
  BY DEF IInv
<1> QED
  BY <1>1, Invariant, PTL

\* history() and snapshot() can never disagree about the order of a question's rows.
THEOREM OrdersAgree == Spec => []SequenceOrdersHistory
<1>1. IInv => SequenceOrdersHistory
  BY DEF IInv
<1> QED
  BY <1>1, Invariant, PTL

\* Every 409 names a state that held during the call, and the expectation was wrong.
THEOREM StaleAnswersHonest == Spec => []StaleIsHonest
<1>1. IInv => StaleIsHonest
  BY DEF IInv
<1> QED
  BY <1>1, Invariant, PTL

----------------------------------------------------------------------------
(***************************************************************************)
(* The table implements the register: initial states map to initial        *)
(* states, every step maps to a step of LifecycleRegister or a stutter.    *)
(***************************************************************************)

\* The substitutions of the instance Register, by name.
RState == [q \in Questions |-> StateOf(q)]
RPhase == [c \in Callers |-> IF phase[c] = "idle" THEN "idle" ELSE "called"]
RequestOf(st) == [question |-> st.row.question, expected |-> st.row.previous,
                  next |-> st.row.next]
Entry(st) == [id |-> st.row.sequence, request |-> RequestOf(st)]
RLate == {Entry(st) : st \in {x \in statements : ~x.awaited}}

RVars == <<RState, RPhase, request, answer, held, RLate>>

----------------------------------------------------------------------------
(* How the mapped variables move *)

LEMMA StateKept ==
  ASSUME rows' = rows
  PROVE  RState' = RState
  BY DEF RState, StateOf, Latest, RowsOf

LEMMA PhaseMoves ==
  ASSUME NEW steps, RouteOK(steps), NEW c \in Callers, NEW v,
         phase' = [phase EXCEPT ![c] = v]
  PROVE  RPhase' = [RPhase EXCEPT ![c] = IF v = "idle" THEN "idle" ELSE "called"]
  BY DEF RPhase, RouteOK

\* Steps between the call and the answer are invisible.
LEMMA PhaseKept ==
  ASSUME NEW steps, RouteOK(steps), NEW c \in Callers, NEW v,
         phase' = [phase EXCEPT ![c] = v], phase[c] # "idle", v # "idle"
  PROVE  RPhase' = RPhase
  BY DEF RPhase, RouteOK

LEMMA LateKept ==
  ASSUME {x \in statements : ~x.awaited}' = {x \in statements : ~x.awaited}
  PROVE  RLate' = RLate
  BY DEF RLate

\* An insert is the compare-and-set of the request its row came from.
LEMMA InsertIsChange ==
  ASSUME IInv, NEW st, Inserted(st), Insert(st.row)
  PROVE  Register!Change(RequestOf(st))
<1>1. /\ st.row.question \in Questions /\ st.row.previous # st.row.next
      /\ StateOf(st.row.question) = st.row.previous
  BY FreeKeyIsNext
     DEF Inserted, IInv, TypeOK, RouteOK, Statements, Rows, StatementsContinue
<1>2. /\ StateOf(st.row.question)' = st.row.next
      /\ \A q \in Questions : q # st.row.question => StateOf(q)' = StateOf(q)
  BY InsertMovesItsQuestion
<1>3. RState' = [RState EXCEPT ![st.row.question] = st.row.next]
  BY <1>1, <1>2 DEF RState
<1>4. held' = [d \in Callers |->
                 IF RPhase[d] # "idle" /\ request[d].question = st.row.question
                   THEN held[d] \cup {st.row.next} ELSE held[d]]
  BY DEF Insert, RPhase
<1>5. /\ RequestOf(st).question = st.row.question
      /\ RequestOf(st).expected = st.row.previous /\ RequestOf(st).next = st.row.next
  BY DEF RequestOf
<1>6. RState[st.row.question] = st.row.previous
  BY <1>1 DEF RState
<1> HIDE DEF RequestOf
<1> QED
  BY <1>1, <1>3, <1>4, <1>5, <1>6 DEF Register!Change, RState, RPhase

\* A statement without a caller ends: its entry, and no other, leaves "late".
LEMMA LateShrinks ==
  ASSUME IInv, NEW st \in statements, ~st.awaited, statements' = statements \ {st}
  PROVE  Entry(st) \in RLate /\ RLate' = RLate \ {Entry(st)}
<1>1. Entry(st) \in RLate
  BY DEF RLate
<1>2. \A tt \in statements : Entry(tt) = Entry(st) => tt = st
  <2>1. \A tt \in statements : Entry(tt).id = tt.row.sequence
    BY DEF Entry
  <2> QED
    BY <2>1 DEF IInv, SequencesDrawn
<1> HIDE DEF Entry
<1>3. RLate' = {Entry(x) : x \in {y \in statements \ {st} : ~y.awaited}}
  BY DEF RLate
<1> QED
  BY <1>1, <1>2, <1>3 DEF RLate

----------------------------------------------------------------------------
(* The steps, one by one *)

LEMMA InitMaps == Init => Register!Init
<1> SUFFICES ASSUME Init PROVE Register!Init
  OBVIOUS
<1>1. RState = Seeded
  BY SeededAssumption DEF Init, NothingAsked, RState, StateOf, RowsOf
<1>2. RPhase = [c \in Callers |-> "idle"]
  BY DEF Init, NothingAsked, RPhase
<1>3. RLate = {}
  BY DEF Init, NothingAsked, RLate
<1> QED
  BY <1>1, <1>2, <1>3
     DEF Init, NothingAsked, Register!Init, RState, RPhase, RLate, Entry, RequestOf,
         Plain, Register!Plain

LEMMA CallMaps ==
  ASSUME IInv, NEW c \in Callers, NEW r \in Requests, Call(c, r)
  PROVE  Register!Call(c, r)
<1>1. RState' = RState /\ RLate' = RLate
  BY StateKept, LateKept DEF Call, Ask
<1>2. RPhase' = [RPhase EXCEPT ![c] = "called"] /\ RPhase[c] = "idle"
  BY PhaseMoves DEF Call, Ask, IInv, RPhase, TypeOK
<1>3. RState[r.question] = StateOf(r.question)
  BY DEF RState, Requests
<1> QED
  BY <1>1, <1>2, <1>3
     DEF Call, Ask, Register!Call, RState, RPhase, RLate, Entry, RequestOf, Plain,
         Register!Plain

\* The reply of the route is the answer of the register.
LEMMA ReplyMaps ==
  ASSUME IInv, NEW c \in Callers, NEW a, Reply(c, a), phase[c] # "idle",
         request' = request
  PROVE  Register!Finish(c, a)
<1>1. RPhase' = [RPhase EXCEPT ![c] = "idle"] /\ RPhase[c] = "called"
  BY PhaseMoves DEF Reply, IInv, RPhase, TypeOK
<1> QED
  BY <1>1 DEF Reply, Register!Finish, RPhase

LEMMA RefuseInvalidMaps ==
  ASSUME IInv, NEW c \in Callers, RefuseInvalid(c)
  PROVE  Register!AnswerInvalid(c)
<1>1. RState' = RState /\ RLate' = RLate
  BY StateKept, LateKept DEF RefuseInvalid, Refuse
<1>2. Register!Finish(c, Plain("invalid"))
  BY ReplyMaps DEF RefuseInvalid, Refuse
<1> QED
  BY <1>1, <1>2
     DEF RefuseInvalid, Refuse, Register!AnswerInvalid, Storable, RState, RLate, Entry,
         RequestOf, Plain, Register!Plain

LEMMA CommitMaps ==
  ASSUME IInv, NEW c \in Callers, Commit(c)
  PROVE  Register!AnswerApplied(c)
<1>1. PICK st \in statements :
        /\ st.caller = c /\ st.awaited /\ phase[c] = "inserting"
        /\ Inserted(st) /\ Insert(st.row) /\ Reply(c, Applied(st.row.next))
        /\ request' = request /\ statements' = statements \ {st}
  BY DEF Commit, Inserted, Insert
<1>2. Register!Change(RequestOf(st))
  BY <1>1, InsertIsChange
<1>3. RequestOf(st) = request[c]
  <2>1. request[c] \in Requests
    BY <1>1 DEF IInv, TypeOK, RouteOK
  <2> QED
    BY <1>1, <2>1 DEF RequestOf, Requests, IInv, StatementsAreRequests
<1>4. RLate' = RLate
  BY <1>1, LateKept
<1>5. Register!Finish(c, Applied(st.row.next))
  BY <1>1, ReplyMaps
<1>6. st.row.next = request[c].next
  BY <1>1 DEF IInv, StatementsAreRequests
<1>7. Register!Finish(c, Register!Applied(request[c].next))
  BY <1>5, <1>6 DEF Register!Finish, Applied, Register!Applied
<1>8. Register!Change(request[c])
  BY <1>2, <1>3 DEF Register!Change
<1> QED
  BY <1>4, <1>7, <1>8 DEF Register!AnswerApplied, RLate, Entry, RequestOf

LEMMA ReadBackMaps ==
  ASSUME IInv, NEW c \in Callers, ReadBack(c)
  PROVE  Register!AnswerStale(c)
<1>1. RState' = RState /\ RLate' = RLate
  BY StateKept, LateKept DEF ReadBack
<1>2. /\ StateOf(request[c].question) \in held[c]
      /\ \E s \in held[c] : s # request[c].expected
  BY DEF ReadBack, IInv, CallsWitness
<1>3. PICK s : s = StateOf(request[c].question)
  OBVIOUS
<1>4. Reply(c, Stale(s))
  BY <1>3 DEF ReadBack, Reply
<1>5. Register!Finish(c, Stale(s))
  BY <1>4, ReplyMaps DEF ReadBack
<1> QED
  BY <1>1, <1>2, <1>3, <1>5
     DEF ReadBack, Register!AnswerStale, RState, RLate, Entry, RequestOf, Stale,
         Register!Stale

LEMMA FailMaps ==
  ASSUME IInv, NEW c \in Callers, Fail(c)
  PROVE  Register!AnswerUnavailable(c)
<1>1. RState' = RState
  BY StateKept DEF Fail
<1>2. RLate' = RLate
  BY LateKept DEF Fail
<1>3. Register!Finish(c, Plain("unavailable"))
  BY ReplyMaps DEF Fail
<1> QED
  BY <1>1, <1>2, <1>3
     DEF Fail, Register!AnswerUnavailable, RState, RLate, Entry, RequestOf, Plain,
         Register!Plain

LEMMA AbandonMaps ==
  ASSUME IInv, NEW c \in Callers, Abandon(c)
  PROVE  Register!AnswerUnavailable(c)
<1>1. PICK st \in statements :
        /\ st.caller = c /\ st.awaited /\ phase[c] = "inserting"
        /\ statements' = (statements \ {st}) \cup {[st EXCEPT !.awaited = FALSE]}
        /\ Reply(c, Plain("unavailable"))
        /\ rows' = rows /\ request' = request /\ held' = held
  BY DEF Abandon
<1>2. PICK un : un = [st EXCEPT !.awaited = FALSE]
  OBVIOUS
<1>3. ~un.awaited /\ un.row = st.row
  BY <1>2 DEF IInv, TypeOK, RouteOK, Statements
<1>4. statements' = (statements \ {st}) \cup {un}
  BY <1>1, <1>2
<1>5. Entry(un) = Entry(st)
  BY <1>3 DEF Entry, RequestOf
<1>6. RLate' = RLate \cup {Entry(st)}
  <2> HIDE DEF Entry
  <2> QED
    BY <1>1, <1>3, <1>4, <1>5 DEF RLate
<1>7. Entry(st).request = request[c]
  <2>1. request[c] \in Requests
    BY <1>1 DEF IInv, TypeOK, RouteOK
  <2> QED
    BY <1>1, <2>1 DEF Entry, RequestOf, Requests, IInv, StatementsAreRequests
<1>8. \E e \in RLate' : e.request = request[c] /\ RLate' = RLate \cup {e}
  BY <1>6, <1>7
<1>9. RState' = RState
  BY <1>1, StateKept
<1>10. Register!Finish(c, Plain("unavailable"))
  BY <1>1, ReplyMaps
<1> QED
  BY <1>1, <1>8, <1>9, <1>10
     DEF Register!AnswerUnavailable, RState, RLate, Entry, RequestOf, Plain,
         Register!Plain

LEMMA LateMaps ==
  ASSUME IInv, CommitAbandoned \/ DropAbandoned
  PROVE  \E e \in RLate : Register!LateEffect(e)
<1>1. PICK st \in statements :
        /\ ~st.awaited /\ statements' = statements \ {st}
        /\ phase' = phase /\ request' = request /\ answer' = answer
        /\ \/ Inserted(st) /\ Insert(st.row)
           \/ rows' = rows /\ held' = held
  BY DEF CommitAbandoned, DropAbandoned, Inserted, Insert
<1>2. Entry(st) \in RLate /\ RLate' = RLate \ {Entry(st)}
  BY <1>1, LateShrinks
<1>3. Entry(st).request = RequestOf(st)
  BY DEF Entry
<1>4. Register!Change(Entry(st).request) \/ (RState' = RState /\ held' = held)
  BY <1>1, <1>3, InsertIsChange, StateKept
<1>5. RPhase' = RPhase
  BY <1>1 DEF RPhase
<1>6. Register!LateEffect(Entry(st))
  BY <1>1, <1>2, <1>4, <1>5
     DEF Register!LateEffect, RState, RPhase, RLate, Entry, RequestOf
<1> QED
  BY <1>2, <1>6

\* Evaluating, being refused and colliding do not show.
LEMMA InnerStepsStutter ==
  ASSUME IInv, NEW c \in Callers, Evaluate(c) \/ RefuseMoved(c) \/ Collide(c)
  PROVE  RVars' = RVars
<1>1. RState' = RState
  BY StateKept DEF Evaluate, RefuseMoved, Collide
<1>2. RPhase' = RPhase
  BY PhaseKept DEF Evaluate, RefuseMoved, Collide, IInv, TypeOK
<1>3. RLate' = RLate
  <2>1. CASE Evaluate(c)
    <3> DEFINE new == [caller |-> c, awaited |-> TRUE, row |-> NewRow(request[c])]
    <3>1. statements' = statements \cup {new}
      BY <2>1 DEF Evaluate
    <3>2. new.awaited
      OBVIOUS
    <3> HIDE DEF new
    <3> QED
      BY <3>1, <3>2, LateKept
  <2>2. CASE RefuseMoved(c) \/ Collide(c)
    BY <2>2, LateKept DEF RefuseMoved, Collide
  <2> QED
    BY <2>1, <2>2
<1> QED
  BY <1>1, <1>2, <1>3 DEF RVars, Evaluate, RefuseMoved, Collide

LEMMA StepMaps == IInv /\ [Next]_vars => [Register!Next]_(Register!vars)
<1> SUFFICES ASSUME IInv, [Next]_vars
             PROVE  Register!Next \/ RVars' = RVars
  BY DEF Register!vars, RVars, RState, RPhase, RLate, Entry, RequestOf
<1>1. ASSUME NEW c \in Callers, \E r \in Requests : Call(c, r) PROVE Register!Next
  BY <1>1, CallMaps DEF Register!Next, Requests, Register!Requests, States, Register!States
<1>2. ASSUME NEW c \in Callers,
             RefuseInvalid(c) \/ Commit(c) \/ ReadBack(c) \/ Fail(c) \/ Abandon(c)
      PROVE  Register!Next
  BY <1>2, RefuseInvalidMaps, CommitMaps, ReadBackMaps, FailMaps, AbandonMaps
     DEF Register!Next
<1>3. ASSUME NEW c \in Callers, Evaluate(c) \/ RefuseMoved(c) \/ Collide(c)
      PROVE  RVars' = RVars
  BY <1>3, InnerStepsStutter
<1>4. ASSUME CommitAbandoned \/ DropAbandoned PROVE Register!Next
  BY <1>4, LateMaps DEF Register!Next, RLate, Entry, RequestOf
<1>5. ASSUME UNCHANGED vars PROVE RVars' = RVars
  <2>1. RState' = RState /\ RLate' = RLate
    BY <1>5, StateKept, LateKept DEF vars
  <2> QED
    BY <1>5, <2>1 DEF vars, RVars, RPhase
<1> QED
  BY <1>1, <1>2, <1>3, <1>4, <1>5 DEF Next

\* The postgres adapter implements the port's compare-and-set register: one row per
\* applied answer, none for any other, and a 409 only where the state had moved.
THEOREM TableImplementsRegister == Spec => Implements
  BY InitMaps, StepMaps, Invariant, PTL DEF Spec, Implements, Register!Spec

----------------------------------------------------------------------------
(* The file: what a log may look like *)

\* Only the last line is ever damaged, and every other one continues the chain.  A last
\* line without its newline is a line.
GoodLog(f) ==
  /\ f \in Files
  /\ \A i \in DOMAIN f.lines : f.lines[i] = Damaged => i = Len(f.lines)
  /\ \A i \in Reads(f) : Linked(f, i)
  /\ f.ended \/ f.lines # <<>>

\* What d holds f holds, unless the line was damaged since.
Holds(d, f) ==
  /\ Len(d.lines) <= Len(f.lines)
  /\ \A i \in DOMAIN d.lines : f.lines[i] \in {d.lines[i], Damaged}

LEMMA LinesTyped ==
  ASSUME NEW f, f \in Files
  PROVE  /\ f.lines \in Seq(Events \cup {Damaged})
         /\ Len(f.lines) \in Nat /\ DOMAIN f.lines = 1 .. Len(f.lines)
         /\ \A i \in Reads(f) : i \in 1 .. Len(f.lines) /\ f.lines[i] \in Events
<1>1. f.lines \in Seq(Events \cup {Damaged})
  BY DEF Files
<1> HIDE DEF Events
<1> QED
  BY <1>1 DEF Reads

LEMMA LastPlace ==
  ASSUME NEW n, n \in Nat, NEW S, S \subseteq 1 .. n, S # {}
  PROVE  \E m \in S : \A k \in S : k <= m
<1> DEFINE T == {n - k : k \in S}
<1>1. T \subseteq Nat /\ T # {}
  <2>1. \A k \in S : n - k \in Nat
    OBVIOUS
  <2> QED
    BY <2>1
<1>2. PICK x \in T : \A y \in T : ~(<<y, x>> \in OpToRel(<, Nat))
  BY ONLY <1>1, WFMin, NatLessThanWellFounded
<1>3. PICK m \in S : x = n - m
  OBVIOUS
<1>4. ASSUME NEW k \in S PROVE k <= m
  <2>1. n - k \in T /\ n - k \in Nat /\ x \in Nat
    OBVIOUS
  <2>2. ~(n - k < x)
    BY <1>2, <2>1 DEF OpToRel
  <2> QED
    BY <1>3, <2>2
<1> QED
  BY <1>4

LEMMA BeforeIsFinite ==
  ASSUME NEW f, f \in Files, NEW i, i \in Reads(f)
  PROVE  /\ IsFiniteSet(Before(f, i)) /\ Cardinality(Before(f, i)) \in Nat
         /\ i \notin Before(f, i)
<1>1. Len(f.lines) \in Nat /\ Before(f, i) \subseteq 1 .. Len(f.lines) /\ i \in 1 .. Len(f.lines)
  BY LinesTyped DEF Before
<1>2. IsFiniteSet(1 .. Len(f.lines))
  BY <1>1, FS_Interval
<1>3. IsFiniteSet(Before(f, i))
  BY <1>1, <1>2, FS_Subset
<1> QED
  BY <1>1, <1>3, FS_CardinalityType DEF Before

\* Along the file the revisions of a question grow.
LEMMA RevisionsGrow ==
  ASSUME NEW f, GoodLog(f), NEW i, i \in Reads(f), NEW j, j \in Reads(f),
         f.lines[i].question = f.lines[j].question, i < j
  PROVE  f.lines[i].revision < f.lines[j].revision
<1> DEFINE B == Before(f, i)
           C == Before(f, j)
<1>1. /\ f \in Files /\ i \in Nat /\ j \in Nat
      /\ f.lines[i].revision = Cardinality(B) /\ f.lines[j].revision = Cardinality(C)
  BY LinesTyped DEF GoodLog, Linked
<1>2. IsFiniteSet(B) /\ Cardinality(B) \in Nat /\ i \notin B /\ IsFiniteSet(C)
      /\ Cardinality(C) \in Nat
  BY <1>1, BeforeIsFinite
<1>3. \A k \in Reads(f) : k \in Nat
  BY <1>1, LinesTyped
<1>4. B \cup {i} \subseteq C
  <2>1. ASSUME NEW k, k \in B PROVE k \in C
    <3>1. k \in Reads(f) /\ k < i /\ f.lines[k].question = f.lines[i].question
      BY <2>1 DEF Before
    <3>2. k < j
      BY <1>1, <1>3, <3>1
    <3> QED
      BY <3>1, <3>2 DEF Before
  <2>2. i \in C
    BY DEF Before
  <2> HIDE DEF B, C
  <2> QED
    BY <2>1, <2>2
<1> HIDE DEF B, C
<1>5. Cardinality(B \cup {i}) = Cardinality(B) + 1
  BY <1>2, FS_AddElement
<1>6. Cardinality(B \cup {i}) <= Cardinality(C)
  BY <1>2, <1>4, FS_Subset
<1> QED
  BY <1>1, <1>2, <1>5, <1>6

\* latestPerQuestion finds the last line of the question.
LEMMA LatestIsLast ==
  ASSUME NEW f, GoodLog(f), NEW q, NEW m, m \in EventsOf(f, q),
         \A k \in EventsOf(f, q) : k <= m
  PROVE  /\ LatestOf(f, q) = f.lines[m]
         /\ StateIn(f, q) = f.lines[m].next
<1> DEFINE E == EventsOf(f, q)
           Best(i) == \A j \in E : \/ f.lines[j].revision < f.lines[i].revision
                                   \/ f.lines[j].revision = f.lines[i].revision /\ i <= j
<1>1. \A i \in E : i \in Reads(f) /\ i \in Nat /\ f.lines[i].revision \in Nat
                   /\ f.lines[i].question = q
  BY LinesTyped DEF GoodLog, EventsOf, Events
<1>2. \A i \in E : i # m => f.lines[i].revision < f.lines[m].revision
  BY <1>1, RevisionsGrow
<1>3. m \in E /\ Best(m)
  BY <1>1, <1>2
<1>4. \A i \in E : Best(i) => i = m
  BY <1>1, <1>2
<1>5. (CHOOSE i \in E : Best(i)) = m
  BY <1>3, <1>4
<1>6. LatestOf(f, q) = f.lines[m]
  BY <1>5 DEF LatestOf
<1> QED
  BY <1>3, <1>6 DEF StateIn

LEMMA HasLast ==
  ASSUME NEW f, GoodLog(f), NEW q, EventsOf(f, q) # {}
  PROVE  \E m \in EventsOf(f, q) : \A k \in EventsOf(f, q) : k <= m
<1>1. Len(f.lines) \in Nat /\ EventsOf(f, q) \subseteq 1 .. Len(f.lines)
  BY LinesTyped DEF GoodLog, EventsOf
<1> QED
  BY <1>1, LastPlace

LEMMA StateTyped ==
  ASSUME NEW f, GoodLog(f), NEW q, q \in Questions
  PROVE  StateIn(f, q) \in States
<1>1. CASE EventsOf(f, q) = {}
  BY <1>1, SeededAssumption DEF StateIn
<1>2. CASE EventsOf(f, q) # {}
  <2>1. PICK m \in EventsOf(f, q) : \A k \in EventsOf(f, q) : k <= m
    BY <1>2, HasLast
  <2>2. f.lines[m] \in Events
    BY <2>1, LinesTyped DEF GoodLog, EventsOf
  <2> QED
    BY <2>1, <2>2, LatestIsLast DEF Events
<1> QED
  BY <1>1, <1>2

\* The state is in the lines, whether the last of them is ended or not.
LEMMA StateByLines ==
  ASSUME NEW f, NEW g, f.lines = g.lines, NEW q
  PROVE  StateIn(f, q) = StateIn(g, q)
  BY DEF StateIn, LatestOf, EventsOf, Reads

----------------------------------------------------------------------------
(* The file: what happens to a log *)

LEMMA HoldsItself ==
  ASSUME NEW f
  PROVE  Len(f.lines) \in Nat => Holds(f, f)
  BY DEF Holds

LEMMA HoldsOn ==
  ASSUME NEW d, NEW f, NEW g, d \in Files, f \in Files, g \in Files,
         Holds(d, f), Holds(f, g)
  PROVE  Holds(d, g)
<1>1. /\ DOMAIN d.lines = 1 .. Len(d.lines) /\ DOMAIN f.lines = 1 .. Len(f.lines)
      /\ Len(d.lines) \in Nat /\ Len(f.lines) \in Nat /\ Len(g.lines) \in Nat
  BY LinesTyped
<1>2. Len(d.lines) <= Len(g.lines)
  BY <1>1 DEF Holds
<1>3. ASSUME NEW i, i \in DOMAIN d.lines PROVE g.lines[i] \in {d.lines[i], Damaged}
  <2>1. i \in DOMAIN f.lines
    BY <1>1, <1>3 DEF Holds
  <2> QED
    BY <1>3, <2>1 DEF Holds
<1> QED
  BY <1>2, <1>3 DEF Holds

\* A log whose end was cut off or damaged is a log.
LEMMA CutIsGood ==
  ASSUME NEW f, GoodLog(f), NEW g, g \in Files, g.ended \/ g.lines # <<>>,
         \A i \in DOMAIN g.lines :
           /\ g.lines[i] = Damaged => i = Len(g.lines)
           /\ g.lines[i] # Damaged => i \in DOMAIN f.lines /\ g.lines[i] = f.lines[i]
  PROVE  GoodLog(g)
<1>1. /\ DOMAIN f.lines = 1 .. Len(f.lines) /\ Len(f.lines) \in Nat
      /\ DOMAIN g.lines = 1 .. Len(g.lines) /\ Len(g.lines) \in Nat
  BY LinesTyped DEF GoodLog
<1>2. ASSUME NEW i, i \in Reads(g) PROVE Linked(g, i)
  <2>1. i \in Reads(f) /\ g.lines[i] = f.lines[i] /\ i \in 1 .. Len(g.lines)
    BY <1>1, <1>2 DEF Reads
  <2>2. ASSUME NEW j, j < i, j \in Reads(f) \/ j \in Reads(g)
        PROVE  j \in Reads(f) /\ j \in Reads(g) /\ g.lines[j] = f.lines[j]
    <3>1. j \in 1 .. Len(g.lines) /\ j # Len(g.lines)
      BY <1>1, <2>1, <2>2 DEF Reads
    <3>2. g.lines[j] # Damaged
      BY <1>1, <3>1
    <3> QED
      BY <1>1, <3>1, <3>2 DEF Reads
  <2>3. Before(g, i) = Before(f, i) /\ \A j \in Before(g, i) : g.lines[j] = f.lines[j]
    BY <2>1, <2>2 DEF Before
  <2>4. Linked(f, i)
    BY <2>1 DEF GoodLog
  <2> QED
    BY <2>1, <2>3, <2>4 DEF Linked
<1> QED
  BY <1>2 DEF GoodLog

\* A question's new event continues its chain.
LEMMA NewEventTyped ==
  ASSUME NEW f, GoodLog(f), NEW r, r \in Requests
  PROVE  NewEvent(f, r) \in Events
<1>1. Len(f.lines) \in Nat
  BY LinesTyped DEF GoodLog
<1>2. CASE EventsOf(f, r.question) = {}
  BY <1>1, <1>2 DEF NewEvent, Events, Requests
<1>3. CASE EventsOf(f, r.question) # {}
  <2>1. PICK m \in EventsOf(f, r.question) : \A k \in EventsOf(f, r.question) : k <= m
    BY <1>3, HasLast
  <2>2. f.lines[m] \in Events
    BY <2>1, LinesTyped DEF GoodLog, EventsOf
  <2>3. LatestOf(f, r.question) = f.lines[m]
    BY <2>1, LatestIsLast
  <2> QED
    BY <1>1, <2>2, <2>3 DEF NewEvent, Events, Requests
<1> QED
  BY <1>2, <1>3

LEMMA NewEventIsLinked ==
  ASSUME NEW f, GoodLog(f), ~HasDamage(f), NEW r, r \in Requests, Storable(r),
         StateIn(f, r.question) = r.expected,
         NEW g, g \in Files, g.lines = Append(f.lines, NewEvent(f, r))
  PROVE  GoodLog(g)
<1> DEFINE e == NewEvent(f, r)
           n == Len(f.lines) + 1
<1>1. /\ f.lines \in Seq(Events \cup {Damaged})
      /\ DOMAIN f.lines = 1 .. Len(f.lines) /\ Len(f.lines) \in Nat
      /\ \A i \in Reads(f) : i \in 1 .. Len(f.lines) /\ f.lines[i] \in Events
  BY LinesTyped DEF GoodLog
<1>2. e \in Events
  BY NewEventTyped
<1>3. /\ e.question = r.question /\ e.previous = r.expected /\ e.next = r.next
      /\ e.sequence = n
      /\ e.revision = IF EventsOf(f, r.question) = {} THEN 0
                      ELSE LatestOf(f, r.question).revision + 1
  BY DEF NewEvent
<1> HIDE DEF e
<1>4. /\ DOMAIN g.lines = 1 .. n /\ Len(g.lines) = n /\ g.lines[n] = e
      /\ \A i \in 1 .. Len(f.lines) : g.lines[i] = f.lines[i] /\ g.lines[i] # Damaged
  BY <1>1, <1>2 DEF HasDamage, e
<1>5. \A i \in DOMAIN g.lines : g.lines[i] = Damaged => i = Len(g.lines)
  BY <1>1, <1>4
<1>6. \A j : j \in Reads(g) /\ j < n <=> j \in Reads(f)
  BY <1>1, <1>4 DEF Reads
<1>7. ASSUME NEW i, i \in Reads(g), i # n PROVE Linked(g, i)
  <2>1. i \in Reads(f) /\ g.lines[i] = f.lines[i] /\ i \in 1 .. Len(f.lines)
    BY <1>1, <1>4, <1>7 DEF Reads
  <2>2. Before(g, i) = Before(f, i) /\ \A j \in Before(g, i) : g.lines[j] = f.lines[j]
    BY <1>1, <1>4, <2>1 DEF Before, Reads
  <2>3. Linked(f, i)
    BY <2>1 DEF GoodLog
  <2> QED
    BY <2>1, <2>2, <2>3 DEF Linked
<1>8. Before(g, n) = EventsOf(f, r.question)
  BY <1>1, <1>3, <1>4, <1>6 DEF Before, EventsOf
<1>9. e.previous # e.next
  BY <1>3 DEF Storable
<1>10. ASSUME EventsOf(f, r.question) = {} PROVE Linked(g, n)
  <2>1. e.revision = Cardinality(Before(g, n)) /\ e.previous = Seeded[e.question]
    BY <1>3, <1>8, <1>10, FS_EmptySet DEF StateIn
  <2> QED
    BY <1>3, <1>4, <1>8, <1>9, <1>10, <2>1 DEF Linked
<1>11. ASSUME EventsOf(f, r.question) # {} PROVE Linked(g, n)
  <2>1. PICK m \in EventsOf(f, r.question) : \A k \in EventsOf(f, r.question) : k <= m
    BY <1>11, HasLast
  <2>2. /\ m \in Reads(f) /\ f.lines[m].question = r.question /\ m \in 1 .. Len(f.lines)
        /\ LatestOf(f, r.question) = f.lines[m]
        /\ StateIn(f, r.question) = f.lines[m].next
        /\ f.lines[m].revision = Cardinality(Before(f, m))
    <3>1. m \in Reads(f) /\ f.lines[m].question = r.question
      BY <2>1 DEF EventsOf
    <3>2. LatestOf(f, r.question) = f.lines[m] /\ StateIn(f, r.question) = f.lines[m].next
      BY <2>1, LatestIsLast
    <3>3. f.lines[m].revision = Cardinality(Before(f, m))
      BY <3>1 DEF GoodLog, Linked
    <3> QED
      BY <1>1, <3>1, <3>2, <3>3
  <2>3. EventsOf(f, r.question) = Before(f, m) \cup {m}
    <3>1. \A k \in EventsOf(f, r.question) : k = m \/ k < m
      BY <1>1, <2>1, <2>2 DEF EventsOf
    <3>2. EventsOf(f, r.question) \subseteq Before(f, m) \cup {m}
      BY <2>2, <3>1 DEF EventsOf, Before
    <3>3. Before(f, m) \cup {m} \subseteq EventsOf(f, r.question)
      BY <2>2 DEF EventsOf, Before
    <3> QED
      BY <3>2, <3>3
  <2>4. /\ IsFiniteSet(Before(f, m)) /\ m \notin Before(f, m)
        /\ Cardinality(Before(f, m)) \in Nat
    BY <2>2, BeforeIsFinite DEF GoodLog
  <2>5. Cardinality(EventsOf(f, r.question)) = Cardinality(Before(f, m)) + 1
    BY <2>3, <2>4, FS_AddElement
  <2>6. e.revision = Cardinality(Before(g, n))
    BY <1>3, <1>8, <1>11, <2>2, <2>5
  <2>7. g.lines[m].next = e.previous
    BY <1>3, <1>4, <2>2
  <2> QED
    BY <1>3, <1>4, <1>8, <1>9, <1>11, <2>1, <2>6, <2>7 DEF Linked
<1>12. \A i \in Reads(g) : Linked(g, i)
  BY <1>7, <1>10, <1>11
<1>13. g.lines # <<>>
  BY <1>1, <1>4
<1> QED
  BY <1>5, <1>12, <1>13 DEF GoodLog

\* What a write leaves of it, wherever it was cut: a log with everything that was there.
LEMMA AppendIsGood ==
  ASSUME NEW f, GoodLog(f), ~HasDamage(f), NEW r, r \in Requests, Storable(r),
         StateIn(f, r.question) = r.expected, NEW extent, extent \in Extents
  PROVE  /\ GoodLog(AppendLine(f, NewEvent(f, r), extent))
         /\ Holds(f, AppendLine(f, NewEvent(f, r), extent))
<1> DEFINE e == NewEvent(f, r)
           g == AppendLine(f, e, extent)
<1>1. /\ f.lines \in Seq(Events \cup {Damaged}) /\ f.ended \in BOOLEAN
      /\ DOMAIN f.lines = 1 .. Len(f.lines) /\ Len(f.lines) \in Nat
      /\ \A i \in DOMAIN f.lines : f.lines[i] # Damaged
  BY LinesTyped DEF GoodLog, Files, HasDamage
<1>2. e \in Events
  BY NewEventTyped
<1> HIDE DEF e
<1>3. CASE extent = "nothing"
  BY <1>1, <1>3, HoldsItself DEF AppendLine
<1>4. CASE extent # "nothing" /\ f.ended
  <2> DEFINE line == IF extent = "part" THEN Damaged ELSE e
  <2>1. g = [lines |-> Append(f.lines, line), ended |-> extent = "whole"]
    BY <1>4 DEF AppendLine
  <2>2. line \in Events \cup {Damaged}
    BY <1>2
  <2>3. line = Damaged \/ line = e
    OBVIOUS
  <2> HIDE DEF line, g
  <2>4. g \in Files /\ g.lines # <<>>
    BY <1>1, <2>1, <2>2 DEF Files
  <2>5. /\ Len(g.lines) = Len(f.lines) + 1 /\ DOMAIN g.lines = 1 .. Len(f.lines) + 1
        /\ g.lines[Len(f.lines) + 1] = line
        /\ \A i \in DOMAIN f.lines : g.lines[i] = f.lines[i]
    BY <1>1, <2>1, <2>2
  <2>6. Holds(f, g)
    BY <1>1, <2>5 DEF Holds
  <2>7. CASE line = e
    <3>1. g.lines = Append(f.lines, NewEvent(f, r))
      BY <2>1, <2>7 DEF e
    <3> QED
      BY <2>4, <2>6, <3>1, NewEventIsLinked DEF g, e
  <2>8. CASE line = Damaged
    <3>1. \A i \in DOMAIN g.lines :
            /\ g.lines[i] = Damaged => i = Len(g.lines)
            /\ g.lines[i] # Damaged => i \in DOMAIN f.lines /\ g.lines[i] = f.lines[i]
      BY <1>1, <2>5, <2>8
    <3>2. GoodLog(g)
      BY <2>4, <3>1, CutIsGood
    <3> QED
      BY <2>6, <3>2 DEF g, e
  <2> QED
    BY <2>3, <2>7, <2>8
<1>5. CASE extent # "nothing" /\ ~f.ended
  <2>1. g = [lines |-> [f.lines EXCEPT ![Len(f.lines)] = Damaged], ended |-> extent = "whole"]
    BY <1>5 DEF AppendLine
  <2>2. f.lines # <<>> /\ Len(f.lines) \in DOMAIN f.lines
    BY <1>1, <1>5 DEF GoodLog
  <2> HIDE DEF g
  <2>3. g.lines \in Seq(Events \cup {Damaged}) /\ Len(g.lines) = Len(f.lines)
        /\ \A i \in DOMAIN f.lines :
             g.lines[i] = IF i = Len(f.lines) THEN Damaged ELSE f.lines[i]
    BY <1>1, <2>1, <2>2, ExceptSeq
  <2>4. g \in Files /\ g.lines # <<>> /\ DOMAIN g.lines = DOMAIN f.lines
    BY <1>1, <2>1, <2>2, <2>3 DEF Files
  <2>5. GoodLog(g)
    <3>1. \A i \in DOMAIN g.lines :
            /\ g.lines[i] = Damaged => i = Len(g.lines)
            /\ g.lines[i] # Damaged => i \in DOMAIN f.lines /\ g.lines[i] = f.lines[i]
      BY <1>1, <2>3, <2>4
    <3> QED
      BY <2>4, <3>1, CutIsGood
  <2>6. Holds(f, g)
    BY <1>1, <2>3, <2>4 DEF Holds
  <2> QED
    BY <2>5, <2>6 DEF g, e
<1> QED
  BY <1>3, <1>4, <1>5

\* What a power loss leaves: a log that holds whatever was synced.
LEMMA SurvivorIsGood ==
  ASSUME NEW d, GoodLog(d), NEW f, GoodLog(f), Holds(d, f), NEW g, g \in Survivors(d, f)
  PROVE  GoodLog(g) /\ Holds(d, g)
<1>1. /\ f.lines \in Seq(Events \cup {Damaged})
      /\ DOMAIN f.lines = 1 .. Len(f.lines) /\ Len(f.lines) \in Nat
      /\ DOMAIN d.lines = 1 .. Len(d.lines) /\ Len(d.lines) \in Nat
  BY LinesTyped DEF GoodLog
<1>2. CASE g \in {d, f}
  BY <1>1, <1>2, HoldsItself
<1>3. CASE \E n \in Len(d.lines) + 1 .. Len(f.lines) - 1 :
             g = [lines |-> SubSeq(f.lines, 1, n), ended |-> TRUE]
  <2>1. PICK n \in Len(d.lines) + 1 .. Len(f.lines) - 1 :
               g = [lines |-> SubSeq(f.lines, 1, n), ended |-> TRUE]
    BY <1>3
  <2>2. /\ g.lines \in Seq(Events \cup {Damaged}) /\ Len(g.lines) = n
        /\ DOMAIN g.lines = 1 .. n /\ \A i \in 1 .. n : g.lines[i] = f.lines[i]
    BY <1>1, <2>1
  <2>3. g \in Files /\ g.ended
    BY <2>1, <2>2 DEF Files
  <2>4. \A i \in DOMAIN g.lines : i \in DOMAIN f.lines /\ i # Len(f.lines)
    BY <1>1, <2>1, <2>2
  <2>5. \A i \in DOMAIN g.lines : g.lines[i] # Damaged /\ g.lines[i] = f.lines[i]
    BY <2>2, <2>4 DEF GoodLog
  <2>6. GoodLog(g)
    BY <2>3, <2>4, <2>5, CutIsGood
  <2>7. Holds(d, g)
    BY <1>1, <2>1, <2>2 DEF Holds
  <2> QED
    BY <2>6, <2>7
<1>4. CASE \E n \in Len(d.lines) .. Len(f.lines) - 1 :
             g = [lines |-> Append(SubSeq(f.lines, 1, n), Damaged), ended |-> FALSE]
  <2>1. PICK n \in Len(d.lines) .. Len(f.lines) - 1 :
               g = [lines |-> Append(SubSeq(f.lines, 1, n), Damaged), ended |-> FALSE]
    BY <1>4
  <2> DEFINE s == SubSeq(f.lines, 1, n)
  <2>2. /\ s \in Seq(Events \cup {Damaged}) /\ Len(s) = n /\ n \in Nat
        /\ \A i \in 1 .. n : s[i] = f.lines[i]
    BY <1>1, <2>1
  <2> HIDE DEF s
  <2>3. g.lines = Append(s, Damaged) /\ g.ended = FALSE
    BY <2>1 DEF s
  <2>4. /\ g.lines \in Seq(Events \cup {Damaged}) /\ Len(g.lines) = n + 1
        /\ DOMAIN g.lines = 1 .. n + 1 /\ g.lines[n + 1] = Damaged
        /\ \A i \in 1 .. n : g.lines[i] = f.lines[i]
    BY <2>2, <2>3
  <2>5. g \in Files /\ g.lines # <<>>
    <3>1. g = [lines |-> g.lines, ended |-> g.ended] /\ g.ended \in BOOLEAN
      BY <2>1
    <3>2. g.lines # <<>>
      BY <2>2, <2>4
    <3>3. g \in Files
      BY <2>4, <3>1 DEF Files
    <3> QED
      BY <3>2, <3>3
  <2>6. \A i \in 1 .. n : i \in DOMAIN f.lines /\ i # Len(f.lines)
    BY <1>1, <2>1
  <2>7. \A i \in 1 .. n : g.lines[i] # Damaged /\ g.lines[i] = f.lines[i]
    BY <2>4, <2>6 DEF GoodLog
  <2>8. \A i \in DOMAIN g.lines : i \in 1 .. n \/ i = n + 1
    BY <2>2, <2>4
  <2>9. GoodLog(g)
    BY <2>4, <2>5, <2>6, <2>7, <2>8, CutIsGood
  <2>10. Holds(d, g)
    BY <1>1, <2>1, <2>4 DEF Holds
  <2> QED
    BY <2>9, <2>10
<1> QED
  BY <1>2, <1>3, <1>4 DEF Survivors

\* What was read is read again, or nothing is.
LEMMA HoldsRecords ==
  ASSUME NEW d, d \in Files, NEW f, f \in Files, Holds(d, f)
  PROVE  /\ HasDamage(d) => HasDamage(f)
         /\ RecordsIn(d) \subseteq RecordsIn(f) \/ HasDamage(f)
<1>1. /\ DOMAIN d.lines = 1 .. Len(d.lines) /\ DOMAIN f.lines = 1 .. Len(f.lines)
      /\ Len(d.lines) \in Nat /\ Len(f.lines) \in Nat
  BY LinesTyped
<1>2. \A i \in DOMAIN d.lines : i \in DOMAIN f.lines
  BY <1>1 DEF Holds
<1>3. HasDamage(d) => HasDamage(f)
  BY <1>2 DEF HasDamage, Holds
<1>4. ASSUME ~HasDamage(f), NEW e, e \in RecordsIn(d) PROVE e \in RecordsIn(f)
  <2>1. PICK i \in Reads(d) : e = d.lines[i]
    BY <1>4 DEF RecordsIn
  <2>2. i \in DOMAIN f.lines /\ f.lines[i] # Damaged /\ f.lines[i] = d.lines[i]
    BY <1>2, <1>4, <2>1 DEF Reads, HasDamage, Holds
  <2> QED
    BY <2>1, <2>2 DEF RecordsIn, Reads
<1> QED
  BY <1>3, <1>4

\* What is appended is the latest event of its question; the others keep theirs.
LEMMA LatestAfter ==
  ASSUME NEW f, GoodLog(f), NEW g, GoodLog(g), NEW e, e \in Events, e # Damaged,
         g.lines = Append(f.lines, e), NEW q
  PROVE  IF q = e.question THEN EventsOf(g, q) # {} /\ LatestOf(g, q) = e
         ELSE /\ (EventsOf(g, q) = {}) <=> (EventsOf(f, q) = {})
              /\ (EventsOf(f, q) # {}) => (LatestOf(g, q) = LatestOf(f, q))
<1> DEFINE n == Len(f.lines) + 1
<1>1. /\ f.lines \in Seq(Events \cup {Damaged})
      /\ DOMAIN f.lines = 1 .. Len(f.lines) /\ Len(f.lines) \in Nat
  BY LinesTyped DEF GoodLog
<1>2. /\ DOMAIN g.lines = 1 .. n /\ g.lines[n] = e
      /\ \A i \in 1 .. Len(f.lines) : g.lines[i] = f.lines[i]
  BY <1>1
<1>3. CASE q = e.question
  <2>1. n \in EventsOf(g, q) /\ \A k \in EventsOf(g, q) : k <= n
    BY <1>1, <1>2, <1>3 DEF EventsOf, Reads
  <2> QED
    BY <1>2, <1>3, <2>1, LatestIsLast
<1>4. CASE q # e.question
  <2>1. EventsOf(g, q) = EventsOf(f, q)
    BY <1>1, <1>2, <1>4 DEF EventsOf, Reads
  <2>2. ASSUME EventsOf(f, q) # {} PROVE LatestOf(g, q) = LatestOf(f, q)
    <3>1. PICK m \in EventsOf(f, q) : \A k \in EventsOf(f, q) : k <= m
      BY <2>2, HasLast
    <3>2. LatestOf(f, q) = f.lines[m]
      BY <3>1, LatestIsLast
    <3>3. LatestOf(g, q) = g.lines[m]
      BY <2>1, <3>1, LatestIsLast
    <3>4. m \in 1 .. Len(f.lines)
      BY <1>1, <3>1 DEF EventsOf, Reads
    <3> QED
      BY <1>2, <3>2, <3>3, <3>4
  <2> QED
    BY <1>4, <2>1, <2>2
<1> QED
  BY <1>3, <1>4

\* An event on a line of its own is the change of its question, and of no other.
LEMMA AppendChanges ==
  ASSUME NEW f, GoodLog(f), NEW g, GoodLog(g), NEW e, e \in Events, e # Damaged,
         g.lines = Append(f.lines, e), NEW q
  PROVE  StateIn(g, q) = IF q = e.question THEN e.next ELSE StateIn(f, q)
  BY LatestAfter DEF StateIn

----------------------------------------------------------------------------
(* The file: the inductive invariant *)

FileSteps == {"queued", "writing", "syncing", "lost"}

AtWork(c) == phase[c] \in {"writing", "syncing"}

FileLock == \A c \in Callers : AtWork(c) => Running(c)

QueuedOK == \A c \in Callers : phase[c] = "queued" => Storable(request[c])

\* In f the question of c is as c expects it.
Expected(c, f) ==
  Storable(request[c]) /\ StateIn(f, request[c].question) = request[c].expected

\* What the task decided on is still what the file holds.
WritingOK ==
  \A c \in Callers : phase[c] = "writing" =>
    ~HasDamage(file) /\ event[c] = NewEvent(file, request[c]) /\ Expected(c, file)

\* The line that is being synced is the last one, unless it went on a cut one.
SyncingOK ==
  \A c \in Callers : phase[c] = "syncing" =>
    /\ file.ended /\ file.lines # <<>>
    /\ event[c] \in Events
    /\ file.lines[Len(file.lines)] \in {event[c], Damaged}
    /\ ~HasDamage(file) =>
         /\ event[c].question = request[c].question
         /\ event[c].next = request[c].next
         /\ Expected(c, Settled)

AppliedOK == applied \subseteq RecordsIn(disk) \/ HasDamage(disk)

\* An open call has seen the present state of its question.
HeldOK ==
  ~HasDamage(file) =>
    \A c \in Callers :
      phase[c] # "idle" => StateIn(Settled, request[c].question) \in held[c]

FileIInv ==
  /\ queue \in Seq(Callers)
  /\ event \in [Callers -> Events \cup {NoRequest}]
  /\ applied \subseteq Events /\ losses \in 0 .. Losses
  /\ RouteOK(FileSteps)
  /\ GoodLog(file) /\ GoodLog(disk) /\ Holds(disk, file)
  /\ FileLock /\ QueuedOK /\ WritingOK /\ SyncingOK
  /\ AppliedOK /\ HeldOK

LEMMA FileInvImplies == FileIInv => LogIsAChain /\ NothingLostSilently
<1> SUFFICES ASSUME FileIInv PROVE LogIsAChain /\ NothingLostSilently
  OBVIOUS
<1>1. FileTypeOK
  BY DEF FileIInv, FileTypeOK, GoodLog, FileSteps
<1>2. LogIsAChain
  BY <1>1 DEF FileIInv, GoodLog, LogIsAChain
<1>3. HasDamage(disk) => HasDamage(file)
  BY HoldsRecords DEF FileIInv, GoodLog
<1> QED
  BY <1>2, <1>3 DEF FileIInv, AppliedOK, NothingLostSilently

Syncing == \E c \in Callers : phase[c] = "syncing"

LEMMA SettledIsFile ==
  ASSUME ~Syncing
  PROVE  Settled = file
  BY DEF Syncing, Settled

LEMMA OneAtWork ==
  ASSUME FileLock, NEW c, c \in Callers, NEW d, d \in Callers, AtWork(c), AtWork(d)
  PROVE  c = d
  BY DEF FileLock, Running

LEMMA EmptyIsGood == GoodLog(EmptyFile) /\ Holds(EmptyFile, EmptyFile) /\ ~HasDamage(EmptyFile)
<1>1. EmptyFile \in Files /\ EmptyFile.lines = <<>> /\ EmptyFile.ended
  BY DEF EmptyFile, Files
<1>2. DOMAIN <<>> = {} /\ Len(<<>>) \in Nat
  OBVIOUS
<1> QED
  BY <1>1, <1>2 DEF GoodLog, Holds, HasDamage, Reads

LEMMA FileInitInv == FileInit => FileIInv
<1> SUFFICES ASSUME FileInit PROVE FileIInv
  OBVIOUS
<1>1. /\ phase = [c \in Callers |-> "idle"]
      /\ request = [c \in Callers |-> NoRequest]
      /\ answer = [c \in Callers |-> Plain("none")]
      /\ held = [c \in Callers |-> {}]
      /\ event = [c \in Callers |-> NoRequest]
      /\ file = EmptyFile /\ disk = EmptyFile /\ queue = <<>> /\ applied = {} /\ losses = 0
  BY DEF FileInit, NothingAsked
<1>2. Plain("none") \in Answers
  BY DEF Plain, Answers
<1>3. RouteOK(FileSteps)
  BY <1>1, <1>2 DEF RouteOK, FileSteps
<1>4. FileLock /\ QueuedOK /\ WritingOK /\ SyncingOK /\ AppliedOK /\ HeldOK
  BY <1>1 DEF FileLock, AtWork, QueuedOK, WritingOK, SyncingOK, AppliedOK, HeldOK
<1>5. queue \in Seq(Callers) /\ event \in [Callers -> Events \cup {NoRequest}]
  BY <1>1
<1>6. applied \subseteq Events /\ losses \in 0 .. Losses
  BY <1>1, BoundsAssumption
<1> QED
  BY <1>1, <1>3, <1>4, <1>5, <1>6, EmptyIsGood DEF FileIInv

\* A step that leaves the file, and who syncs it, alone.
LEMMA QuietKeeps ==
  ASSUME FileIInv, UNCHANGED <<file, disk, applied, losses>>,
         queue' \in Seq(Callers), event' \in [Callers -> Events \cup {NoRequest}],
         RouteOK(FileSteps)', FileLock', QueuedOK', WritingOK',
         \A d \in Callers : phase'[d] = "syncing" <=> phase[d] = "syncing",
         \A d \in Callers : phase[d] = "syncing" =>
           event'[d] = event[d] /\ request'[d] = request[d],
         ~HasDamage(file) =>
           \A d \in Callers :
             phase'[d] # "idle" => StateIn(Settled, request'[d].question) \in held'[d]
  PROVE  FileIInv'
<1>1. Settled' = Settled
  BY DEF Settled
<1>2. SyncingOK'
  BY <1>1 DEF FileIInv, SyncingOK, Expected
<1>3. HeldOK'
  BY <1>1 DEF HeldOK
<1>4. AppliedOK'
  BY DEF FileIInv, AppliedOK
<1> QED
  BY <1>2, <1>3, <1>4 DEF FileIInv

\* A step after which nobody writes or syncs: every open call has seen what is left.
LEMMA AfterWork ==
  ASSUME FileIInv, GoodLog(file'), GoodLog(disk'), Holds(disk', file'), AppliedOK',
         applied' \subseteq Events, losses' \in 0 .. Losses,
         queue' \in Seq(Callers), event' \in [Callers -> Events \cup {NoRequest}],
         phase' \in [Callers -> {"idle", "called"} \cup FileSteps], request' = request,
         answer' \in [Callers -> Answers], Witness,
         \A d \in Callers : ~AtWork(d)' /\ phase'[d] \in {"idle", phase[d], "lost"},
         \A d \in Callers : phase'[d] # "idle" => phase[d] # "idle"
  PROVE  FileIInv'
<1>1. \A d \in Callers :
        held'[d] = IF phase[d] # "idle"
                     THEN held[d] \cup {StateIn(file', request[d].question)} ELSE held[d]
  BY DEF Witness
<1>2. held' \in [Callers -> SUBSET States]
  <2>1. ASSUME NEW d, d \in Callers PROVE held'[d] \in SUBSET States
    <3>1. held[d] \in SUBSET States
      BY <2>1 DEF FileIInv, RouteOK
    <3>2. CASE phase[d] # "idle"
      <4>1. request[d].question \in Questions
        BY <2>1, <3>2 DEF FileIInv, RouteOK, Requests
      <4>2. StateIn(file', request[d].question) \in States
        BY <4>1, StateTyped
      <4> QED
        BY <1>1, <2>1, <3>1, <3>2, <4>2
    <3> QED
      BY <1>1, <2>1, <3>1, <3>2
  <2> QED
    BY <2>1 DEF Witness
<1>3. RouteOK(FileSteps)'
  BY <1>2 DEF FileIInv, RouteOK
<1>4. FileLock' /\ WritingOK' /\ SyncingOK'
  BY DEF FileLock, WritingOK, SyncingOK, AtWork
<1>5. QueuedOK'
  BY DEF FileIInv, QueuedOK
<1>6. Settled' = file'
  BY DEF Settled, AtWork
<1>7. HeldOK'
  BY <1>1, <1>6 DEF HeldOK
<1> QED
  BY <1>3, <1>4, <1>5, <1>7 DEF FileIInv

----------------------------------------------------------------------------
(* The file: the steps keep it *)

LEMMA RepliesAreAnswers ==
  /\ \A s \in States : Applied(s) \in Answers /\ Stale(s) \in Answers
  /\ \A kind \in {"none", "invalid", "unavailable"} : Plain(kind) \in Answers
  BY DEF Applied, Stale, Plain, Answers

LEMMA ReplyKeepsRoute ==
  ASSUME RouteOK(FileSteps), NEW c, c \in Callers, NEW a, a \in Answers, Reply(c, a),
         request' = request, held' = held
  PROVE  /\ RouteOK(FileSteps)'
         /\ phase'[c] = "idle"
         /\ \A d \in Callers : d # c => phase'[d] = phase[d]
  BY DEF RouteOK, Reply

\* The file without the line being synced is a log, too.
LEMMA SettledIsGood ==
  ASSUME FileIInv
  PROVE  GoodLog(Settled)
<1>1. CASE Syncing
  <2> DEFINE g == Settled
             n == Len(file.lines) - 1
  <2>1. PICK c \in Callers : phase[c] = "syncing"
    BY <1>1 DEF Syncing
  <2>2. file.ended /\ file.lines # <<>> /\ GoodLog(file) /\ file \in Files
    BY <2>1 DEF FileIInv, SyncingOK, GoodLog
  <2>3. /\ file.lines \in Seq(Events \cup {Damaged}) /\ Len(file.lines) \in Nat
        /\ DOMAIN file.lines = 1 .. Len(file.lines)
    BY <2>2, LinesTyped
  <2>4. n \in Nat /\ n < Len(file.lines)
    BY <2>2, <2>3
  <2>5. /\ g.lines = SubSeq(file.lines, 1, n) /\ g.ended = file.ended
        /\ g = [lines |-> g.lines, ended |-> g.ended]
    BY <2>1, <2>2 DEF Settled, Files
  <2> HIDE DEF g, n
  <2>6. /\ g.lines \in Seq(Events \cup {Damaged}) /\ Len(g.lines) = n
        /\ DOMAIN g.lines = 1 .. n /\ \A i \in 1 .. n : g.lines[i] = file.lines[i]
    BY <2>3, <2>4, <2>5
  <2>7. g \in Files
    BY <2>2, <2>5, <2>6 DEF Files
  <2>8. \A i \in 1 .. n : i \in DOMAIN file.lines /\ i # Len(file.lines)
    BY <2>3, <2>4
  <2>9. \A i \in 1 .. n : file.lines[i] # Damaged
    BY <2>2, <2>8 DEF GoodLog
  <2>10. \A i \in DOMAIN g.lines :
           /\ g.lines[i] = Damaged => i = Len(g.lines)
           /\ g.lines[i] # Damaged => i \in DOMAIN file.lines /\ g.lines[i] = file.lines[i]
    BY <2>6, <2>8, <2>9
  <2>11. GoodLog(g)
    BY <2>2, <2>5, <2>7, <2>10, CutIsGood
  <2> QED
    BY <2>11 DEF g
<1>2. CASE ~Syncing
  BY <1>2, SettledIsFile DEF FileIInv
<1> QED
  BY <1>1, <1>2

LEMMA FileCallInv ==
  ASSUME FileIInv, NEW c, c \in Callers, NEW r, r \in Requests, FileCall(c, r)
  PROVE  FileIInv'
<1>1. /\ UNCHANGED <<file, disk, applied, losses, queue, event>>
      /\ phase[c] = "idle" /\ phase'[c] = "called" /\ request'[c] = r
      /\ held'[c] = {StateIn(Settled, r.question)}
      /\ \A d \in Callers : d # c =>
           phase'[d] = phase[d] /\ request'[d] = request[d] /\ held'[d] = held[d]
  BY DEF FileCall, Ask, FileIInv, RouteOK
<1>2. StateIn(Settled, r.question) \in States
  BY SettledIsGood, StateTyped DEF Requests
<1>3. RouteOK(FileSteps)'
  BY <1>1, <1>2, RepliesAreAnswers DEF FileCall, Ask, FileIInv, RouteOK, FileSteps
<1>4. FileLock' /\ QueuedOK' /\ WritingOK'
  <2>1. FileLock'
    BY <1>1 DEF FileIInv, FileLock, AtWork, Running
  <2>2. QueuedOK'
    BY <1>1 DEF FileIInv, QueuedOK
  <2>3. WritingOK'
    BY <1>1 DEF FileIInv, WritingOK, Expected
  <2> QED
    BY <2>1, <2>2, <2>3
<1>5. ~HasDamage(file) =>
        \A d \in Callers :
          phase'[d] # "idle" => StateIn(Settled, request'[d].question) \in held'[d]
  BY <1>1 DEF FileIInv, HeldOK
<1>6. queue' \in Seq(Callers) /\ event' \in [Callers -> Events \cup {NoRequest}]
  BY <1>1 DEF FileIInv
<1>7. /\ \A d \in Callers : phase'[d] = "syncing" <=> phase[d] = "syncing"
      /\ \A d \in Callers : phase[d] = "syncing" =>
           event'[d] = event[d] /\ request'[d] = request[d]
  BY <1>1
<1> QED
  BY <1>1, <1>3, <1>4, <1>5, <1>6, <1>7, QuietKeeps

\* A call ends that neither wrote nor waits in front of one that does.
LEMMA QuietReply ==
  ASSUME FileIInv, NEW c, c \in Callers, NEW a, a \in Answers, Reply(c, a),
         UNCHANGED <<file, disk, applied, losses, request, held>>,
         ~AtWork(c), event' \in [Callers -> Events \cup {NoRequest}],
         \A d \in Callers : d # c => event'[d] = event[d],
         queue' \in Seq(Callers), queue' = queue \/ (\A d \in Callers : ~AtWork(d))
  PROVE  FileIInv'
<1>1. /\ RouteOK(FileSteps)'
      /\ phase'[c] = "idle"
      /\ \A d \in Callers : d # c => phase'[d] = phase[d]
  BY ReplyKeepsRoute DEF FileIInv
<1>2. FileLock'
  BY <1>1 DEF FileIInv, FileLock, AtWork, Running
<1>3. QueuedOK' /\ WritingOK'
  BY <1>1 DEF FileIInv, QueuedOK, WritingOK, Expected
<1>4. ~HasDamage(file) =>
        \A d \in Callers :
          phase'[d] # "idle" => StateIn(Settled, request'[d].question) \in held'[d]
  BY <1>1 DEF FileIInv, HeldOK
<1>5. /\ \A d \in Callers : phase'[d] = "syncing" <=> phase[d] = "syncing"
      /\ \A d \in Callers : phase[d] = "syncing" =>
           event'[d] = event[d] /\ request'[d] = request[d]
  BY <1>1 DEF AtWork
<1> QED
  BY <1>1, <1>2, <1>3, <1>4, <1>5, QuietKeeps

LEMMA RefuseUnqueuedInv ==
  ASSUME FileIInv, NEW c, c \in Callers, RefuseUnqueued(c) \/ ConnectionLost(c)
  PROVE  FileIInv'
<1>1. Plain("invalid") \in Answers /\ Plain("unavailable") \in Answers
  BY RepliesAreAnswers
<1>2. ~AtWork(c)
  BY DEF RefuseUnqueued, Refuse, ConnectionLost, AtWork
<1>3. /\ Reply(c, Plain("invalid")) \/ Reply(c, Plain("unavailable"))
      /\ UNCHANGED <<file, disk, applied, losses, request, held, event, queue>>
  BY DEF RefuseUnqueued, Refuse, ConnectionLost
<1>4. queue' \in Seq(Callers) /\ event' \in [Callers -> Events \cup {NoRequest}]
  BY <1>3 DEF FileIInv
<1> QED
  BY <1>1, <1>2, <1>3, <1>4, QuietReply

LEMMA EnqueueInv ==
  ASSUME FileIInv, NEW c, c \in Callers, Enqueue(c)
  PROVE  FileIInv'
<1>1. /\ UNCHANGED <<file, disk, applied, losses, event, request, answer, held>>
      /\ phase[c] = "called" /\ phase'[c] = "queued" /\ Storable(request[c])
      /\ \A d \in Callers : d # c => phase'[d] = phase[d]
      /\ phase' = [phase EXCEPT ![c] = "queued"]
      /\ queue' = Append(queue, c) /\ queue \in Seq(Callers)
  BY DEF Enqueue, FileIInv, RouteOK
<1>2. RouteOK(FileSteps)'
  BY <1>1 DEF FileIInv, RouteOK, FileSteps
<1>3. queue # <<>> => queue' # <<>> /\ Head(queue') = Head(queue)
  BY <1>1
<1>4. FileLock'
  BY <1>1, <1>3 DEF FileIInv, FileLock, AtWork, Running
<1>5. QueuedOK' /\ WritingOK'
  BY <1>1 DEF FileIInv, QueuedOK, WritingOK, Expected
<1>6. ~HasDamage(file) =>
        \A d \in Callers :
          phase'[d] # "idle" => StateIn(Settled, request'[d].question) \in held'[d]
  BY <1>1 DEF FileIInv, HeldOK
<1>7. /\ \A d \in Callers : phase'[d] = "syncing" <=> phase[d] = "syncing"
      /\ \A d \in Callers : phase[d] = "syncing" =>
           event'[d] = event[d] /\ request'[d] = request[d]
  BY <1>1
<1>8. queue' \in Seq(Callers) /\ event' \in [Callers -> Events \cup {NoRequest}]
  BY <1>1 DEF FileIInv
<1> QED
  BY <1>1, <1>2, <1>4, <1>5, <1>6, <1>7, <1>8, QuietKeeps

\* The task at the head of the queue ends before it wrote.
LEMMA RefuseInv ==
  ASSUME FileIInv, NEW c, c \in Callers, ReadFails(c) \/ RefuseStale(c)
  PROVE  FileIInv'
<1>1. PICK a : /\ Settle(c, a)
               /\ a \in {Plain("unavailable"), Stale(StateIn(file, request[c].question))}
  BY DEF ReadFails, RefuseStale
<1>2. /\ UNCHANGED <<file, disk, request, held, applied, losses>>
      /\ Running(c) /\ phase[c] = "queued"
  BY DEF ReadFails, RefuseStale
<1>3. request[c].question \in Questions /\ GoodLog(file)
  BY <1>2 DEF FileIInv, RouteOK, Requests
<1>4. a \in Answers
  BY <1>1, <1>3, StateTyped, RepliesAreAnswers
<1>5. \A d \in Callers : ~AtWork(d)
  BY <1>2 DEF FileIInv, FileLock, AtWork, Running
<1>6. queue \in Seq(Callers) /\ queue # <<>> /\ queue' = Tail(queue)
  BY <1>1, <1>2 DEF FileIInv, Settle, Running
<1>7. queue' \in Seq(Callers)
  BY <1>6
<1>8. /\ Reply(c, a) /\ event' \in [Callers -> Events \cup {NoRequest}]
      /\ \A d \in Callers : d # c => event'[d] = event[d]
  BY <1>1 DEF Settle, FileIInv
<1> QED
  BY <1>2, <1>4, <1>5, <1>7, <1>8, QuietReply

LEMMA DecideInv ==
  ASSUME FileIInv, NEW c, c \in Callers, Decide(c)
  PROVE  FileIInv'
<1>1. /\ UNCHANGED <<file, disk, applied, losses, queue, request, answer, held>>
      /\ Running(c) /\ phase[c] = "queued" /\ phase' = [phase EXCEPT ![c] = "writing"]
      /\ ~HasDamage(file) /\ StateIn(file, request[c].question) = request[c].expected
      /\ event' = [event EXCEPT ![c] = NewEvent(file, request[c])]
  BY DEF Decide
<1>2. /\ phase'[c] = "writing" /\ event'[c] = NewEvent(file, request[c])
      /\ \A d \in Callers : d # c => phase'[d] = phase[d] /\ event'[d] = event[d]
  BY <1>1 DEF FileIInv, RouteOK
<1>3. request[c] \in Requests /\ Storable(request[c]) /\ GoodLog(file)
  BY <1>1 DEF FileIInv, RouteOK, QueuedOK
<1>4. NewEvent(file, request[c]) \in Events
  BY <1>3, NewEventTyped
<1>5. event' \in [Callers -> Events \cup {NoRequest}]
  BY <1>1, <1>4 DEF FileIInv
<1>6. RouteOK(FileSteps)'
  BY <1>1 DEF FileIInv, RouteOK, FileSteps
<1>7. FileLock'
  BY <1>1, <1>2 DEF FileIInv, FileLock, AtWork, Running
<1>8. QueuedOK'
  BY <1>1, <1>2 DEF FileIInv, QueuedOK
<1>9. WritingOK'
  BY <1>1, <1>2, <1>3 DEF FileIInv, WritingOK, Expected
<1>10. ~HasDamage(file) =>
        \A d \in Callers :
          phase'[d] # "idle" => StateIn(Settled, request'[d].question) \in held'[d]
  BY <1>1, <1>2 DEF FileIInv, HeldOK
<1>11. /\ \A d \in Callers : phase'[d] = "syncing" <=> phase[d] = "syncing"
       /\ \A d \in Callers : phase[d] = "syncing" =>
            event'[d] = event[d] /\ request'[d] = request[d]
  BY <1>1, <1>2
<1>12. queue' \in Seq(Callers)
  BY <1>1 DEF FileIInv
<1> QED
  BY <1>1, <1>5, <1>6, <1>7, <1>8, <1>9, <1>10, <1>11, <1>12, QuietKeeps

\* A write damages the last line, or leaves the lines, or adds one.
LEMMA WriteLeaves ==
  ASSUME NEW f, GoodLog(f), NEW e, e \in Events, NEW extent, extent \in Extents,
         NEW g, g = AppendLine(f, e, extent)
  PROVE  /\ ~HasDamage(g) => \/ g.lines = f.lines /\ extent = "nothing"
                             \/ g.lines = Append(f.lines, e) /\ e # Damaged
         /\ extent = "whole" =>
              g.ended /\ g.lines # <<>> /\ g.lines[Len(g.lines)] \in {e, Damaged}
<1>1. /\ f.lines \in Seq(Events \cup {Damaged})
      /\ DOMAIN f.lines = 1 .. Len(f.lines) /\ Len(f.lines) \in Nat
  BY LinesTyped DEF GoodLog
<1>2. CASE extent = "nothing"
  BY <1>2 DEF AppendLine
<1>3. CASE extent # "nothing" /\ f.ended
  <2> DEFINE line == IF extent = "part" THEN Damaged ELSE e
  <2>1. g.lines = Append(f.lines, line) /\ g.ended = (extent = "whole")
    BY <1>3 DEF AppendLine
  <2>2. line \in {e, Damaged} /\ line \in Events \cup {Damaged}
    OBVIOUS
  <2> HIDE DEF line
  <2>3. /\ Len(g.lines) = Len(f.lines) + 1 /\ g.lines # <<>>
        /\ Len(g.lines) \in DOMAIN g.lines /\ g.lines[Len(g.lines)] = line
    BY <1>1, <2>1, <2>2
  <2>4. ~HasDamage(g) => line # Damaged
    BY <2>3 DEF HasDamage
  <2> QED
    BY <2>1, <2>2, <2>3, <2>4
<1>4. CASE extent # "nothing" /\ ~f.ended
  <2>1. /\ g.lines = [f.lines EXCEPT ![Len(f.lines)] = Damaged]
        /\ g.ended = (extent = "whole") /\ f.lines # <<>>
    BY <1>4 DEF AppendLine, GoodLog
  <2>2. Len(f.lines) \in DOMAIN f.lines
    BY <1>1, <2>1
  <2>3. /\ Len(g.lines) = Len(f.lines) /\ Len(g.lines) \in DOMAIN g.lines
        /\ g.lines[Len(g.lines)] = Damaged
    BY <1>1, <2>1, <2>2, ExceptSeq
  <2>4. HasDamage(g) /\ g.lines # <<>>
    BY <2>3 DEF HasDamage
  <2> QED
    BY <2>1, <2>3, <2>4
<1> QED
  BY <1>2, <1>3, <1>4

LEMMA ButLast ==
  ASSUME NEW f, NEW g, f.lines \in Seq(Events \cup {Damaged}), NEW e, e \in Events,
         g.lines = Append(f.lines, e)
  PROVE  SubSeq(g.lines, 1, Len(g.lines) - 1) = f.lines
  OBVIOUS

LEMMA WriteInv ==
  ASSUME FileIInv, NEW c, c \in Callers, Write(c)
  PROVE  FileIInv'
<1>1. /\ UNCHANGED <<disk, applied, losses, queue, event, request, answer, held>>
      /\ phase[c] = "writing" /\ phase' = [phase EXCEPT ![c] = "syncing"]
      /\ file' = AppendLine(file, event[c], "whole")
  BY DEF Write
<1>2. /\ ~HasDamage(file) /\ event[c] = NewEvent(file, request[c]) /\ Expected(c, file)
      /\ request[c] \in Requests /\ GoodLog(file) /\ GoodLog(disk) /\ Holds(disk, file)
  BY <1>1 DEF FileIInv, WritingOK, RouteOK
<1>3. event[c] \in Events
  BY <1>2, NewEventTyped
<1>4. GoodLog(file') /\ Holds(file, file')
  BY <1>1, <1>2, AppendIsGood DEF Expected, Extents
<1>5. Holds(disk, file')
  BY <1>2, <1>4, HoldsOn DEF GoodLog
<1>6. /\ ~HasDamage(file') => file'.lines = Append(file.lines, event[c])
      /\ file'.ended /\ file'.lines # <<>>
      /\ file'.lines[Len(file'.lines)] \in {event[c], Damaged}
  <2>1. "whole" \in Extents /\ "whole" # "nothing"
    BY DEF Extents
  <2> QED
    BY <1>1, <1>2, <1>3, <2>1, WriteLeaves
<1>7. /\ phase'[c] = "syncing"
      /\ \A d \in Callers : d # c => phase'[d] = phase[d] /\ ~AtWork(d)
  BY <1>1, OneAtWork DEF FileIInv, RouteOK, AtWork
<1>8. ~Syncing
  BY <1>1, <1>7 DEF Syncing, AtWork
<1>9. Settled = file
  BY <1>8, SettledIsFile
<1>10. ~HasDamage(file') => Settled'.lines = file.lines
  <2>1. Settled' = [file' EXCEPT !.lines = SubSeq(@, 1, Len(@) - 1)]
    BY <1>7 DEF Settled
  <2>2. Settled'.lines = SubSeq(file'.lines, 1, Len(file'.lines) - 1)
    BY <1>4, <2>1 DEF GoodLog, Files
  <2>3. file.lines \in Seq(Events \cup {Damaged})
    BY <1>2 DEF GoodLog, Files
  <2> QED
    BY <1>3, <1>6, <2>2, <2>3, ButLast
<1>11. ~HasDamage(file') => \A q : StateIn(Settled', q) = StateIn(file, q)
  BY <1>10, StateByLines
<1>12. RouteOK(FileSteps)'
  BY <1>1 DEF FileIInv, RouteOK, FileSteps
<1>13. FileLock'
  BY <1>1, <1>7 DEF FileIInv, FileLock, AtWork, Running
<1>14. QueuedOK' /\ WritingOK'
  BY <1>1, <1>7 DEF FileIInv, QueuedOK, WritingOK, AtWork
<1>15. SyncingOK'
  <2>1. ASSUME NEW d, d \in Callers, phase'[d] = "syncing" PROVE d = c
    BY <1>7, <2>1 DEF AtWork
  <2>2. event[c].question = request[c].question /\ event[c].next = request[c].next
    BY <1>2 DEF NewEvent
  <2>3. ~HasDamage(file') => Expected(c, Settled)'
    BY <1>1, <1>2, <1>11 DEF Expected
  <2> QED
    BY <1>1, <1>3, <1>6, <2>1, <2>2, <2>3 DEF SyncingOK
<1>16. HeldOK'
  BY <1>1, <1>2, <1>7, <1>9, <1>11 DEF FileIInv, HeldOK
<1>17. AppliedOK'
  BY <1>1 DEF FileIInv, AppliedOK
<1>18. queue' \in Seq(Callers) /\ event' \in [Callers -> Events \cup {NoRequest}]
       /\ applied' \subseteq Events /\ losses' \in 0 .. Losses
  BY <1>1 DEF FileIInv
<1> QED
  BY <1>1, <1>2, <1>4, <1>5, <1>12, <1>13, <1>14, <1>15, <1>16, <1>17, <1>18 DEF FileIInv

\* A task that wrote ends.
LEMMA SettleInv ==
  ASSUME FileIInv, NEW c, c \in Callers, NEW a, a \in Answers, AtWork(c), Settle(c, a),
         request' = request, losses' = losses, Witness,
         GoodLog(file'), GoodLog(disk'), Holds(disk', file'), AppliedOK',
         applied' \subseteq Events
  PROVE  FileIInv'
<1>1. /\ phase' = [phase EXCEPT ![c] = "idle"] /\ answer' = [answer EXCEPT ![c] = a]
      /\ event' = [event EXCEPT ![c] = NoRequest] /\ queue' = Tail(queue)
  BY DEF Settle, Reply
<1>2. queue \in Seq(Callers) /\ queue # <<>>
  BY DEF FileIInv, FileLock, Running
<1>3. queue' \in Seq(Callers)
  BY <1>1, <1>2
<1>4. /\ event' \in [Callers -> Events \cup {NoRequest}] /\ losses' \in 0 .. Losses
      /\ phase' \in [Callers -> {"idle", "called"} \cup FileSteps]
      /\ answer' \in [Callers -> Answers]
  BY <1>1 DEF FileIInv, RouteOK
<1>5. \A d \in Callers : phase'[d] = IF d = c THEN "idle" ELSE phase[d]
  BY <1>1 DEF FileIInv, RouteOK
<1>6. \A d \in Callers : d # c => ~AtWork(d)
  BY OneAtWork DEF FileIInv
<1>7. \A d \in Callers : ~AtWork(d)' /\ phase'[d] \in {"idle", phase[d], "lost"}
  BY <1>5, <1>6 DEF AtWork
<1>8. \A d \in Callers : phase'[d] # "idle" => phase[d] # "idle"
  BY <1>5
<1> QED
  BY <1>3, <1>4, <1>7, <1>8, AfterWork

\* What a write that is under way may leave.
LEMMA InterruptedIsGood ==
  ASSUME FileIInv, NEW g, g \in Interrupted
  PROVE  GoodLog(g) /\ Holds(file, g) /\ Holds(disk, g)
<1>1. GoodLog(file) /\ GoodLog(disk) /\ Holds(disk, file) /\ Holds(file, file)
  BY HoldsItself, LinesTyped DEF FileIInv, GoodLog
<1>2. CASE g = file
  BY <1>1, <1>2
<1>3. ASSUME NEW c \in Callers, phase[c] = "writing", NEW cut \in Cuts,
             g = AppendLine(file, event[c], cut)
      PROVE  GoodLog(g) /\ Holds(file, g)
  <2>1. /\ ~HasDamage(file) /\ event[c] = NewEvent(file, request[c]) /\ Expected(c, file)
        /\ request[c] \in Requests
    BY <1>3 DEF FileIInv, WritingOK, RouteOK
  <2>2. cut \in Extents
    BY <1>3, CutsAssumption
  <2> QED
    BY <1>1, <1>3, <2>1, <2>2, AppendIsGood DEF Expected
<1>4. GoodLog(g) /\ Holds(file, g)
  BY <1>1, <1>2, <1>3 DEF Interrupted
<1> QED
  BY <1>1, <1>4, HoldsOn DEF GoodLog

LEMMA AppliedKept ==
  ASSUME FileIInv, applied' = applied, GoodLog(disk'), Holds(disk, disk')
  PROVE  AppliedOK'
<1>1. /\ HasDamage(disk) => HasDamage(disk')
      /\ RecordsIn(disk) \subseteq RecordsIn(disk') \/ HasDamage(disk')
  BY HoldsRecords DEF FileIInv, GoodLog
<1> QED
  BY <1>1 DEF FileIInv, AppliedOK

LEMMA WriteFailsInv ==
  ASSUME FileIInv, NEW c, c \in Callers, WriteFails(c)
  PROVE  FileIInv'
<1>1. /\ phase[c] = "writing" /\ Settle(c, Plain("unavailable"))
      /\ UNCHANGED <<disk, request, applied, losses>> /\ Witness
      /\ file' \in Interrupted
  BY DEF WriteFails, Interrupted
<1>2. AtWork(c) /\ Plain("unavailable") \in Answers
  BY <1>1, RepliesAreAnswers DEF AtWork
<1>3. GoodLog(file') /\ Holds(disk, file') /\ GoodLog(disk)
  BY <1>1, InterruptedIsGood DEF FileIInv
<1>4. AppliedOK' /\ applied' \subseteq Events
  BY <1>1 DEF FileIInv, AppliedOK
<1> QED
  BY <1>1, <1>2, <1>3, <1>4, SettleInv

LEMMA SyncInv ==
  ASSUME FileIInv, NEW c, c \in Callers, Sync(c)
  PROVE  FileIInv'
<1>1. /\ phase[c] = "syncing" /\ Settle(c, Applied(event[c].next))
      /\ disk' = file /\ UNCHANGED <<file, request, losses>> /\ Witness
      /\ applied' = applied \cup {event[c]}
  BY DEF Sync
<1>2. /\ event[c] \in Events /\ file.lines # <<>>
      /\ file.lines[Len(file.lines)] \in {event[c], Damaged}
      /\ GoodLog(file) /\ GoodLog(disk) /\ Holds(disk, file)
  BY <1>1 DEF FileIInv, SyncingOK
<1>3. AtWork(c) /\ Applied(event[c].next) \in Answers
  BY <1>1, <1>2, RepliesAreAnswers DEF AtWork, Events
<1>4. Len(file.lines) \in DOMAIN file.lines /\ Holds(file, file)
  <2>1. Len(file.lines) \in Nat /\ DOMAIN file.lines = 1 .. Len(file.lines)
        /\ file.lines \in Seq(Events \cup {Damaged})
    BY <1>2, LinesTyped DEF GoodLog
  <2>2. Len(file.lines) # 0
    BY <1>2, <2>1
  <2> QED
    BY <2>1, <2>2, HoldsItself
<1>5. ~HasDamage(file) => event[c] \in RecordsIn(file)
  BY <1>2, <1>4 DEF HasDamage, RecordsIn, Reads
<1>6. ~HasDamage(file) => applied \subseteq RecordsIn(file)
  BY <1>2, HoldsRecords DEF FileIInv, AppliedOK, GoodLog
<1>7. AppliedOK'
  BY <1>1, <1>5, <1>6 DEF AppliedOK
<1>8. applied' \subseteq Events
  BY <1>1, <1>2 DEF FileIInv
<1> QED
  BY <1>1, <1>2, <1>3, <1>4, <1>7, <1>8, SettleInv

LEMMA SyncFailsInv ==
  ASSUME FileIInv, NEW c, c \in Callers, SyncFails(c)
  PROVE  FileIInv'
<1>1. /\ phase[c] = "syncing" /\ Settle(c, Plain("unavailable"))
      /\ disk' \in {disk, file} /\ UNCHANGED <<file, request, applied, losses>> /\ Witness
  BY DEF SyncFails
<1>2. AtWork(c) /\ Plain("unavailable") \in Answers
  BY <1>1, RepliesAreAnswers DEF AtWork
<1>3. /\ GoodLog(file) /\ GoodLog(disk) /\ Holds(disk, file)
      /\ Holds(file, file) /\ Holds(disk, disk)
  BY HoldsItself, LinesTyped DEF FileIInv, GoodLog
<1>4. GoodLog(disk') /\ Holds(disk', file') /\ Holds(disk, disk') /\ GoodLog(file')
  BY <1>1, <1>3
<1>5. AppliedOK'
  BY <1>1, <1>4, AppliedKept
<1>6. applied' \subseteq Events
  BY <1>1 DEF FileIInv
<1> QED
  BY <1>1, <1>2, <1>4, <1>5, <1>6, SettleInv

LEMMA ForgetInv ==
  ASSUME FileIInv, ForgetCalls, Witness, losses' \in 0 .. Losses,
         GoodLog(file'), GoodLog(disk'), Holds(disk', file'), Holds(disk, disk')
  PROVE  FileIInv'
<1>1. /\ queue' = <<>> /\ event' = [d \in Callers |-> NoRequest]
      /\ UNCHANGED <<request, applied>>
      /\ phase' \in [Callers -> {"idle", "called"} \cup FileSteps]
      /\ answer' \in [Callers -> Answers]
  BY RepliesAreAnswers DEF ForgetCalls, FileIInv, RouteOK, FileSteps
<1>2. queue' \in Seq(Callers) /\ event' \in [Callers -> Events \cup {NoRequest}]
      /\ applied' \subseteq Events
  BY <1>1 DEF FileIInv
<1>3. /\ \A d \in Callers : ~AtWork(d)' /\ phase'[d] \in {"idle", phase[d], "lost"}
      /\ \A d \in Callers : phase'[d] # "idle" => phase[d] # "idle"
  BY DEF ForgetCalls, AtWork
<1>4. AppliedOK'
  BY <1>1, AppliedKept
<1> QED
  BY <1>1, <1>2, <1>3, <1>4, AfterWork

LEMMA CrashInv ==
  ASSUME FileIInv, ProcessDies \/ PowerLost
  PROVE  FileIInv'
<1>1. GoodLog(disk) /\ Holds(disk, disk)
  BY HoldsItself, LinesTyped DEF FileIInv, GoodLog
<1>2. CASE ProcessDies
  <2>1. ForgetCalls /\ Witness /\ file' \in Interrupted /\ UNCHANGED <<disk, losses>>
    BY <1>2 DEF ProcessDies
  <2>2. GoodLog(file') /\ Holds(disk', file')
    BY <2>1, InterruptedIsGood
  <2>3. losses' \in 0 .. Losses
    BY <2>1 DEF FileIInv
  <2> QED
    BY <1>1, <2>1, <2>2, <2>3, ForgetInv
<1>3. CASE PowerLost
  <2>1. /\ ForgetCalls /\ Witness /\ losses < Losses /\ losses' = losses + 1
        /\ disk' = file'
    BY <1>3 DEF PowerLost
  <2>2. PICK f \in Interrupted : file' \in Survivors(disk, f)
    BY <1>3 DEF PowerLost
  <2>3. GoodLog(f) /\ Holds(disk, f)
    BY <2>2, InterruptedIsGood
  <2>4. GoodLog(file') /\ Holds(disk, file')
    BY <1>1, <2>2, <2>3, SurvivorIsGood
  <2>5. Holds(file', file')
    BY <2>4, HoldsItself, LinesTyped DEF GoodLog
  <2>6. losses' \in 0 .. Losses
    BY <2>1, BoundsAssumption DEF FileIInv
  <2> QED
    BY <2>1, <2>4, <2>5, <2>6, ForgetInv
<1> QED
  BY <1>2, <1>3

LEMMA FileNextInv == FileIInv /\ [FileNext]_fileVars => FileIInv'
<1> SUFFICES ASSUME FileIInv, [FileNext]_fileVars PROVE FileIInv'
  OBVIOUS
<1>1. ASSUME NEW c \in Callers, NEW r \in Requests, FileCall(c, r) PROVE FileIInv'
  BY <1>1, FileCallInv
<1>2. ASSUME NEW c \in Callers, RefuseUnqueued(c) \/ ConnectionLost(c) PROVE FileIInv'
  BY <1>2, RefuseUnqueuedInv
<1>3. ASSUME NEW c \in Callers, Enqueue(c) \/ Decide(c) PROVE FileIInv'
  BY <1>3, EnqueueInv, DecideInv
<1>4. ASSUME NEW c \in Callers, ReadFails(c) \/ RefuseStale(c) PROVE FileIInv'
  BY <1>4, RefuseInv
<1>5. ASSUME NEW c \in Callers, Write(c) \/ WriteFails(c) PROVE FileIInv'
  BY <1>5, WriteInv, WriteFailsInv
<1>6. ASSUME NEW c \in Callers, Sync(c) \/ SyncFails(c) PROVE FileIInv'
  BY <1>6, SyncInv, SyncFailsInv
<1>7. CASE UNCHANGED fileVars
  <2>1. /\ UNCHANGED <<file, disk, applied, losses, queue, event, phase, request, answer, held>>
    BY <1>7 DEF fileVars
  <2>2. FileLock' /\ QueuedOK' /\ WritingOK' /\ RouteOK(FileSteps)'
    BY <2>1 DEF FileIInv, FileLock, AtWork, Running, QueuedOK, WritingOK, Expected, RouteOK
  <2>3. queue' \in Seq(Callers) /\ event' \in [Callers -> Events \cup {NoRequest}]
    BY <2>1 DEF FileIInv
  <2>4. ~HasDamage(file) =>
          \A d \in Callers :
            phase'[d] # "idle" => StateIn(Settled, request'[d].question) \in held'[d]
    BY <2>1 DEF FileIInv, HeldOK
  <2> QED
    BY <2>1, <2>2, <2>3, <2>4, QuietKeeps
<1> QED
  BY <1>1, <1>2, <1>3, <1>4, <1>5, <1>6, <1>7, CrashInv DEF FileNext

LEMMA FileInvariant == FileSpec => []FileIInv
  BY FileInitInv, FileNextInv, PTL DEF FileSpec

\* Whatever write is cut, sync fails, process dies or power is lost, every line of the file
\* that reads is numbered by its place and continues its question's chain
\* (FileQuestionLifecycleLog.append, under the queue of its directory).
THEOREM LogKeptAChain == FileSpec => []LogIsAChain
  BY FileInvariant, FileInvImplies, PTL

\* An event that was answered with 200 is on the device and read back from it, or every
\* read is refused for a damaged line (FileQuestionLifecycleLog.durablyAppend, readAll).
THEOREM NothingLost == FileSpec => []NothingLostSilently
  BY FileInvariant, FileInvImplies, PTL

----------------------------------------------------------------------------
(* The file is a register until a line is damaged, but for losses of power *)

FState == [q \in Questions |-> StateIn(Settled, q)]

FVars == <<FState, RPhase, request, answer, held, {}>>

\* The lines went from f to g by the change r asks for.
Changed(f, g, r) ==
  \A q : StateIn(g, q) = IF q = r.question THEN r.next ELSE StateIn(f, q)

Unchanged(f, g) == \A q : StateIn(g, q) = StateIn(f, q)

LEMMA FStateKept ==
  ASSUME Unchanged(Settled, Settled')
  PROVE  FState' = FState
  BY DEF FState, Unchanged

LEMMA FileInitMaps == FileInit => FileRegister!Init
<1> SUFFICES ASSUME FileInit PROVE FileRegister!Init
  OBVIOUS
<1>1. Settled = EmptyFile
  BY DEF FileInit, NothingAsked, Settled
<1>2. Reads(EmptyFile) = {}
  BY DEF Reads, EmptyFile
<1>3. FState = Seeded
  BY <1>1, <1>2, SeededAssumption DEF FState, StateIn, EventsOf
<1>4. RPhase = [c \in Callers |-> "idle"]
  BY DEF FileInit, NothingAsked, RPhase
<1> QED
  BY <1>3, <1>4
     DEF FileInit, NothingAsked, FileRegister!Init, FState, RPhase, Plain, FileRegister!Plain

\* Every open call about another question has seen its state already.
LEMMA NothingNewSeen ==
  ASSUME FileIInv, ~HasDamage(file), Witness, Unchanged(Settled, file')
  PROVE  held' = held
<1>1. ASSUME NEW d \in Callers PROVE held'[d] = held[d]
  BY <1>1 DEF Witness, Unchanged, FileIInv, HeldOK
<1> QED
  BY <1>1 DEF Witness, FileIInv, RouteOK

LEMMA ChangeIsSeen ==
  ASSUME FileIInv, ~HasDamage(file), Witness, Settled' = file', NEW c \in Callers,
         phase[c] # "idle", Expected(c, Settled), Changed(Settled, file', request[c])
  PROVE  FileRegister!Change(request[c])
<1> DEFINE r == request[c]
<1>1. r \in Requests /\ r.question \in Questions /\ r.expected # r.next
  BY DEF FileIInv, RouteOK, Requests, Expected, Storable
<1>2. FState[r.question] = r.expected
  BY <1>1 DEF FState, Expected
<1>3. FState' = [FState EXCEPT ![r.question] = r.next]
  BY <1>1 DEF FState, Changed
<1>4. ASSUME NEW d \in Callers
      PROVE  held'[d] = IF RPhase[d] # "idle" /\ request[d].question = r.question
                          THEN held[d] \cup {r.next} ELSE held[d]
  <2>1. CASE phase[d] = "idle"
    BY <2>1 DEF Witness, RPhase
  <2>2. CASE phase[d] # "idle" /\ request[d].question = r.question
    BY <2>2 DEF Witness, RPhase, Changed
  <2>3. CASE phase[d] # "idle" /\ request[d].question # r.question
    <3>1. StateIn(file', request[d].question) \in held[d]
      BY <2>3 DEF Changed, FileIInv, HeldOK
    <3>2. held'[d] = held[d] \cup {StateIn(file', request[d].question)}
      BY <2>3 DEF Witness
    <3> QED
      BY <2>3, <3>1, <3>2
  <2> QED
    BY <2>1, <2>2, <2>3
<1>5. held' = [d \in Callers |->
                 IF RPhase[d] # "idle" /\ request[d].question = r.question
                   THEN held[d] \cup {r.next} ELSE held[d]]
  BY <1>4 DEF Witness
<1> QED
  BY <1>1, <1>2, <1>3, <1>5 DEF FileRegister!Change, FState, RPhase

\* The route's reply is the answer of the register.
LEMMA FileFinishMaps ==
  ASSUME FileIInv, NEW c \in Callers, phase[c] # "idle", NEW a,
         RPhase' = [RPhase EXCEPT ![c] = "idle"], answer' = [answer EXCEPT ![c] = a],
         request' = request
  PROVE  FileRegister!Finish(c, a)
<1>1. RPhase[c] = "called"
  BY DEF RPhase
<1> QED
  BY <1>1 DEF FileRegister!Finish, RPhase

LEMMA UnavailableMaps ==
  ASSUME FileIInv, NEW c \in Callers, phase[c] # "idle",
         RPhase' = [RPhase EXCEPT ![c] = "idle"],
         answer' = [answer EXCEPT ![c] = Plain("unavailable")], request' = request,
         (FState' = FState /\ held' = held) \/ FileRegister!Change(request[c])
  PROVE  FileRegister!Next
<1>1. FileRegister!Finish(c, Plain("unavailable"))
  BY FileFinishMaps
<1>2. FileRegister!AnswerUnavailable(c)
  BY <1>1 DEF FileRegister!AnswerUnavailable, FState, RPhase, Plain, FileRegister!Plain
<1> QED
  BY <1>2 DEF FileRegister!Next

LEMMA FileCallMaps ==
  ASSUME FileIInv, NEW c \in Callers, NEW r \in Requests, FileCall(c, r)
  PROVE  FileRegister!Next
<1>1. RPhase' = [RPhase EXCEPT ![c] = "called"] /\ RPhase[c] = "idle"
  BY PhaseMoves DEF FileCall, Ask, FileIInv, RPhase
<1>2. Settled' = Settled
  BY DEF FileCall, Ask, FileIInv, RouteOK, Settled
<1>3. FState' = FState
  BY <1>2 DEF FState
<1>4. FState[r.question] = StateIn(Settled, r.question)
  BY DEF FState, Requests
<1>5. FileRegister!Call(c, r)
  BY <1>1, <1>3, <1>4
     DEF FileCall, Ask, FileRegister!Call, FState, RPhase, Plain, FileRegister!Plain
<1> QED
  BY <1>5
     DEF FileRegister!Next, Requests, FileRegister!Requests, States, FileRegister!States

LEMMA RefuseUnqueuedMaps ==
  ASSUME FileIInv, NEW c \in Callers, RefuseUnqueued(c)
  PROVE  FileRegister!Next
<1>1. RPhase' = [RPhase EXCEPT ![c] = "idle"]
  BY PhaseMoves DEF RefuseUnqueued, Refuse, Reply, FileIInv
<1>2. FileRegister!Finish(c, Plain("invalid"))
  BY <1>1, FileFinishMaps DEF RefuseUnqueued, Refuse, Reply
<1>3. Settled' = Settled
  BY DEF RefuseUnqueued, Refuse, Reply, FileIInv, RouteOK, Settled
<1>4. FState' = FState
  BY <1>3 DEF FState
<1>5. FileRegister!AnswerInvalid(c)
  BY <1>2, <1>4
     DEF RefuseUnqueued, Refuse, Storable, FileRegister!AnswerInvalid, FState, RPhase, Plain,
         FileRegister!Plain
<1> QED
  BY <1>5 DEF FileRegister!Next

\* A task that cannot read, or a call whose server died.
LEMMA NothingDoneMaps ==
  ASSUME FileIInv, NEW c \in Callers, ReadFails(c) \/ ConnectionLost(c)
  PROVE  FileRegister!Next
<1>1. /\ Reply(c, Plain("unavailable")) /\ file' = file /\ request' = request /\ held' = held
      /\ phase[c] \in {"queued", "lost"}
  BY DEF ReadFails, ConnectionLost, Settle
<1>2. RPhase' = [RPhase EXCEPT ![c] = "idle"]
  BY <1>1, PhaseMoves DEF Reply, FileIInv
<1>3. Settled' = Settled
  BY <1>1 DEF Reply, FileIInv, RouteOK, Settled
<1>4. FState' = FState
  BY <1>3 DEF FState
<1> QED
  BY <1>1, <1>2, <1>4, UnavailableMaps DEF Reply

LEMMA RefuseStaleMaps ==
  ASSUME FileIInv, NEW c \in Callers, RefuseStale(c)
  PROVE  FileRegister!Next
<1>1. PICK s : s = StateIn(file, request[c].question)
  OBVIOUS
<1>2. /\ Reply(c, Stale(s)) /\ file' = file /\ request' = request /\ held' = held
      /\ Running(c) /\ phase[c] = "queued" /\ ~HasDamage(file) /\ s # request[c].expected
  BY <1>1 DEF RefuseStale, Settle
<1>3. \A d \in Callers : ~AtWork(d)
  BY <1>2 DEF FileIInv, FileLock, AtWork, Running
<1>4. Settled = file
  BY <1>3, SettledIsFile DEF Syncing, AtWork
<1>5. s \in held[c]
  BY <1>1, <1>2, <1>4 DEF FileIInv, HeldOK
<1>6. RPhase' = [RPhase EXCEPT ![c] = "idle"]
  BY <1>2, PhaseMoves DEF Reply, FileIInv
<1>7. Settled' = Settled
  BY <1>2 DEF Reply, FileIInv, RouteOK, Settled
<1>8. FState' = FState
  BY <1>7 DEF FState
<1>9. FileRegister!Finish(c, Stale(s))
  BY <1>2, <1>6, FileFinishMaps DEF Reply
<1>10. FileRegister!AnswerStale(c)
  BY <1>2, <1>5, <1>8, <1>9
     DEF FileRegister!AnswerStale, FState, RPhase, Stale, FileRegister!Stale
<1> QED
  BY <1>10 DEF FileRegister!Next

\* Queueing, deciding and writing do not show.
LEMMA BeforeTheLineStutters ==
  ASSUME FileIInv, NEW c \in Callers, Enqueue(c) \/ Decide(c)
  PROVE  FVars' = FVars
<1>1. RPhase' = RPhase
  BY PhaseKept DEF Enqueue, Decide, FileIInv
<1>2. Settled' = Settled
  BY DEF Enqueue, Decide, FileIInv, RouteOK, Settled
<1>3. FState' = FState
  BY <1>2 DEF FState
<1> QED
  BY <1>1, <1>3 DEF Enqueue, Decide, FVars

LEMMA WriteStutters ==
  ASSUME FileIInv, NEW c \in Callers, Write(c), ~HasDamage(file')
  PROVE  FVars' = FVars
<1>1. /\ UNCHANGED <<request, answer, held>> /\ phase[c] = "writing"
      /\ phase' = [phase EXCEPT ![c] = "syncing"]
      /\ file' = AppendLine(file, event[c], "whole")
  BY DEF Write
<1>2. /\ ~HasDamage(file) /\ event[c] = NewEvent(file, request[c]) /\ Expected(c, file)
      /\ request[c] \in Requests /\ GoodLog(file)
  BY <1>1 DEF FileIInv, WritingOK, RouteOK
<1>3. event[c] \in Events /\ file.lines \in Seq(Events \cup {Damaged})
  BY <1>2, NewEventTyped DEF GoodLog, Files
<1>4. "whole" \in Extents /\ "whole" # "nothing"
  BY DEF Extents
<1>5. file'.lines = Append(file.lines, event[c])
  BY <1>1, <1>2, <1>3, <1>4, WriteLeaves
<1>6. GoodLog(file')
  BY <1>1, <1>2, <1>4, AppendIsGood DEF Expected
<1>7. Settled = file
  <2>1. \A d \in Callers : phase[d] # "syncing"
    BY <1>1, OneAtWork DEF FileIInv, AtWork
  <2> QED
    BY <2>1, SettledIsFile DEF Syncing
<1>8. Settled' = [file' EXCEPT !.lines = SubSeq(@, 1, Len(@) - 1)]
  BY <1>1 DEF FileIInv, RouteOK, Settled
<1>9. Settled'.lines = SubSeq(file'.lines, 1, Len(file'.lines) - 1)
  BY <1>6, <1>8 DEF GoodLog, Files
<1>10. Settled'.lines = file.lines
  BY <1>3, <1>5, <1>9, ButLast
<1>11. Unchanged(Settled, Settled')
  BY <1>7, <1>10, StateByLines DEF Unchanged
<1>12. FState' = FState
  BY <1>11, FStateKept
<1>13. RPhase' = RPhase
  BY <1>1, PhaseKept DEF FileIInv
<1> QED
  BY <1>1, <1>12, <1>13 DEF FVars

\* With its line in the file, and whole, the answer to come is the change it asks for.
LEMMA SettledLacksLast ==
  ASSUME FileIInv, NEW c \in Callers, phase[c] = "syncing", ~HasDamage(file)
  PROVE  Expected(c, Settled) /\ Changed(Settled, file, request[c])
<1> DEFINE n == Len(file.lines)
<1>1. /\ file.lines # <<>> /\ event[c] \in Events /\ file.lines[n] \in {event[c], Damaged}
      /\ event[c].question = request[c].question /\ event[c].next = request[c].next
      /\ Expected(c, Settled) /\ GoodLog(file) /\ GoodLog(Settled)
  BY SettledIsGood DEF FileIInv, SyncingOK
<1>2. /\ file.lines \in Seq(Events \cup {Damaged}) /\ n \in Nat
      /\ DOMAIN file.lines = 1 .. n /\ file \in Files
  BY <1>1, LinesTyped DEF GoodLog
<1>3. n \in DOMAIN file.lines /\ n \in Nat \ {0}
  BY <1>1, <1>2
<1>4. file.lines[n] # Damaged /\ file.lines[n] = event[c]
  BY <1>1, <1>3 DEF HasDamage
<1>5. Settled = [file EXCEPT !.lines = SubSeq(@, 1, Len(@) - 1)]
  BY DEF Settled
<1>6. Settled.lines = SubSeq(file.lines, 1, n - 1)
  BY <1>2, <1>5 DEF Files
<1>7. file.lines = Append(Settled.lines, event[c])
  BY <1>2, <1>3, <1>4, <1>6
<1>8. event[c] # Damaged
  BY <1>4
<1>9. \A q : StateIn(file, q) = IF q = event[c].question THEN event[c].next
                                ELSE StateIn(Settled, q)
  BY <1>1, <1>7, <1>8, AppendChanges
<1> QED
  BY <1>1, <1>9 DEF Changed

\* Whoever is at work when the file is left as it is: nothing was done, or the change.
LEMMA WorkLeaves ==
  ASSUME FileIInv, NEW c \in Callers, AtWork(c), NEW g, g \in Interrupted,
         ~HasDamage(file), ~HasDamage(g)
  PROVE  \/ Unchanged(Settled, g)
         \/ Expected(c, Settled) /\ Changed(Settled, g, request[c])
<1>1. \A d \in Callers : AtWork(d) => d = c
  BY OneAtWork DEF FileIInv
<1>2. CASE phase[c] = "syncing"
  <2>1. g = file
    BY <1>1, <1>2 DEF Interrupted, AtWork
  <2> QED
    BY <1>2, <2>1, SettledLacksLast
<1>3. CASE phase[c] = "writing"
  <2>1. Settled = file
    BY <1>1, <1>3, SettledIsFile DEF Syncing, AtWork
  <2>2. CASE g = file
    BY <2>1, <2>2 DEF Unchanged
  <2>3. ASSUME NEW cut \in Cuts, g = AppendLine(file, event[c], cut)
        PROVE  \/ Unchanged(Settled, g)
               \/ Expected(c, Settled) /\ Changed(Settled, g, request[c])
    <3>1. /\ event[c] = NewEvent(file, request[c]) /\ Expected(c, file)
          /\ request[c] \in Requests /\ GoodLog(file) /\ cut \in Extents
      BY <1>3, <2>3, CutsAssumption DEF FileIInv, WritingOK, RouteOK
    <3>2. event[c] \in Events
      BY <3>1, NewEventTyped
    <3>3. g.lines = file.lines \/ (g.lines = Append(file.lines, event[c]) /\ event[c] # Damaged)
      BY <2>3, <3>1, <3>2, WriteLeaves
    <3>4. CASE g.lines = file.lines
      BY <2>1, <3>4, StateByLines DEF Unchanged
    <3>5. CASE g.lines = Append(file.lines, event[c]) /\ event[c] # Damaged
      <4>1. GoodLog(g)
        BY <2>3, <3>1, AppendIsGood DEF Expected
      <4>2. \A q : StateIn(g, q) = IF q = event[c].question THEN event[c].next
                                   ELSE StateIn(file, q)
        BY <3>1, <3>2, <3>5, <4>1, AppendChanges
      <4>3. event[c].question = request[c].question /\ event[c].next = request[c].next
        BY <3>1 DEF NewEvent
      <4> QED
        BY <2>1, <3>1, <4>2, <4>3 DEF Changed
    <3> QED
      BY <3>3, <3>4, <3>5
  <2>4. g = file \/ \E cut \in Cuts : g = AppendLine(file, event[c], cut)
    BY <1>1 DEF Interrupted, AtWork
  <2> QED
    BY <2>2, <2>3, <2>4
<1> QED
  BY <1>2, <1>3 DEF AtWork

\* A task that wrote ends without an answer from the store.
LEMMA WorkFails ==
  ASSUME FileIInv, NEW c \in Callers, AtWork(c), file' \in Interrupted, Witness,
         ~HasDamage(file), ~HasDamage(file'), Settled' = file', request' = request,
         RPhase' = [RPhase EXCEPT ![c] = "idle"],
         answer' = [answer EXCEPT ![c] = Plain("unavailable")]
  PROVE  FileRegister!Next
<1>1. \/ Unchanged(Settled, file')
      \/ Expected(c, Settled) /\ Changed(Settled, file', request[c])
  BY WorkLeaves
<1>2. phase[c] # "idle"
  BY DEF AtWork
<1>3. CASE Unchanged(Settled, file')
  <2>1. held' = held
    BY <1>3, NothingNewSeen
  <2>2. FState' = FState
    BY <1>3, FStateKept
  <2> QED
    BY <1>2, <2>1, <2>2, UnavailableMaps
<1>4. CASE Expected(c, Settled) /\ Changed(Settled, file', request[c])
  BY <1>2, <1>4, ChangeIsSeen, UnavailableMaps
<1> QED
  BY <1>1, <1>3, <1>4

LEMMA SettleMaps ==
  ASSUME FileIInv, NEW c \in Callers, NEW a, AtWork(c), Settle(c, a)
  PROVE  /\ Settled' = file' /\ RPhase' = [RPhase EXCEPT ![c] = "idle"]
         /\ answer' = [answer EXCEPT ![c] = a]
<1>1. phase' = [phase EXCEPT ![c] = "idle"] /\ answer' = [answer EXCEPT ![c] = a]
  BY DEF Settle, Reply
<1>2. \A d \in Callers : phase'[d] # "syncing"
  BY <1>1, OneAtWork DEF FileIInv, RouteOK, AtWork
<1> QED
  BY <1>1, <1>2, PhaseMoves DEF Settled, FileIInv

LEMMA WorkFailsMaps ==
  ASSUME FileIInv, NEW c \in Callers, WriteFails(c) \/ SyncFails(c),
         ~HasDamage(file), ~HasDamage(file')
  PROVE  FileRegister!Next
<1>1. /\ AtWork(c) /\ Settle(c, Plain("unavailable")) /\ Witness /\ request' = request
      /\ file' \in Interrupted
  BY DEF WriteFails, SyncFails, AtWork, Interrupted
<1> QED
  BY <1>1, SettleMaps, WorkFails

LEMMA SyncMaps ==
  ASSUME FileIInv, NEW c \in Callers, Sync(c), ~HasDamage(file)
  PROVE  FileRegister!Next
<1>1. /\ phase[c] = "syncing" /\ Settle(c, Applied(event[c].next)) /\ Witness
      /\ request' = request /\ file' = file /\ AtWork(c)
  BY DEF Sync, AtWork
<1>2. Expected(c, Settled) /\ Changed(Settled, file', request[c])
  BY <1>1, SettledLacksLast
<1>3. /\ Settled' = file' /\ RPhase' = [RPhase EXCEPT ![c] = "idle"]
      /\ answer' = [answer EXCEPT ![c] = Applied(event[c].next)]
  BY <1>1, SettleMaps
<1>4. event[c].next = request[c].next
  BY <1>1 DEF FileIInv, SyncingOK
<1>5. FileRegister!Change(request[c])
  BY <1>1, <1>2, <1>3, ChangeIsSeen
<1>6. PICK a : a = Applied(request[c].next)
  OBVIOUS
<1>7. FileRegister!Finish(c, a)
  BY <1>1, <1>3, <1>4, <1>6, FileFinishMaps
<1>8. FileRegister!AnswerApplied(c)
  BY <1>5, <1>6, <1>7
     DEF FileRegister!AnswerApplied, FileRegister!Finish, Applied, FileRegister!Applied
<1> QED
  BY <1>8 DEF FileRegister!Next

LEMMA ProcessDiesMaps ==
  ASSUME FileIInv, ProcessDies, ~HasDamage(file), ~HasDamage(file')
  PROVE  FileRegister!Next \/ FVars' = FVars
<1>1. /\ Witness /\ file' \in Interrupted /\ request' = request
      /\ phase' = [d \in Callers |-> IF phase[d] = "idle" \/ AtWork(d) THEN "idle" ELSE "lost"]
      /\ answer' = [d \in Callers |-> IF AtWork(d) THEN Plain("unavailable") ELSE answer[d]]
  BY DEF ProcessDies, ForgetCalls, AtWork
<1>2. Settled' = file'
  BY <1>1 DEF Settled
<1>3. CASE \E c \in Callers : AtWork(c)
  <2>1. PICK c \in Callers : AtWork(c)
    BY <1>3
  <2>2. \A d \in Callers : AtWork(d) <=> d = c
    BY <2>1, OneAtWork DEF FileIInv
  <2>3. RPhase' = [RPhase EXCEPT ![c] = "idle"]
    BY <1>1, <2>1, <2>2 DEF RPhase
  <2>4. answer' = [answer EXCEPT ![c] = Plain("unavailable")]
    BY <1>1, <2>1, <2>2 DEF FileIInv, RouteOK
  <2> QED
    BY <1>1, <1>2, <2>1, <2>3, <2>4, WorkFails
<1>4. CASE \A c \in Callers : ~AtWork(c)
  <2>1. file' = file /\ Settled = file
    BY <1>1, <1>4, SettledIsFile DEF Interrupted, Syncing, AtWork
  <2>2. Unchanged(Settled, file')
    BY <2>1 DEF Unchanged
  <2>3. held' = held /\ FState' = FState
    BY <1>1, <1>2, <2>2, NothingNewSeen, FStateKept
  <2>4. RPhase' = RPhase
    BY <1>1, <1>4 DEF RPhase
  <2>5. answer' = answer
    BY <1>1, <1>4 DEF FileIInv, RouteOK
  <2> QED
    BY <1>1, <2>3, <2>4, <2>5 DEF FVars
<1> QED
  BY <1>3, <1>4

\* While the machine has power, a write, whole or cut, is all that changes the file.
LEMMA FileChanges ==
  ASSUME FileIInv, [FileNext]_fileVars, losses' = losses
  PROVE  \/ file' = file
         \/ \E c \in Callers : /\ phase[c] = "writing"
                               /\ \E extent \in Extents :
                                    file' = AppendLine(file, event[c], extent)
<1>1. ~PowerLost
  BY DEF PowerLost, FileIInv
<1>2. ASSUME file' \in Interrupted
      PROVE  \/ file' = file
             \/ \E c \in Callers : /\ phase[c] = "writing"
                                   /\ \E extent \in Extents :
                                        file' = AppendLine(file, event[c], extent)
  BY <1>2, CutsAssumption DEF Interrupted
<1>3. ProcessDies => file' \in Interrupted
  BY DEF ProcessDies
<1>4. ASSUME NEW c \in Callers, WriteFails(c) PROVE file' \in Interrupted
  BY <1>4 DEF WriteFails, Interrupted
<1>5. ASSUME NEW c \in Callers, Write(c)
      PROVE  phase[c] = "writing" /\ \E extent \in Extents :
                                       file' = AppendLine(file, event[c], extent)
  BY <1>5 DEF Write, Extents
<1>6. ASSUME NEW c \in Callers,
             \/ \E r \in Requests : FileCall(c, r)
             \/ RefuseUnqueued(c) \/ Enqueue(c) \/ ReadFails(c) \/ RefuseStale(c)
             \/ Decide(c) \/ Sync(c) \/ SyncFails(c) \/ ConnectionLost(c)
      PROVE  file' = file
  BY <1>6
     DEF FileCall, RefuseUnqueued, Enqueue, ReadFails, RefuseStale, Decide, Sync,
         SyncFails, ConnectionLost
<1>7. UNCHANGED fileVars => file' = file
  BY DEF fileVars
<1> QED
  BY <1>1, <1>2, <1>3, <1>4, <1>5, <1>6, <1>7 DEF FileNext

\* What the file holds it keeps, or damages, while the machine has power.
LEMMA FileKeeps ==
  ASSUME FileIInv, [FileNext]_fileVars, losses' = losses
  PROVE  Holds(file, file')
<1>1. GoodLog(file) /\ Holds(file, file)
  BY HoldsItself, LinesTyped DEF FileIInv, GoodLog
<1>2. ASSUME NEW c \in Callers, phase[c] = "writing", NEW extent \in Extents
      PROVE  Holds(file, AppendLine(file, event[c], extent))
  <2>1. /\ ~HasDamage(file) /\ event[c] = NewEvent(file, request[c]) /\ Expected(c, file)
        /\ request[c] \in Requests
    BY <1>2 DEF FileIInv, WritingOK, RouteOK
  <2> QED
    BY <1>1, <2>1, AppendIsGood DEF Expected
<1> QED
  BY <1>1, <1>2, FileChanges

LEMMA FileStepMaps ==
  FileIInv /\ [FileNext]_fileVars => (Orderly => [FileRegister!Next]_(FileRegister!vars))
<1> SUFFICES ASSUME FileIInv, [FileNext]_fileVars, Orderly
             PROVE  FileRegister!Next \/ FVars' = FVars
  BY DEF FileRegister!vars, FVars, FState, RPhase
<1>1. losses' = losses /\ ~HasDamage(file')
  BY DEF Orderly
<1>2. ~HasDamage(file)
  <2>1. Holds(file, file')
    BY <1>1, FileKeeps
  <2>2. ASSUME HasDamage(file) PROVE HasDamage(file')
    <3>1. PICK i \in DOMAIN file.lines : file.lines[i] = Damaged
      BY <2>2 DEF HasDamage
    <3>2. i \in DOMAIN file'.lines
      <4>1. i \in 1 .. Len(file.lines) /\ Len(file.lines) \in Nat
        BY <3>1, LinesTyped DEF FileIInv, GoodLog
      <4>2. Len(file.lines) <= Len(file'.lines)
        BY <2>1 DEF Holds
      <4>3. GoodLog(file')
        BY FileNextInv DEF FileIInv
      <4>4. DOMAIN file'.lines = 1 .. Len(file'.lines) /\ Len(file'.lines) \in Nat
        BY <4>3, LinesTyped DEF GoodLog
      <4> QED
        BY <4>1, <4>2, <4>4
    <3>3. file'.lines[i] = Damaged
      BY <2>1, <3>1 DEF Holds
    <3> QED
      BY <3>2, <3>3 DEF HasDamage
  <2> QED
    BY <1>1, <2>2
<1>3. ASSUME NEW c \in Callers, NEW r \in Requests, FileCall(c, r) PROVE FileRegister!Next
  BY <1>3, FileCallMaps
<1>4. ASSUME NEW c \in Callers, RefuseUnqueued(c) PROVE FileRegister!Next
  BY <1>4, RefuseUnqueuedMaps
<1>5. ASSUME NEW c \in Callers, ReadFails(c) \/ ConnectionLost(c) PROVE FileRegister!Next
  BY <1>5, NothingDoneMaps
<1>6. ASSUME NEW c \in Callers, RefuseStale(c) PROVE FileRegister!Next
  BY <1>6, RefuseStaleMaps
<1>7. ASSUME NEW c \in Callers, Enqueue(c) \/ Decide(c) \/ Write(c) PROVE FVars' = FVars
  BY <1>1, <1>7, BeforeTheLineStutters, WriteStutters
<1>8. ASSUME NEW c \in Callers, WriteFails(c) \/ SyncFails(c) PROVE FileRegister!Next
  BY <1>1, <1>2, <1>8, WorkFailsMaps
<1>9. ASSUME NEW c \in Callers, Sync(c) PROVE FileRegister!Next
  BY <1>2, <1>9, SyncMaps
<1>10. CASE ProcessDies
  BY <1>1, <1>2, <1>10, ProcessDiesMaps
<1>11. ~PowerLost
  BY <1>1 DEF PowerLost, FileIInv
<1>12. CASE UNCHANGED fileVars
  BY <1>12 DEF fileVars, FVars, FState, RPhase, Settled
<1> QED
  BY <1>3, <1>4, <1>5, <1>6, <1>7, <1>8, <1>9, <1>10, <1>11, <1>12 DEF FileNext

\* In every step that leaves the machine its power and every line readable, the file is the
\* compare-and-set register of the port: 200 is one change made by this call, 409 tells a
\* state that held during it (FileQuestionLifecycleLog.append).
THEOREM FileIsARegister == FileSpec => IsARegister
  BY FileInitMaps, FileStepMaps, FileInvariant, PTL DEF FileSpec, IsARegister

----------------------------------------------------------------------------
(* The rotation over the file *)

SnapshotOf(f) ==
  [q \in {e.question : e \in RecordsIn(f)} |->
     LET e == LatestOf(f, q) IN [state |-> e.next, sequence |-> e.sequence]]

\* The fold of the lines: a question has facts when it has events, those of its latest.
LEMMA SnapshotTells ==
  ASSUME NEW f, NEW q
  PROVE  /\ (q \in DOMAIN SnapshotOf(f)) <=> (EventsOf(f, q) # {})
         /\ (EventsOf(f, q) # {}) =>
              /\ SnapshotOf(f)[q].state = LatestOf(f, q).next
              /\ SnapshotOf(f)[q].sequence = LatestOf(f, q).sequence
         /\ EffectiveState(SnapshotOf(f), q) = StateIn(f, q)
<1>1. q \in {e.question : e \in RecordsIn(f)} <=> EventsOf(f, q) # {}
  BY DEF RecordsIn, EventsOf
<1>2. q \in DOMAIN SnapshotOf(f) <=> EventsOf(f, q) # {}
  BY <1>1 DEF SnapshotOf
<1>3. EventsOf(f, q) # {} =>
        SnapshotOf(f)[q] =
          [state |-> LatestOf(f, q).next, sequence |-> LatestOf(f, q).sequence]
  BY <1>1 DEF SnapshotOf
<1> QED
  BY <1>2, <1>3 DEF EffectiveState, StateIn

\* Lines are numbered by their places, so what is appended sorts behind all of them.
LEMMA SequencesBelow ==
  ASSUME NEW f, GoodLog(f), NEW q, EventsOf(f, q) # {}
  PROVE  LatestOf(f, q).sequence \in Nat /\ LatestOf(f, q).sequence <= Len(f.lines)
<1>1. PICK m \in EventsOf(f, q) : \A k \in EventsOf(f, q) : k <= m
  BY HasLast
<1>2. LatestOf(f, q) = f.lines[m]
  BY <1>1, LatestIsLast
<1>3. m \in Reads(f) /\ f.lines[m].sequence = m
  BY <1>1 DEF EventsOf, GoodLog, Linked
<1>4. m \in 1 .. Len(f.lines) /\ Len(f.lines) \in Nat
  BY <1>3, LinesTyped DEF GoodLog
<1> QED
  BY <1>2, <1>3, <1>4

\* Nobody is overtaken by a question that comes in behind every other, or that closes.
LEMMA NobodyOvertaken ==
  ASSUME NEW S, NEW T, NEW p, NEW n \in Nat,
         \A q : q # p => EffectiveState(T, q) = EffectiveState(S, q),
         \A q : q # p => (q \in DOMAIN T <=> q \in DOMAIN S),
         \A q \in DOMAIN S : q # p => T[q].sequence = S[q].sequence,
         \A q \in DOMAIN S : S[q].sequence \in Nat /\ S[q].sequence < n,
         p \in DOMAIN T, T[p].sequence = n,
         EffectiveState(S, p) = "open" => EffectiveState(T, p) # "open",
         NEW a \in Active(S), a \in OpenIn(T)
  PROVE  a \in Active(T)
<1>1. a \in OpenIn(S) /\ \A r \in OpenIn(S) \ {a} : Precedes(S, a, r)
  BY DEF Active
<1>2. a # p
  BY <1>1 DEF OpenIn
<1>3. ASSUME NEW r \in OpenIn(T) \ {a} PROVE Precedes(T, a, r)
  <2>1. CASE r = p
    BY <1>2, <2>1 DEF Precedes
  <2>2. CASE r # p
    <3>1. Precedes(S, a, r)
      BY <1>1, <1>3, <2>2 DEF OpenIn
    <3> QED
      BY <1>2, <2>2, <3>1 DEF Precedes
  <2> QED
    BY <2>1, <2>2
<1> QED
  BY <1>3 DEF Active

\* A step that leaves every line readable, and the machine its power, appends at most the
\* event of one request.
LEMMA OrderlyAppends ==
  ASSUME FileIInv, [FileNext]_fileVars, Orderly
  PROVE  \/ file'.lines = file.lines
         \/ \E c \in Callers :
              /\ file'.lines = Append(file.lines, event[c]) /\ event[c] # Damaged
              /\ event[c] = NewEvent(file, request[c]) /\ event[c] \in Events
              /\ Expected(c, file)
<1>1. losses' = losses /\ ~HasDamage(file')
  BY DEF Orderly
<1>2. ASSUME NEW c \in Callers, phase[c] = "writing", NEW extent \in Extents,
             file' = AppendLine(file, event[c], extent)
      PROVE  \/ file'.lines = file.lines
             \/ /\ file'.lines = Append(file.lines, event[c]) /\ event[c] # Damaged
                /\ event[c] = NewEvent(file, request[c]) /\ event[c] \in Events
                /\ Expected(c, file)
  <2>1. /\ event[c] = NewEvent(file, request[c]) /\ Expected(c, file)
        /\ request[c] \in Requests /\ GoodLog(file)
    BY <1>2 DEF FileIInv, WritingOK, RouteOK
  <2>2. event[c] \in Events
    BY <2>1, NewEventTyped
  <2> QED
    BY <1>1, <1>2, <2>1, <2>2, WriteLeaves
<1>3. ASSUME NEW c \in Callers, phase[c] = "writing",
             \E extent \in Extents : file' = AppendLine(file, event[c], extent)
      PROVE  \/ file'.lines = file.lines
             \/ /\ file'.lines = Append(file.lines, event[c]) /\ event[c] # Damaged
                /\ event[c] = NewEvent(file, request[c]) /\ event[c] \in Events
                /\ Expected(c, file)
  BY <1>2, <1>3
<1>4. \/ file' = file
      \/ \E c \in Callers : /\ phase[c] = "writing"
                            /\ \E extent \in Extents : file' = AppendLine(file, event[c], extent)
  BY <1>1, FileChanges
<1> QED
  BY <1>3, <1>4

LEMMA TurnStep ==
  FileIInv /\ [FileNext]_fileVars =>
    (file' # file /\ Orderly =>
       \A q \in Active(FileSnapshot) :
         q \in OpenIn(FileSnapshot') => q \in Active(FileSnapshot'))
<1> SUFFICES ASSUME FileIInv, [FileNext]_fileVars, Orderly,
                    NEW q \in Active(FileSnapshot), q \in OpenIn(FileSnapshot')
             PROVE  q \in Active(FileSnapshot')
  OBVIOUS
<1>1. FileSnapshot = SnapshotOf(file) /\ FileSnapshot' = SnapshotOf(file')
  BY DEF FileSnapshot, SnapshotOf
<1>2. CASE file'.lines = file.lines
  <2>1. SnapshotOf(file') = SnapshotOf(file)
    BY <1>2 DEF SnapshotOf, RecordsIn, LatestOf, EventsOf, Reads
  <2> QED
    BY <1>1, <2>1
<1>3. ASSUME NEW c \in Callers,
             /\ file'.lines = Append(file.lines, event[c]) /\ event[c] # Damaged
             /\ event[c] = NewEvent(file, request[c]) /\ event[c] \in Events
             /\ Expected(c, file)
      PROVE  q \in Active(FileSnapshot')
  <2> DEFINE p == event[c].question
             n == Len(file.lines) + 1
  <2>1. GoodLog(file) /\ GoodLog(file') /\ n \in Nat
    BY FileNextInv, LinesTyped DEF FileIInv, GoodLog
  <2>2. /\ p = request[c].question /\ event[c].next # StateIn(file, p)
        /\ event[c].sequence = n /\ event[c].next \in States
    BY <1>3 DEF NewEvent, Expected, Storable, Events
  <2>3. PICK S, T : S = SnapshotOf(file) /\ T = SnapshotOf(file')
    OBVIOUS
  <2>4. ASSUME NEW r, r # p
        PROVE  /\ EffectiveState(T, r) = EffectiveState(S, r)
               /\ r \in DOMAIN T <=> r \in DOMAIN S
               /\ r \in DOMAIN S => T[r].sequence = S[r].sequence
    BY <1>3, <2>1, <2>3, <2>4, LatestAfter, AppendChanges, SnapshotTells
  <2>5. \A r \in DOMAIN S : S[r].sequence \in Nat /\ S[r].sequence < n
    BY <2>1, <2>3, SequencesBelow, SnapshotTells
  <2>6. p \in DOMAIN T /\ T[p].sequence = n
    BY <1>3, <2>1, <2>2, <2>3, LatestAfter, SnapshotTells
  <2>7. EffectiveState(S, p) = StateIn(file, p) /\ EffectiveState(T, p) = event[c].next
    BY <1>3, <2>1, <2>3, AppendChanges, SnapshotTells
  <2>8. EffectiveState(S, p) = "open" => EffectiveState(T, p) # "open"
    BY <2>2, <2>7
  <2>9. q \in Active(S) /\ q \in OpenIn(T)
    BY <1>1, <2>3
  <2> HIDE DEF p, n
  <2>10. q \in Active(T)
    BY <2>1, <2>4, <2>5, <2>6, <2>8, <2>9, NobodyOvertaken
  <2> QED
    BY <1>1, <2>3, <2>10
<1> QED
  BY <1>2, <1>3, OrderlyAppends

\* Appending never takes the turn from the question being asked: what reopens goes behind
\* it (rotateQuestions over the snapshot that FileQuestionLifecycleLog folds).
THEOREM TurnKept == FileSpec => TurnIsKept
  BY FileInvariant, TurnStep, PTL DEF FileSpec, TurnIsKept

----------------------------------------------------------------------------
(* Whose turn it is *)

\* Sequence numbers of what was recorded are numbers.
Numbered(snapshot) == \A q \in DOMAIN snapshot : snapshot[q].sequence \in Nat

\* While any question is open exactly one is being asked, and none otherwise.
OneIsAsked(snapshot) ==
  IF OpenIn(snapshot) = {} THEN Active(snapshot) = {}
  ELSE \E q \in OpenIn(snapshot) : Active(snapshot) = {q}

\* A key in the numbers is least somewhere.
LEMMA LeastOf ==
  ASSUME NEW S, NEW key, S # {}, \A q \in S : key[q] \in Nat
  PROVE  \E q \in S : \A r \in S : key[q] <= key[r]
<1>1. PICK numbers : numbers = {key[q] : q \in S}
  OBVIOUS
<1>2. numbers \subseteq Nat /\ numbers # {}
  BY <1>1
<1>3. PICK x \in numbers : \A y \in numbers : ~(<<y, x>> \in OpToRel(<, Nat))
  BY ONLY <1>2, WFMin, NatLessThanWellFounded
<1>4. ASSUME NEW y \in numbers PROVE x <= y
  <2>1. y \in Nat /\ x \in Nat
    BY <1>2
  <2>2. ~(y < x)
    BY <1>3, <2>1 DEF OpToRel
  <2> QED
    BY <2>1, <2>2
<1> QED
  BY <1>1, <1>3, <1>4

\* The order of the sort is total: of two open questions one goes before the other.
LEMMA PrecedesIsTotal ==
  ASSUME NEW S, Numbered(S), NEW q \in Questions, NEW r \in Questions, q # r
  PROVE  /\ Precedes(S, q, r) \/ Precedes(S, r, q)
         /\ ~(Precedes(S, q, r) /\ Precedes(S, r, q))
<1>1. Position[q] \in Nat /\ Position[r] \in Nat /\ Position[q] # Position[r]
  BY PositionAssumption
<1>2. CASE q \in DOMAIN S /\ r \in DOMAIN S
  <2>1. S[q].sequence \in Nat /\ S[r].sequence \in Nat
    BY <1>2 DEF Numbered
  <2> QED
    BY <1>1, <1>2, <2>1 DEF Precedes
<1>3. CASE q \notin DOMAIN S \/ r \notin DOMAIN S
  BY <1>1, <1>3 DEF Precedes
<1> QED
  BY <1>2, <1>3

\* What has no event goes first, by its place; then what has one, by its number.
LEMMA SomeoneIsFirst ==
  ASSUME NEW S, Numbered(S), OpenIn(S) # {}
  PROVE  \E q \in OpenIn(S) : \A r \in OpenIn(S) \ {q} : Precedes(S, q, r)
<1>1. PICK open : open = OpenIn(S)
  OBVIOUS
<1>2. open \subseteq Questions /\ open # {} /\ \A q \in open : Position[q] \in Nat
  BY <1>1, PositionAssumption DEF OpenIn
<1> DEFINE fresh == {q \in open : q \notin DOMAIN S}
<1>3. CASE fresh # {}
  <2>1. PICK q \in fresh : \A r \in fresh : Position[q] <= Position[r]
    BY <1>2, <1>3, LeastOf
  <2>2. ASSUME NEW r \in open, r # q PROVE Precedes(S, q, r)
    <3>1. CASE r \in fresh
      <4>1. Position[q] # Position[r] /\ Position[q] <= Position[r]
        BY <1>2, <2>1, <2>2, <3>1, PositionAssumption
      <4> QED
        BY <1>2, <2>1, <3>1, <4>1 DEF Precedes
    <3>2. CASE r \notin fresh
      BY <2>1, <2>2, <3>2 DEF Precedes
    <3> QED
      BY <3>1, <3>2
  <2> QED
    BY <1>1, <2>1, <2>2
<1>4. CASE fresh = {}
  <2>1. PICK number : number = [q \in open |-> S[q].sequence]
    OBVIOUS
  <2>2. \A q \in open : q \in DOMAIN S /\ number[q] = S[q].sequence /\ number[q] \in Nat
    BY <1>4, <2>1 DEF Numbered
  <2>3. PICK p \in open : \A r \in open : number[p] <= number[r]
    BY <1>2, <2>2, LeastOf
  <2> DEFINE tied == {r \in open : number[r] = number[p]}
  <2>4. PICK q \in tied : \A r \in tied : Position[q] <= Position[r]
    <3>1. p \in tied /\ \A r \in tied : Position[r] \in Nat
      BY <1>2, <2>3
    <3>2. tied # {}
      BY <3>1
    <3> HIDE DEF tied
    <3> QED
      BY <3>1, <3>2, LeastOf
  <2>5. ASSUME NEW r \in open, r # q PROVE Precedes(S, q, r)
    <3>1. number[q] <= number[r] /\ q \in open
      BY <2>3, <2>4
    <3>2. CASE r \in tied
      <4>1. Position[q] # Position[r] /\ Position[q] <= Position[r]
        BY <1>2, <2>4, <2>5, <3>1, <3>2, PositionAssumption
      <4> QED
        BY <1>2, <2>2, <2>4, <3>1, <3>2, <4>1 DEF Precedes
    <3>3. CASE r \notin tied
      <4>1. number[q] < number[r]
        BY <2>2, <2>4, <3>1, <3>3
      <4> QED
        BY <2>2, <3>1, <4>1 DEF Precedes
    <3> QED
      BY <3>2, <3>3
  <2> QED
    BY <1>1, <2>4, <2>5
<1> QED
  BY <1>3, <1>4

\* Whatever the store recorded, the turn belongs to one question.
LEMMA OneTurn ==
  ASSUME NEW S, Numbered(S)
  PROVE  OneIsAsked(S)
<1>1. CASE OpenIn(S) = {}
  BY <1>1 DEF OneIsAsked, Active
<1>2. CASE OpenIn(S) # {}
  <2>1. PICK q \in OpenIn(S) : \A r \in OpenIn(S) \ {q} : Precedes(S, q, r)
    BY <1>2, SomeoneIsFirst
  <2>2. q \in Active(S)
    BY <2>1 DEF Active
  <2>3. ASSUME NEW r \in Active(S) PROVE r = q
    <3>1. r \in Questions /\ q \in Questions /\ r \in OpenIn(S)
      BY DEF Active, OpenIn
    <3>2. r # q => Precedes(S, q, r) /\ Precedes(S, r, q)
      BY <2>1, <3>1 DEF Active
    <3> QED
      BY <3>1, <3>2, PrecedesIsTotal
  <2> QED
    BY <1>2, <2>2, <2>3 DEF OneIsAsked
<1> QED
  BY <1>1, <1>2

\* Over every history of the table exactly one question is asked while any is open: the sort of
\* rotateQuestions has one head.
THEOREM OneIsAskedOfTheTable == Spec => []OneIsAsked(Snapshot)
<1>1. IInv => OneIsAsked(Snapshot)
  <2> SUFFICES ASSUME IInv PROVE OneIsAsked(Snapshot)
    OBVIOUS
  <2>1. ASSUME NEW q \in DOMAIN Snapshot PROVE Snapshot[q].sequence \in Nat
    <3>1. PICK r \in rows : r.question = q
      BY DEF Snapshot
    <3>2. q \in Questions /\ RowsOf(q) # {}
      BY <3>1 DEF IInv, TypeOK, Rows, RowsOf
    <3>3. Latest(q) \in rows
      BY <3>2 DEF IInv, HasLatest, Latest, Newest, RowsOf
    <3> QED
      BY <2>1, <3>3 DEF Snapshot, IInv, TypeOK, Rows
  <2>2. Numbered(Snapshot)
    BY <2>1 DEF Numbered
  <2> QED
    BY <2>2, OneTurn
<1> QED
  BY <1>1, Invariant, PTL

\* The same over the file, cut and damaged lines included.
THEOREM OneIsAskedOfTheFile == FileSpec => []OneIsAsked(FileSnapshot)
<1>1. FileIInv => OneIsAsked(FileSnapshot)
  <2> SUFFICES ASSUME FileIInv PROVE OneIsAsked(FileSnapshot)
    OBVIOUS
  <2>1. GoodLog(file) /\ FileSnapshot = SnapshotOf(file)
    BY DEF FileIInv, FileSnapshot, SnapshotOf
  <2>2. Numbered(SnapshotOf(file))
    BY <2>1, SequencesBelow, SnapshotTells DEF Numbered
  <2> QED
    BY <2>1, <2>2, OneTurn
<1> QED
  BY <1>1, FileInvariant, PTL
=============================================================================
