--------------------------- MODULE PostgresInbox ---------------------------
(***************************************************************************)
(* adapters/persistence/postgres-submission-inbox-store.ts over migration  *)
(* 0001, called by the two POST routes: INSERT ... ON CONFLICT DO NOTHING, *)
(* and when that inserted nothing, a SELECT of the row that was there.     *)
(* The insert waits for one of the same id that is in flight, so it takes  *)
(* effect at its commit; the SELECT is a statement of its own.             *)
(***************************************************************************)
EXTENDS InboxRoutes

VARIABLES
  rows,         \* the committed rows of submission_inbox
  abandoned     \* records of inserts whose caller gave up, still in the server

vars == <<rows, abandoned, phase, sent, answer, nextReceipt, told>>

\* MUTANT: migration 0001 without its primary key.
NeverHeld(s) == FALSE

Held(s) == \E r \in rows : r.submission = s

RowOf(s) == CHOOSE r \in rows : r.submission = s

Init == rows = {} /\ abandoned = {} /\ NothingSent

Send(c, s) ==
  /\ Post(c, s, "inserting")
  /\ UNCHANGED <<rows, abandoned>>

\* rowCount = 1: the record is the row now, 201.
Insert(c) ==
  /\ phase[c] = "inserting"
  /\ ~Held(sent[c].submission)
  /\ rows' = rows \cup {sent[c]}
  /\ Reply(c, StoredAs(sent[c]))
  /\ UNCHANGED abandoned

Conflict(c) ==
  /\ phase[c] = "inserting"
  /\ Held(sent[c].submission)
  /\ Step(c, "reading")
  /\ UNCHANGED <<rows, abandoned>>

\* MUTANT: the retry answered with the receipt minted for it.
ReadBackOwn(c) ==
  /\ phase[c] = "reading"
  /\ Reply(c, KeptAs(sent[c]))
  /\ UNCHANGED <<rows, abandoned>>

\* The row that was there, whatever it holds (a divergence is only logged): 200.
ReadBack(c) ==
  /\ phase[c] = "reading"
  /\ Reply(c, KeptAs(RowOf(sent[c].submission)))
  /\ UNCHANGED <<rows, abandoned>>

\* A statement fails with nothing done.
Fail(c) ==
  /\ phase[c] \in {"inserting", "reading"}
  /\ Reply(c, Plain("unavailable"))
  /\ UNCHANGED <<rows, abandoned>>

\* query_timeout or a dead connection: the insert stays in the server.
Abandon(c) ==
  /\ phase[c] = "inserting"
  /\ abandoned' = abandoned \cup {sent[c]}
  /\ Reply(c, Plain("unavailable"))
  /\ UNCHANGED rows

CommitAbandoned ==
  \E r \in abandoned :
    /\ ~Held(r.submission)
    /\ rows' = rows \cup {r}
    /\ abandoned' = abandoned \ {r}
    /\ UNCHANGED routeVars

DropAbandoned ==
  \E r \in abandoned :
    /\ abandoned' = abandoned \ {r}
    /\ UNCHANGED <<rows, routeVars>>

Handle(c) == Insert(c) \/ Conflict(c) \/ ReadBack(c)

Next ==
  \/ \E c \in Senders :
       \/ \E s \in Submissions : Send(c, s)
       \/ Insert(c)
       \/ Conflict(c)
       \/ ReadBack(c)
       \/ Fail(c)
       \/ Abandon(c)
  \/ CommitAbandoned
  \/ DropAbandoned

Spec == Init /\ [][Next]_vars

\* A handler that was called runs on; every await in it is bounded by a timeout.
FairSpec == Spec /\ \A c \in Senders : WF_vars(Handle(c))

----------------------------------------------------------------------------
(* Properties *)

TypeOK ==
  /\ rows \subseteq Minted /\ abandoned \subseteq Minted
  /\ RoutesOK({"inserting", "reading"})

\* One submission, one receipt, for ever: every receipt any of its requests was ever
\* given is the one of the only row it has (finding "two contradictory receipts",
\* submission-inbox-store.ts).
OneReceiptEach ==
  /\ told \subseteq rows
  /\ \A r, t \in rows : r.submission = t.submission => r = t

Port == INSTANCE SubmissionInbox WITH
  inbox <- [s \in Submissions |-> IF Held(s) THEN RowOf(s) ELSE NoRecord],
  phase <- [c \in Senders |-> IF phase[c] = "idle" THEN "idle" ELSE "called"],
  late  <- abandoned

\* The table with its primary key implements put-if-absent, and answers every request.
Implements == Port!Spec /\ Port!Answered
=============================================================================
