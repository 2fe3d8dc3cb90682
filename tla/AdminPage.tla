----------------------------- MODULE AdminPage -----------------------------
(***************************************************************************)
(* One adult's admin page (app/admin/page.tsx) in a browser: the sign-in   *)
(* panel, the question board (components/admin-question-board.tsx) and the *)
(* inbox view (components/admin-inbox-view.tsx) over the three admin       *)
(* routes, while other adults change the same questions and the session    *)
(* runs out.                                                               *)
(*                                                                         *)
(* The lifecycle log is the register the other modules refine: a state for *)
(* each question, changed by compare-and-set, and the number of events.    *)
(* An inbox page is the filters it was read for.  Every answer that is     *)
(* neither a page nor "denied" (400, 429, 503, offline, ten seconds over)  *)
(* is "failed": the page treats them alike but for the wording.            *)
(***************************************************************************)
EXTENDS Naturals

CONSTANTS
  Questions,
  Kinds,        \* values of the kind filter; None for "Alle"
  Typed,        \* texts of the question box; None for an empty box
  None,
  MaxHistory,   \* MAX_HISTORY_ENTRIES: how many entries of the archive one answer carries
  MaxPresses,   \* bound: how often the adult presses, selects or commits a filter
  MaxEvents     \* bound: how many changes the log takes

ASSUME NoneAssumption ==
  None \in Kinds /\ None \in Typed /\ None \notin Questions \cup {"denied", "failed"}
ASSUME HistoryAssumption == MaxHistory \in Nat
ASSUME BoundsAssumption == {MaxPresses, MaxEvents} \subseteq Nat

VARIABLES
  states,        \* the state of each question in the log
  events,        \* how many events the log holds
  touched,       \* auxiliary: the last event of each question, 0 for none
  late,          \* changes whose caller no longer waits and that may still happen
  session,       \* whether the cookie of this browser still opens the door
  screen,        \* what page.tsx has rendered: "page" or "gate"
  checking,      \* AdminAccessGate: isChecking
  refreshing,    \* a router.refresh() that the server has not answered
  presses,       \* how much of the bound is used
  board,         \* AdminQuestionBoard: page, or nothing
  boardFailure,  \* its failure
  boardLoading,  \* its isLoading
  pending,       \* its pendingId
  change,        \* the change in flight
  loads,         \* the reads of the board in flight
  issued,        \* how many of them there have been
  filters,       \* AdminInboxView: filters
  draft,         \* its questionDraft
  committed,     \* filters were set by the timer, and the effect that reads has not run
  list,          \* its page, or nothing
  listFailure,   \* its failure
  listLoading,   \* its isLoading
  latest,        \* its sequence: the newest ticket
  reads,         \* its reads in flight
  reauth         \* its hasRequestedReauth

server    == <<states, events, touched, late>>
door      == <<session, screen, checking, refreshing>>
boardVars == <<board, boardFailure, boardLoading, pending, change, loads, issued>>
listVars  == <<filters, draft, committed, list, listFailure, listLoading, latest, reads,
               reauth>>
vars      == <<server, door, presses, boardVars, listVars>>

Opposite(state) == IF state = "open" THEN "closed" ELSE "open"

Nothing == [answered |-> FALSE]

EmptyFilters == [kind |-> None, question |-> None]

\* A read of the board: snapshot, then history, then the answer. It has seen the events
\* behind its states, and carries some of the total by their places in the log.
NewLoad(number) ==
  [number |-> number, step |-> "sent", states |-> None, seen |-> 0, total |-> 0,
   history |-> {}]

\* events.slice(0, MAX_HISTORY_ENTRIES) of a log of so many events, the newest first.
Newest(total) == {e \in 1 .. total : e + MaxHistory > total}

NewRead(ticket, active) == [ticket |-> ticket, filters |-> active, step |-> "sent"]

\* What both components are when they mount: each has sent its first read.
Mounted(load) ==
  /\ board' = Nothing /\ boardFailure' = None /\ boardLoading' = TRUE
  /\ pending' = None /\ change' = Nothing
  /\ loads' = {load} /\ issued' = load.number
  /\ filters' = EmptyFilters /\ draft' = None /\ committed' = FALSE
  /\ list' = Nothing /\ listFailure' = None /\ listLoading' = TRUE
  /\ latest' = 1 /\ reads' = {NewRead(1, EmptyFilters)}
  /\ reauth' = FALSE

Init ==
  /\ states = [q \in Questions |-> "open"] /\ events = 0 /\ late = {}
  /\ touched = [q \in Questions |-> 0]
  /\ session = TRUE /\ screen = "page" /\ checking = FALSE /\ refreshing = FALSE
  /\ presses = 0
  /\ board = Nothing /\ boardFailure = None /\ boardLoading = TRUE
  /\ pending = None /\ change = Nothing
  /\ loads = {NewLoad(1)} /\ issued = 1
  /\ filters = EmptyFilters /\ draft = None /\ committed = FALSE
  /\ list = Nothing /\ listFailure = None /\ listLoading = TRUE
  /\ latest = 1 /\ reads = {NewRead(1, EmptyFilters)}
  /\ reauth = FALSE

\* The adult acts on what is rendered, after the effects of the last render.
Act ==
  /\ presses < MaxPresses
  /\ presses' = presses + 1
  /\ ~committed

----------------------------------------------------------------------------
(* The log behind the routes *)

\* append: compare-and-set.
Append(question, expected) ==
  /\ events < MaxEvents
  /\ states[question] = expected
  /\ states' = [states EXCEPT ![question] = Opposite(expected)]
  /\ events' = events + 1
  /\ touched' = [touched EXCEPT ![question] = events']

\* Another adult closes or reopens a question.
OtherChange(question) ==
  /\ Append(question, states[question])
  /\ UNCHANGED <<late, door, presses, boardVars, listVars>>

\* A change arrives at the log after its caller has given up.
LateChange ==
  \E l \in late :
    /\ late' = late \ {l}
    /\ \/ Append(l.question, l.expected)
       \/ states[l.question] # l.expected /\ UNCHANGED <<states, events, touched>>
    /\ UNCHANGED <<door, presses, boardVars, listVars>>

----------------------------------------------------------------------------
(* The question board *)

Replace(load, by) == loads' = (loads \ {load}) \cup {by}

\* MUTANT: the histories are read before the states.
ReadSnapshotLast(load) ==
  /\ session
  /\ \/ /\ load.step = "sent"
        /\ Replace(load, [load EXCEPT !.step = "snapshot", !.total = events,
                                      !.history = Newest(events)])
     \/ /\ load.step = "snapshot"
        /\ Replace(load, [load EXCEPT !.step = "granted", !.states = states,
                                      !.seen = events])
  /\ UNCHANGED <<server, door, presses, board, boardFailure, boardLoading, pending, change,
                 issued, listVars>>

\* GET /api/admin/questions: the snapshot first; the history in a second read, of which the
\* newest entries and the number of all are answered.
ReadBoard(load) ==
  /\ \/ /\ load.step = "sent" /\ session
        /\ Replace(load, [load EXCEPT !.step = "snapshot", !.states = states,
                                      !.seen = events])
     \/ /\ load.step = "snapshot"
        /\ Replace(load, [load EXCEPT !.step = "granted", !.total = events,
                                      !.history = Newest(events)])
  /\ UNCHANGED <<server, door, presses, board, boardFailure, boardLoading, pending, change,
                 issued, listVars>>

Unread(load, step) == Replace(load, [NewLoad(load.number) EXCEPT !.step = step])

\* Refused at the guard, or no answer that can be used within ten seconds.
FailLoad(load) ==
  /\ \/ load.step = "sent" /\ ~session /\ Unread(load, "denied")
     \/ load.step \in {"sent", "snapshot"} /\ Unread(load, "failed")
  /\ UNCHANGED <<server, door, presses, board, boardFailure, boardLoading, pending, change,
                 issued, listVars>>

\* load().then: no load knows of another.
DrawBoard(load) ==
  /\ load.step \in {"granted", "denied", "failed"}
  /\ loads' = loads \ {load}
  /\ IF load.step = "granted"
       THEN /\ board' = [answered |-> TRUE, states |-> load.states, seen |-> load.seen,
                         total |-> load.total, history |-> load.history]
            /\ boardFailure' = None
       ELSE board' = Nothing /\ boardFailure' = load.step
  /\ boardLoading' = FALSE
  /\ UNCHANGED <<server, door, presses, pending, change, issued, listVars>>

\* change() up to its request, from the state this row is rendering.
PressChange(question) ==
  /\ screen = "page" /\ ~boardLoading /\ board.answered
  /\ pending = None
  /\ Act
  /\ pending' = question
  /\ change' = [answered |-> TRUE, question |-> question, step |-> "posted",
                expected |-> board.states[question], seen |-> board.seen]
  /\ UNCHANGED <<server, door, board, boardFailure, boardLoading, loads, issued, listVars>>

Posted == change.answered /\ change.step = "posted"

Answered(step) == change' = [change EXCEPT !.step = step]

\* POST /api/admin/questions/[questionId].
HandleChange ==
  /\ Posted /\ session
  /\ \/ Append(change.question, change.expected) /\ Answered("applied")
     \/ /\ states[change.question] # change.expected
        /\ Answered("stale") /\ UNCHANGED <<states, events, touched>>
  /\ UNCHANGED <<late, door, presses, board, boardFailure, boardLoading, pending, loads,
                 issued, listVars>>

AsLate == [question |-> change.question, expected |-> change.expected]

\* Refused at the guard; or a failure after which nobody knows whether it landed.
FailChange ==
  /\ \/ Posted /\ ~session /\ Answered("denied") /\ UNCHANGED late
     \/ Posted /\ Answered("failed") /\ (late' = late \/ late' = late \cup {AsLate})
     \/ /\ change.answered /\ change.step \in {"applied", "stale"}
        /\ Answered("failed") /\ UNCHANGED late
  /\ UNCHANGED <<states, events, touched, door, presses, board, boardFailure, boardLoading, pending,
                 loads, issued, listVars>>

\* MUTANT: the buttons stay as they are after a failure.
DrawChangeBusy ==
  /\ change.answered /\ change.step # "posted"
  /\ change' = Nothing
  /\ pending' = IF change.step = "failed" THEN pending ELSE None
  /\ issued' = issued + 1
  /\ loads' = loads \cup {NewLoad(issued')}
  /\ UNCHANGED <<server, door, presses, board, boardFailure, boardLoading, listVars>>

\* The rest of change(): the button is free, and the board is read anew in every case.
DrawChange ==
  /\ change.answered /\ change.step # "posted"
  /\ change' = Nothing /\ pending' = None
  /\ issued' = issued + 1
  /\ loads' = loads \cup {NewLoad(issued')}
  /\ UNCHANGED <<server, door, presses, board, boardFailure, boardLoading, listVars>>

----------------------------------------------------------------------------
(* The inbox view *)

\* load up to its request: a ticket for the filters.
IssueRead(active) ==
  /\ latest' = latest + 1
  /\ reads' = reads \cup {NewRead(latest', active)}

\* A select and its effect, which React runs before it leaves the event.
SelectKind(kind) ==
  /\ screen = "page"
  /\ Act
  /\ filters' = [filters EXCEPT !.kind = kind]
  /\ listLoading' = TRUE
  /\ IssueRead(filters')
  /\ UNCHANGED <<server, door, boardVars, draft, committed, list, listFailure, reauth>>

\* MUTANT: the constant itself, which React does not take for a change.
ResetToConstant ==
  /\ screen = "page"
  /\ Act
  /\ draft' = None /\ filters' = EmptyFilters
  /\ listLoading' = TRUE
  /\ IF filters = EmptyFilters THEN UNCHANGED <<latest, reads>> ELSE IssueRead(filters')
  /\ UNCHANGED <<server, door, boardVars, committed, list, listFailure, reauth>>

\* "Filter zuruecksetzen": the box too, and a fresh object, so that the effect runs.
Reset ==
  /\ screen = "page"
  /\ Act
  /\ draft' = None /\ filters' = EmptyFilters
  /\ listLoading' = TRUE
  /\ IssueRead(filters')
  /\ UNCHANGED <<server, door, boardVars, committed, list, listFailure, reauth>>

\* A keystroke moves the box alone.
Type(text) ==
  /\ screen = "page" /\ ~committed
  /\ draft' = text
  /\ UNCHANGED <<server, door, presses, boardVars, filters, committed, list, listFailure,
                 listLoading, latest, reads, reauth>>

\* Typing has paused for 300 ms. The update comes from a timer: React renders it and runs
\* the effect in a later task.
CommitDraft ==
  /\ screen = "page" /\ draft # filters.question
  /\ Act
  /\ filters' = [filters EXCEPT !.question = draft]
  /\ listLoading' = TRUE
  /\ committed' = TRUE
  /\ UNCHANGED <<server, door, boardVars, draft, list, listFailure, latest, reads, reauth>>

RunEffect ==
  /\ committed
  /\ committed' = FALSE
  /\ IssueRead(filters)
  /\ UNCHANGED <<server, door, presses, boardVars, filters, draft, list, listFailure,
                 listLoading, reauth>>

\* GET /api/admin/inbox/submissions.
AnswerRead(read) ==
  /\ read.step = "sent"
  /\ \E step \in {IF session THEN "granted" ELSE "denied", "failed"} :
       reads' = (reads \ {read}) \cup {[read EXCEPT !.step = step]}
  /\ UNCHANGED <<server, door, presses, boardVars, filters, draft, committed, list,
                 listFailure, listLoading, latest, reauth>>

\* MUTANT: no look at the ticket.
DrawAny(read) ==
  /\ read.step # "sent"
  /\ reads' = reads \ {read}
  /\ listLoading' = FALSE
  /\ list' = IF read.step = "granted" THEN [answered |-> TRUE, filters |-> read.filters]
                                      ELSE Nothing
  /\ listFailure' = IF read.step = "granted" THEN None ELSE read.step
  /\ reauth' = (reauth \/ read.step = "denied")
  /\ refreshing' = (refreshing \/ (read.step = "denied" /\ ~reauth))
  /\ UNCHANGED <<server, session, screen, checking, presses, boardVars, filters, draft,
                 committed, latest>>

\* The rest of load: a superseded answer is dropped, a failure empties the list, and a
\* denied one asks the server to choose the screen again, once.
DrawList(read) ==
  /\ read.step # "sent"
  /\ reads' = reads \ {read}
  /\ IF read.ticket # latest
       THEN UNCHANGED <<list, listFailure, listLoading, reauth, refreshing>>
       ELSE /\ listLoading' = FALSE
            /\ list' = IF read.step = "granted"
                         THEN [answered |-> TRUE, filters |-> read.filters] ELSE Nothing
            /\ listFailure' = IF read.step = "granted" THEN None ELSE read.step
            /\ reauth' = (reauth \/ read.step = "denied")
            /\ refreshing' = (refreshing \/ (read.step = "denied" /\ ~reauth))
  /\ UNCHANGED <<server, session, screen, checking, presses, boardVars, filters, draft,
                 committed, latest>>

----------------------------------------------------------------------------
(* The door *)

SessionEnds ==
  /\ session
  /\ session' = FALSE
  /\ UNCHANGED <<server, screen, checking, refreshing, presses, boardVars, listVars>>

\* The server component chooses again; what is unmounted forgets, its requests run on.
Refresh ==
  /\ refreshing
  /\ refreshing' = FALSE
  /\ screen' = IF session THEN "page" ELSE "gate"
  /\ IF screen' = screen
       THEN UNCHANGED <<late, boardVars, listVars>>
       ELSE IF screen' = "page"
              THEN Mounted(NewLoad(1)) /\ UNCHANGED late
              ELSE /\ late' = IF Posted THEN late \cup {AsLate} ELSE late
                   /\ board' = Nothing /\ boardFailure' = None /\ boardLoading' = FALSE
                   /\ pending' = None /\ change' = Nothing
                   /\ loads' = {} /\ issued' = 0
                   /\ filters' = EmptyFilters /\ draft' = None /\ committed' = FALSE
                   /\ list' = Nothing /\ listFailure' = None /\ listLoading' = FALSE
                   /\ latest' = 0 /\ reads' = {} /\ reauth' = FALSE
  /\ UNCHANGED <<states, events, touched, session, checking, presses>>

\* handleSubmit of the panel.
EnterCode ==
  /\ screen = "gate" /\ ~checking /\ ~refreshing
  /\ Act
  /\ checking' = TRUE
  /\ UNCHANGED <<server, session, screen, refreshing, boardVars, listVars>>

\* The cookie comes with the answer; only the server can change the screen.
AnswerCode ==
  /\ checking
  /\ checking' = FALSE
  /\ \/ session' = TRUE /\ refreshing' = TRUE
     \/ UNCHANGED <<session, refreshing>>
  /\ UNCHANGED <<server, screen, presses, boardVars, listVars>>

Next ==
  \/ \E q \in Questions : OtherChange(q) \/ PressChange(q)
  \/ LateChange
  \/ \E load \in loads : ReadBoard(load) \/ FailLoad(load) \/ DrawBoard(load)
  \/ HandleChange
  \/ FailChange
  \/ DrawChange
  \/ \E kind \in Kinds : SelectKind(kind)
  \/ Reset
  \/ \E text \in Typed : Type(text)
  \/ CommitDraft
  \/ RunEffect
  \/ \E read \in reads : AnswerRead(read) \/ DrawList(read)
  \/ SessionEnds
  \/ Refresh
  \/ EnterCode
  \/ AnswerCode

Spec == Init /\ [][Next]_vars

ProceedBoard == \E load \in loads : ReadBoard(load) \/ FailLoad(load) \/ DrawBoard(load)

ProceedList == \E read \in reads : AnswerRead(read) \/ DrawList(read)

\* Every request ends by an answer or by AbortSignal.timeout, and React runs its effects.
FairSpec ==
  /\ Spec
  /\ WF_vars(ProceedBoard) /\ WF_vars(ProceedList) /\ WF_vars(RunEffect)
  /\ WF_vars(HandleChange \/ FailChange) /\ WF_vars(DrawChange)
  /\ WF_vars(Refresh) /\ WF_vars(AnswerCode)
----------------------------------------------------------------------------
(* Properties *)

States == {"open", "closed"}

Filters == [kind : Kinds, question : Typed]

TypeOK ==
  /\ states \in [Questions -> States] /\ events \in 0 .. MaxEvents
  /\ touched \in [Questions -> 0 .. MaxEvents]
  /\ late \subseteq [question : Questions, expected : States]
  /\ {session, checking, refreshing, boardLoading, listLoading, committed, reauth}
       \subseteq BOOLEAN
  /\ screen \in {"page", "gate"} /\ presses \in 0 .. MaxPresses
  /\ board.answered => board.states \in [Questions -> States]
  /\ pending \in Questions \cup {None} /\ (pending # None <=> change.answered)
  /\ boardFailure \in {None, "denied", "failed"} /\ listFailure \in {None, "denied", "failed"}
  /\ \A load \in loads : load.number \in 1 .. issued
  /\ filters \in Filters /\ draft \in Typed
  /\ list.answered => list.filters \in Filters
  /\ \A read \in reads : read.ticket \in 1 .. latest /\ read.filters \in Filters

\* The two reads of the board route may have changes between them: of the events behind the
\* states a board shows, none is left out by the total, and none is missing from the history
\* beside them but for being older than the MaxHistory newest of that total, which is when
\* the page says that older entries are not shown.
HistoryExplainsStates ==
  board.answered =>
    \A e \in 1 .. board.seen :
      e <= board.total /\ (e \in board.history \/ e + MaxHistory <= board.total)

\* "The newest filter is the only question being asked": when the newest read has been
\* answered, the list is the page of the filters in the controls, or a failure, and no
\* older read, arriving before it or after it, changes that.
NewestAnswerWins ==
  screen = "page" /\ ~committed /\ (\A read \in reads : read.ticket # latest) =>
    /\ ~listLoading
    /\ IF list.answered THEN list.filters = filters /\ listFailure = None
                        ELSE listFailure # None

\* No button and no list waits for ever: "the list would sit behind 'Wird geladen ...'
\* with no request in flight". And an inbox view that was denied gives way to the sign-in
\* panel: not "a screen carrying nothing to sign in with". (Sessions are opened only in this
\* page: had another tab signed in meanwhile, the refresh would find the page allowed.)
EveryWaitEnds ==
  /\ boardLoading ~> ~boardLoading
  /\ pending # None ~> pending = None
  /\ listLoading ~> ~listLoading
  /\ checking ~> ~checking
  /\ reauth ~> screen = "gate"

\* "instead of quietly undoing whatever happened in between" (admin-question-board.tsx):
\* a change that is applied finds the question as the adult's board has shown it, without
\* any event since.
NothingUndoneUnseen ==
  [][Posted /\ change'.answered /\ change'.step = "applied" =>
       touched[change.question] <= change.seen]_vars

\* "the board showing an older answer as the newer one" is what one change at a time is
\* for (admin-question-board.tsx): no board is replaced by an older one.
BoardNeverGoesBack ==
  [][board.answered /\ board'.answered => board'.seen >= board.seen]_vars

\* "the list always shows the results of the committed filter" (admin-inbox-view.tsx).
ListAnswersTheFilter ==
  screen = "page" /\ ~listLoading /\ list.answered => list.filters = filters
=============================================================================
