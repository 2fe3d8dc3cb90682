-------------------------- MODULE AdminPageProofs --------------------------
(***************************************************************************)
(* What the admin page shows, proved for every set of questions and of     *)
(* filters and for any number of presses and of changes.                   *)
(*                                                                         *)
(* The board and the inbox view share the door and nothing else, so each   *)
(* has an inductive invariant of its own.  A load carries its snapshot     *)
(* before its histories, and the log only grows: what a load has seen is   *)
(* never ahead of the log it has still to read.  The read with the newest  *)
(* ticket was sent with the filters of the controls, unless the effect     *)
(* that sends it has still to run; once it is drawn, or drops out with the *)
(* screen, no other read may touch the list.                               *)
(***************************************************************************)
EXTENDS AdminPage, TLAPS

LoadSteps == {"sent", "snapshot", "granted", "denied", "failed"}

Loads == [number : Nat, step : LoadSteps, states : {None} \cup [Questions -> States],
          seen : Nat, total : Nat, history : SUBSET Nat]

LogOK == states \in [Questions -> States] /\ events \in Nat

BoardOK ==
  board.answered => board.seen <= board.total /\ board.history = Newest(board.total)

\* Nothing a load has seen is ahead of the history it reads, or has still to read.
LoadsOK ==
  /\ loads \subseteq Loads
  /\ \A load \in loads :
       /\ load.step = "snapshot" => load.seen <= events
       /\ load.step = "granted" =>
            load.seen <= load.total /\ load.history = Newest(load.total)

Changes == [answered : {TRUE}, question : Questions, expected : States, seen : Nat,
            step : {"posted", "applied", "stale", "denied", "failed"}]

\* The expected state of a change is a state only because a board's states are.
ChangeOK == change = Nothing \/ change \in Changes

LateOK == late \subseteq [question : Questions, expected : States]

Boards == [answered : {TRUE}, states : [Questions -> States], seen : Nat, total : Nat,
           history : SUBSET Nat]

BoardShape ==
  /\ board = Nothing \/ board \in Boards
  /\ \A load \in loads : load.step \in {"snapshot", "granted"} =>
       load.states \in [Questions -> States]

BoardInv == LogOK /\ BoardOK /\ LoadsOK /\ BoardShape /\ ChangeOK /\ LateOK /\ issued \in Nat

Reads == [ticket : Nat, filters : Filters, step : {"sent", "granted", "denied", "failed"}]

\* The newest read asks for what the controls show, and with it gone the list answers them.
NewestOK ==
  ~committed => \A read \in reads : read.ticket = latest => read.filters = filters

TicketsOK == latest \in Nat /\ reads \subseteq Reads /\ \A read \in reads : read.ticket <= latest

ControlsOK == filters \in Filters /\ draft \in Typed

ListInv == TicketsOK /\ ControlsOK /\ NewestOK /\ NewestAnswerWins

----------------------------------------------------------------------------
(* The board *)

\* A change of the log leaves a log, one event longer, and nothing a load has seen ahead of it.
LEMMA AppendKeeps ==
  ASSUME NEW q \in Questions, NEW s \in States, Append(q, s), LogOK
  PROVE  LogOK' /\ events' = events + 1
<1>1. Opposite(s) \in States
  BY DEF Opposite, States
<1> QED BY <1>1 DEF Append, LogOK

LEMMA LoadsKept ==
  ASSUME LoadsOK, LogOK, events' \in Nat, events' >= events, loads' = loads
  PROVE  LoadsOK'
<1> QED BY DEF LoadsOK, LogOK, Loads

\* An action that touches neither the log nor the board changes nothing the board relies on.
LEMMA BoardLeftAlone ==
  ASSUME BoardInv, UNCHANGED <<server, boardVars>>
  PROVE  BoardInv'
<1> QED BY DEF BoardInv, server, boardVars, LogOK, BoardOK, LoadsOK, BoardShape, ChangeOK,
               LateOK

\* A load moves on by being replaced.
LEMMA ReplaceKeeps ==
  ASSUME BoardInv, NEW load \in loads, NEW by \in Loads, Replace(load, by),
         by.step = "snapshot" => by.seen <= events,
         by.step = "granted" => by.seen <= by.total /\ by.history = Newest(by.total),
         by.step \in {"snapshot", "granted"} => by.states \in [Questions -> States],
         UNCHANGED <<server, board, change, issued>>
  PROVE  BoardInv'
<1>1. LoadsOK'
  BY DEF BoardInv, LoadsOK, Replace, server
<1>2. BoardShape'
  BY DEF BoardInv, BoardShape, Replace
<1> QED BY <1>1, <1>2 DEF BoardInv, LogOK, BoardOK, ChangeOK, LateOK, server

LEMMA NewestAreEvents ==
  ASSUME NEW total \in Nat PROVE Newest(total) \in SUBSET Nat
<1> QED BY DEF Newest

LEMMA NewLoadIsALoad ==
  ASSUME NEW n \in Nat, NEW step \in LoadSteps
  PROVE  [NewLoad(n) EXCEPT !.step = step] \in Loads /\ NewLoad(n) \in Loads
<1> QED BY DEF NewLoad, Loads, LoadSteps

LEMMA InitBoard == Init => BoardInv
<1> SUFFICES ASSUME Init PROVE BoardInv
  OBVIOUS
<1>1. NewLoad(1) \in Loads /\ NewLoad(1).step = "sent"
  BY DEF NewLoad, Loads, LoadSteps
<1>2. LogOK
  BY DEF Init, LogOK, States
<1>3. LoadsOK /\ BoardShape
  BY <1>1 DEF Init, LoadsOK, BoardShape
<1>4. BoardOK /\ ChangeOK /\ LateOK /\ issued \in Nat
  BY DEF Init, BoardOK, ChangeOK, LateOK, Nothing
<1> QED BY <1>2, <1>3, <1>4 DEF BoardInv

LEMMA OtherChangeBoard ==
  ASSUME BoardInv, NEW q \in Questions, OtherChange(q) PROVE BoardInv'
<1> PICK s : s = states[q]
  OBVIOUS
<1>1. s \in States /\ Append(q, s)
  BY DEF BoardInv, LogOK, OtherChange
<1>2. LogOK' /\ events' = events + 1
  BY <1>1, AppendKeeps DEF BoardInv
<1>3. UNCHANGED <<late, board, loads, change, issued>>
  BY DEF OtherChange, boardVars
<1>4. LoadsOK'
  BY <1>2, <1>3, LoadsKept DEF BoardInv, LogOK
<1> QED BY <1>2, <1>3, <1>4 DEF BoardInv, BoardOK, BoardShape, ChangeOK, LateOK

LEMMA LateChangeBoard ==
  ASSUME BoardInv, LateChange PROVE BoardInv'
<1>1. PICK l \in late : /\ late' = late \ {l}
                        /\ \/ Append(l.question, l.expected)
                           \/ UNCHANGED <<states, events>>
  BY DEF LateChange
<1>2. l.question \in Questions /\ l.expected \in States
  BY DEF BoardInv, LateOK
<1>3. PICK q, s : q = l.question /\ s = l.expected
  OBVIOUS
<1>4. LogOK' /\ events' \in Nat /\ events' >= events
  <2>1. CASE Append(q, s)
    <3>1. LogOK' /\ events' = events + 1
      BY <1>2, <1>3, <2>1, AppendKeeps DEF BoardInv
    <3> QED BY <3>1 DEF BoardInv, LogOK
  <2>2. CASE UNCHANGED <<states, events>>
    BY <2>2 DEF BoardInv, LogOK
  <2> QED BY <1>1, <1>3, <2>1, <2>2
<1>5. UNCHANGED <<board, loads, change, issued>>
  BY DEF LateChange, boardVars
<1>6. LoadsOK'
  BY <1>4, <1>5, LoadsKept DEF BoardInv
<1>7. LateOK'
  BY <1>1 DEF BoardInv, LateOK
<1> QED BY <1>4, <1>5, <1>6, <1>7 DEF BoardInv, BoardOK, BoardShape, ChangeOK

LEMMA ReadBoardBoard ==
  ASSUME BoardInv, NEW load \in loads, ReadBoard(load) PROVE BoardInv'
<1>1. UNCHANGED <<server, board, change, issued>>
  BY DEF ReadBoard
<1>2. load \in Loads /\ LogOK
  BY DEF BoardInv, LoadsOK
<1>3. CASE load.step = "sent" /\ Replace(load, [load EXCEPT !.step = "snapshot", !.states = states,
                                                           !.seen = events])
  <2> PICK by : by = [load EXCEPT !.step = "snapshot", !.states = states, !.seen = events]
    OBVIOUS
  <2>1. by \in Loads /\ by.step = "snapshot" /\ by.seen = events /\ by.states = states
    BY <1>2 DEF Loads, LoadSteps, LogOK
  <2>2. by.seen <= events
    BY <1>2, <2>1 DEF LogOK
  <2>3. Replace(load, by) /\ by.states \in [Questions -> States]
    BY <1>2, <1>3, <2>1 DEF LogOK
  <2> QED BY <1>1, <2>1, <2>2, <2>3, ReplaceKeeps
<1>4. CASE load.step = "snapshot" /\ Replace(load, [load EXCEPT !.step = "granted",
                                                               !.total = events,
                                                               !.history = Newest(events)])
  <2> PICK by : by = [load EXCEPT !.step = "granted", !.total = events,
                                  !.history = Newest(events)]
    OBVIOUS
  <2>1. /\ by \in Loads /\ by.step = "granted" /\ by.total = events
        /\ by.history = Newest(by.total)
        /\ by.seen = load.seen /\ by.states = load.states
    BY <1>2, NewestAreEvents DEF Loads, LoadSteps, LogOK
  <2>2. load.seen <= events /\ load.states \in [Questions -> States]
    BY <1>4 DEF BoardInv, LoadsOK, BoardShape
  <2>3. Replace(load, by)
    BY <1>4
  <2> QED BY <1>1, <2>1, <2>2, <2>3, ReplaceKeeps
<1> QED BY <1>3, <1>4 DEF ReadBoard

LEMMA FailLoadBoard ==
  ASSUME BoardInv, NEW load \in loads, FailLoad(load) PROVE BoardInv'
<1>1. UNCHANGED <<server, board, change, issued>>
  BY DEF FailLoad
<1>2. PICK step \in {"denied", "failed"} : Unread(load, step)
  BY DEF FailLoad
<1>3. load.number \in Nat
  BY DEF BoardInv, LoadsOK, Loads
<1> PICK by : by = [NewLoad(load.number) EXCEPT !.step = step]
  OBVIOUS
<1>4. by \in Loads
  BY <1>3, NewLoadIsALoad DEF LoadSteps
<1>5. by.step = step
  BY DEF NewLoad
<1>6. Replace(load, by)
  BY <1>2 DEF Unread
<1> QED BY <1>1, <1>4, <1>5, <1>6, ReplaceKeeps

LEMMA DrawBoardBoard ==
  ASSUME BoardInv, NEW load \in loads, DrawBoard(load) PROVE BoardInv'
<1>1. UNCHANGED <<states, events, touched, late, change, issued>> /\ loads' = loads \ {load}
  BY DEF DrawBoard, server
<1>2. LoadsOK' /\ LogOK' /\ ChangeOK' /\ LateOK'
  BY <1>1 DEF BoardInv, LoadsOK, LogOK, ChangeOK, LateOK
<1>3. BoardOK' /\ BoardShape'
  <2>1. CASE load.step = "granted"
    <3>1. board' = [answered |-> TRUE, states |-> load.states, seen |-> load.seen,
                    total |-> load.total, history |-> load.history]
      BY <2>1 DEF DrawBoard
    <3>2. /\ load.seen <= load.total /\ load.states \in [Questions -> States]
          /\ load.seen \in Nat /\ load.total \in Nat
          /\ load.history \in SUBSET Nat /\ load.history = Newest(load.total)
      BY <2>1 DEF BoardInv, LoadsOK, BoardShape, Loads
    <3>3. board' \in Boards
      BY <3>1, <3>2 DEF Boards
    <3> QED BY <1>1, <3>1, <3>2, <3>3 DEF BoardInv, BoardOK, BoardShape
  <2>2. CASE load.step # "granted"
    <3>1. board' = Nothing
      BY <2>2 DEF DrawBoard
    <3> QED BY <1>1, <3>1 DEF BoardInv, BoardOK, BoardShape, Nothing
  <2> QED BY <2>1, <2>2
<1> QED BY <1>1, <1>2, <1>3 DEF BoardInv

LEMMA PressChangeBoard ==
  ASSUME BoardInv, NEW q \in Questions, PressChange(q) PROVE BoardInv'
<1>1. UNCHANGED <<states, events, touched, late, board, loads, issued>>
  BY DEF PressChange, server
<1>2. board \in Boards
  BY DEF PressChange, BoardInv, BoardShape, Nothing
<1>3. change' \in Changes
  BY <1>2 DEF PressChange, Changes, Boards
<1> QED BY <1>1, <1>3 DEF BoardInv, LogOK, BoardOK, LoadsOK, BoardShape, ChangeOK, LateOK

\* Only a change in flight has an answer.
LEMMA AnsweredKeeps ==
  ASSUME ChangeOK, change.answered,
         NEW step \in {"posted", "applied", "stale", "denied", "failed"}, Answered(step)
  PROVE  change \in Changes /\ ChangeOK'
<1>1. change \in Changes
  BY DEF ChangeOK, Nothing
<1> QED BY <1>1 DEF Answered, ChangeOK, Changes

LEMMA HandleChangeBoard ==
  ASSUME BoardInv, HandleChange PROVE BoardInv'
<1>1. UNCHANGED <<late, board, loads, issued>>
  BY DEF HandleChange
<1>2. change.answered /\ ChangeOK
  BY DEF HandleChange, Posted, BoardInv
<1>3. CASE Append(change.question, change.expected) /\ Answered("applied")
  <2>1. change \in Changes /\ ChangeOK'
    BY <1>2, <1>3, AnsweredKeeps
  <2>2. PICK q, s : q = change.question /\ s = change.expected
    OBVIOUS
  <2>3. LogOK' /\ events' = events + 1
    BY <1>3, <2>1, <2>2, AppendKeeps DEF BoardInv, Changes
  <2>4. LoadsOK'
    BY <1>1, <2>3, LoadsKept DEF BoardInv, LogOK
  <2> QED BY <1>1, <2>1, <2>3, <2>4 DEF BoardInv, BoardOK, BoardShape, LateOK
<1>4. CASE Answered("stale") /\ UNCHANGED <<states, events, touched>>
  <2>1. ChangeOK'
    BY <1>2, <1>4, AnsweredKeeps
  <2> QED BY <1>1, <1>4, <2>1 DEF BoardInv, LogOK, BoardOK, LoadsOK, BoardShape, LateOK
<1> QED BY <1>3, <1>4 DEF HandleChange

LEMMA FailChangeBoard ==
  ASSUME BoardInv, FailChange PROVE BoardInv'
<1>1. UNCHANGED <<states, events, touched, board, loads, issued>>
  BY DEF FailChange
<1>2. change.answered /\ ChangeOK
  BY DEF FailChange, Posted, BoardInv
<1>3. PICK step \in {"denied", "failed"} : Answered(step)
  BY DEF FailChange
<1>4. change \in Changes /\ ChangeOK'
  BY <1>2, <1>3, AnsweredKeeps
<1>5. LateOK'
  BY <1>4 DEF FailChange, AsLate, Changes, BoardInv, LateOK
<1> QED BY <1>1, <1>4, <1>5 DEF BoardInv, LogOK, BoardOK, LoadsOK, BoardShape

LEMMA DrawChangeBoard ==
  ASSUME BoardInv, DrawChange PROVE BoardInv'
<1>1. UNCHANGED <<states, events, touched, late, board>> /\ change' = Nothing
  BY DEF DrawChange, server
<1>2. PICK n \in Nat : issued' = n /\ loads' = loads \cup {NewLoad(n)}
  BY DEF DrawChange, BoardInv
<1>3. NewLoad(n) \in Loads /\ NewLoad(n).step = "sent"
  BY DEF NewLoad, Loads, LoadSteps
<1>4. LoadsOK' /\ BoardShape'
  BY <1>1, <1>2, <1>3 DEF BoardInv, LoadsOK, BoardShape
<1> QED BY <1>1, <1>2, <1>4 DEF BoardInv, LogOK, BoardOK, ChangeOK, LateOK

LEMMA RefreshBoard ==
  ASSUME BoardInv, Refresh PROVE BoardInv'
<1>1. UNCHANGED <<states, events, touched>>
  BY DEF Refresh
<1>2. CASE UNCHANGED <<late, boardVars>>
  BY <1>1, <1>2, BoardLeftAlone DEF server
<1>3. CASE Mounted(NewLoad(1)) /\ UNCHANGED late
  <2>1. NewLoad(1) \in Loads /\ NewLoad(1).step = "sent" /\ NewLoad(1).number = 1
    BY DEF NewLoad, Loads, LoadSteps
  <2>2. board' = Nothing /\ change' = Nothing /\ loads' = {NewLoad(1)} /\ issued' = 1
    BY <1>3, <2>1 DEF Mounted
  <2>3. LoadsOK' /\ BoardShape'
    BY <2>1, <2>2 DEF LoadsOK, BoardShape
  <2> QED BY <1>1, <1>3, <2>2, <2>3
          DEF BoardInv, LogOK, BoardOK, ChangeOK, LateOK, Nothing
<1>4. CASE /\ late' = IF Posted THEN late \cup {AsLate} ELSE late
           /\ board' = Nothing /\ change' = Nothing /\ loads' = {} /\ issued' = 0
  <2>1. LateOK'
    <3>1. CASE Posted
      <4>1. change \in Changes
        BY <3>1 DEF Posted, BoardInv, ChangeOK, Nothing
      <4>2. AsLate \in [question : Questions, expected : States]
        BY <4>1 DEF AsLate, Changes
      <4> QED BY <1>4, <3>1, <4>2 DEF BoardInv, LateOK
    <3>2. CASE ~Posted
      BY <1>4, <3>2 DEF BoardInv, LateOK
    <3> QED BY <3>1, <3>2
  <2>2. LoadsOK' /\ BoardShape' /\ BoardOK' /\ ChangeOK'
    BY <1>4 DEF LoadsOK, BoardShape, BoardOK, ChangeOK, Nothing
  <2> QED BY <1>1, <1>4, <2>1, <2>2 DEF BoardInv, LogOK
<1> QED BY <1>2, <1>3, <1>4 DEF Refresh

LEMMA StepBoard == BoardInv /\ [Next]_vars => BoardInv'
<1> SUFFICES ASSUME BoardInv, [Next]_vars PROVE BoardInv'
  OBVIOUS
<1>1. ASSUME NEW q \in Questions, OtherChange(q) PROVE BoardInv'
  BY <1>1, OtherChangeBoard
<1>2. ASSUME NEW q \in Questions, PressChange(q) PROVE BoardInv'
  BY <1>2, PressChangeBoard
<1>3. CASE LateChange
  BY <1>3, LateChangeBoard
<1>4. ASSUME NEW load \in loads, ReadBoard(load) \/ FailLoad(load) \/ DrawBoard(load)
      PROVE  BoardInv'
  BY <1>4, ReadBoardBoard, FailLoadBoard, DrawBoardBoard
<1>5. CASE HandleChange \/ FailChange \/ DrawChange
  BY <1>5, HandleChangeBoard, FailChangeBoard, DrawChangeBoard
<1>6. CASE Refresh
  BY <1>6, RefreshBoard
<1>7. CASE \/ \E kind \in Kinds : SelectKind(kind)
           \/ Reset \/ CommitDraft \/ RunEffect
           \/ \E text \in Typed : Type(text)
           \/ \E read \in reads : AnswerRead(read) \/ DrawList(read)
           \/ SessionEnds \/ EnterCode \/ AnswerCode
           \/ UNCHANGED vars
  <2>1. UNCHANGED <<server, boardVars>>
    BY <1>7 DEF SelectKind, Reset, CommitDraft, RunEffect, Type, AnswerRead, DrawList,
                SessionEnds, EnterCode, AnswerCode, vars
  <2> QED BY <2>1, BoardLeftAlone
<1> QED BY <1>1, <1>2, <1>3, <1>4, <1>5, <1>6, <1>7 DEF Next

\* However the reads of the board, the changes of all adults and the end of the session
\* interleave: no event behind the states a board shows is left out by its total, and those
\* its history leaves out are older than the newest MaxHistory of that total
\* (api/admin/questions/route.ts, GET).
THEOREM HistoriesExplainStates == Spec => []HistoryExplainsStates
<1>1. Init => BoardInv
  BY InitBoard
<1>2. BoardInv /\ [Next]_vars => BoardInv'
  BY StepBoard
<1>3. BoardInv => HistoryExplainsStates
  <2> SUFFICES ASSUME BoardInv, board.answered, NEW e \in 1 .. board.seen
               PROVE  e <= board.total /\ (e \in board.history \/ e + MaxHistory <= board.total)
    BY DEF HistoryExplainsStates
  <2>1. board \in Boards
    BY DEF BoardInv, BoardShape, Nothing
  <2>2. board.seen \in Nat /\ board.total \in Nat /\ board.seen <= board.total
    BY <2>1 DEF BoardInv, BoardOK, Boards
  <2>3. board.history = Newest(board.total)
    BY DEF BoardInv, BoardOK
  <2> QED BY <2>2, <2>3, HistoryAssumption DEF Newest
<1> QED BY <1>1, <1>2, <1>3, PTL DEF Spec

----------------------------------------------------------------------------
(* The inbox view *)

LEMMA ListLeftAlone ==
  ASSUME ListInv, UNCHANGED <<screen, listVars>>
  PROVE  ListInv'
<1> QED BY DEF ListInv, TicketsOK, ControlsOK, NewestOK, NewestAnswerWins, listVars

\* A new ticket is the newest, and it asks for what the controls show.
LEMMA IssueReadKeeps ==
  ASSUME TicketsOK, IssueRead(filters'), filters' \in Filters, draft' \in Typed
  PROVE  ListInv'
<1>1. PICK n : n = latest + 1
  OBVIOUS
<1>2. n \in Nat /\ latest' = n /\ reads' = reads \cup {NewRead(n, filters')}
  BY <1>1 DEF TicketsOK, IssueRead
<1>3. NewRead(n, filters') \in Reads
  BY <1>2 DEF NewRead, Reads
<1>4. NewRead(n, filters').ticket = n /\ NewRead(n, filters').filters = filters'
  BY DEF NewRead
<1>5. \A read \in reads : read.ticket \in Nat /\ read.ticket < n
  BY <1>1 DEF TicketsOK, Reads
<1>6. TicketsOK'
  BY <1>2, <1>3, <1>4, <1>5 DEF TicketsOK
<1>7. NewestOK'
  BY <1>2, <1>4, <1>5 DEF NewestOK
<1>8. NewestAnswerWins'
  BY <1>2, <1>4 DEF NewestAnswerWins
<1> QED BY <1>6, <1>7, <1>8 DEF ListInv, ControlsOK

LEMMA MountedList ==
  ASSUME latest' = 1, reads' = {NewRead(1, EmptyFilters)}, filters' = EmptyFilters,
         draft' = None
  PROVE  ListInv'
<1>1. EmptyFilters \in Filters /\ None \in Typed
  BY NoneAssumption DEF EmptyFilters, Filters
<1>2. /\ NewRead(1, EmptyFilters) \in Reads /\ NewRead(1, EmptyFilters).ticket = 1
      /\ NewRead(1, EmptyFilters).filters = EmptyFilters
  BY <1>1 DEF NewRead, Reads
<1>3. TicketsOK' /\ ControlsOK' /\ NewestOK'
  BY <1>1, <1>2 DEF TicketsOK, ControlsOK, NewestOK
<1>4. NewestAnswerWins'
  BY <1>2 DEF NewestAnswerWins
<1> QED BY <1>3, <1>4 DEF ListInv

LEMMA InitList == Init => ListInv
<1> SUFFICES ASSUME Init PROVE ListInv
  OBVIOUS
<1>1. EmptyFilters \in Filters /\ None \in Typed
  BY NoneAssumption DEF EmptyFilters, Filters
<1>2. /\ NewRead(1, EmptyFilters) \in Reads /\ NewRead(1, EmptyFilters).ticket = 1
      /\ NewRead(1, EmptyFilters).filters = EmptyFilters
  BY <1>1 DEF NewRead, Reads
<1>3. /\ latest = 1 /\ reads = {NewRead(1, EmptyFilters)} /\ filters = EmptyFilters
      /\ draft = None
  BY DEF Init
<1>4. TicketsOK /\ ControlsOK /\ NewestOK
  BY <1>1, <1>2, <1>3 DEF TicketsOK, ControlsOK, NewestOK
<1>5. NewestAnswerWins
  BY <1>2, <1>3 DEF NewestAnswerWins
<1> QED BY <1>4, <1>5 DEF ListInv

LEMMA ControlsList ==
  ASSUME ListInv,
         \/ \E kind \in Kinds : SelectKind(kind)
         \/ Reset \/ RunEffect
  PROVE  ListInv'
<1>1. EmptyFilters \in Filters /\ None \in Typed
  BY NoneAssumption DEF EmptyFilters, Filters
<1>2. IssueRead(filters')
  BY DEF SelectKind, Reset, RunEffect
<1>3. filters' \in Filters /\ draft' \in Typed
  BY <1>1 DEF SelectKind, Reset, RunEffect, ListInv, ControlsOK, Filters
<1> QED BY <1>2, <1>3, IssueReadKeeps DEF ListInv

LEMMA TypeList ==
  ASSUME ListInv, NEW text \in Typed, Type(text) PROVE ListInv'
<1> QED BY DEF Type, ListInv, TicketsOK, ControlsOK, NewestOK, NewestAnswerWins

LEMMA CommitDraftList ==
  ASSUME ListInv, CommitDraft PROVE ListInv'
<1>1. ControlsOK'
  BY DEF CommitDraft, ListInv, ControlsOK, Filters
<1>2. TicketsOK' /\ NewestOK' /\ NewestAnswerWins'
  BY DEF CommitDraft, ListInv, TicketsOK, NewestOK, NewestAnswerWins
<1> QED BY <1>1, <1>2 DEF ListInv

LEMMA AnswerReadList ==
  ASSUME ListInv, NEW read \in reads, AnswerRead(read) PROVE ListInv'
<1>1. PICK step \in {"granted", "denied", "failed"} :
        reads' = (reads \ {read}) \cup {[read EXCEPT !.step = step]}
  BY DEF AnswerRead
<1>2. UNCHANGED <<screen, filters, draft, committed, list, listFailure, listLoading, latest>>
  BY DEF AnswerRead, door
<1> PICK by : by = [read EXCEPT !.step = step]
  OBVIOUS
<1>3. by \in Reads /\ by.ticket = read.ticket /\ by.filters = read.filters
  BY DEF ListInv, TicketsOK, Reads
<1>4. by \in reads' /\ \A other \in reads' : other = by \/ other \in reads
  BY <1>1
<1>5. TicketsOK' /\ ControlsOK'
  BY <1>2, <1>3, <1>4 DEF ListInv, TicketsOK, ControlsOK
<1>6. NewestOK'
  BY <1>2, <1>3, <1>4 DEF ListInv, NewestOK
<1>7. NewestAnswerWins'
  <2>1. (\A other \in reads' : other.ticket # latest) => \A other \in reads : other.ticket # latest
    BY <1>1, <1>3, <1>4
  <2> QED BY <1>2, <2>1 DEF ListInv, NewestAnswerWins
<1> QED BY <1>5, <1>6, <1>7 DEF ListInv

LEMMA DrawListList ==
  ASSUME ListInv, NEW read \in reads, DrawList(read) PROVE ListInv'
<1>1. UNCHANGED <<screen, filters, draft, committed, latest>> /\ reads' = reads \ {read}
  BY DEF DrawList
<1>2. TicketsOK' /\ ControlsOK' /\ NewestOK'
  BY <1>1 DEF ListInv, TicketsOK, ControlsOK, NewestOK
<1>3. NewestAnswerWins'
  <2>1. CASE read.ticket # latest
    <3>1. UNCHANGED <<list, listFailure, listLoading>>
      BY <2>1 DEF DrawList
    <3>2. (\A other \in reads' : other.ticket # latest)
            => \A other \in reads : other.ticket # latest
      BY <1>1, <2>1
    <3> QED BY <1>1, <3>1, <3>2 DEF ListInv, NewestAnswerWins
  <2>2. CASE read.ticket = latest
    <3>1. ~committed => read.filters = filters
      BY <2>2 DEF ListInv, NewestOK
    <3>2. ~listLoading'
      BY <2>2 DEF DrawList
    <3>3. CASE read.step = "granted"
      <4>1. list' = [answered |-> TRUE, filters |-> read.filters] /\ listFailure' = None
        BY <2>2, <3>3 DEF DrawList
      <4> QED BY <1>1, <3>1, <3>2, <4>1 DEF NewestAnswerWins
    <3>4. CASE read.step # "granted"
      <4>1. list' = Nothing /\ listFailure' = read.step
        BY <2>2, <3>4 DEF DrawList
      <4>2. read.step \in {"denied", "failed"}
        BY <3>4 DEF DrawList, ListInv, TicketsOK, Reads
      <4> QED BY <3>2, <4>1, <4>2, NoneAssumption DEF NewestAnswerWins, Nothing
    <3> QED BY <3>3, <3>4
  <2> QED BY <2>1, <2>2
<1> QED BY <1>2, <1>3 DEF ListInv

LEMMA RefreshList ==
  ASSUME ListInv, Refresh PROVE ListInv'
<1>1. CASE screen' = screen
  BY <1>1, ListLeftAlone DEF Refresh
<1>2. CASE screen' # screen /\ screen' = "page"
  <2>1. Mounted(NewLoad(1))
    BY <1>2 DEF Refresh
  <2> QED BY <2>1, MountedList DEF Mounted
<1>3. CASE screen' # screen /\ screen' # "page"
  <2>1. latest' = 0 /\ reads' = {} /\ filters' = EmptyFilters /\ draft' = None
    BY <1>3 DEF Refresh
  <2>2. TicketsOK' /\ ControlsOK' /\ NewestOK'
    BY <2>1, NoneAssumption DEF TicketsOK, ControlsOK, NewestOK, EmptyFilters, Filters
  <2> QED BY <1>3, <2>2 DEF ListInv, NewestAnswerWins
<1> QED BY <1>1, <1>2, <1>3

LEMMA StepList == ListInv /\ [Next]_vars => ListInv'
<1> SUFFICES ASSUME ListInv, [Next]_vars PROVE ListInv'
  OBVIOUS
<1>1. CASE (\E kind \in Kinds : SelectKind(kind)) \/ Reset \/ RunEffect
  BY <1>1, ControlsList
<1>2. CASE CommitDraft
  BY <1>2, CommitDraftList
<1>3. ASSUME NEW text \in Typed, Type(text) PROVE ListInv'
  BY <1>3, TypeList
<1>4. ASSUME NEW read \in reads, AnswerRead(read) \/ DrawList(read) PROVE ListInv'
  BY <1>4, AnswerReadList, DrawListList
<1>5. CASE Refresh
  BY <1>5, RefreshList
<1>6. CASE \/ \E q \in Questions : OtherChange(q) \/ PressChange(q)
           \/ LateChange \/ HandleChange \/ FailChange \/ DrawChange
           \/ \E load \in loads : ReadBoard(load) \/ FailLoad(load) \/ DrawBoard(load)
           \/ SessionEnds \/ EnterCode \/ AnswerCode
           \/ UNCHANGED vars
  <2>1. UNCHANGED <<screen, listVars>>
    BY <1>6 DEF OtherChange, PressChange, LateChange, HandleChange, FailChange, DrawChange,
                ReadBoard, FailLoad, DrawBoard, SessionEnds, EnterCode, AnswerCode, vars, door
  <2> QED BY <2>1, ListLeftAlone
<1> QED BY <1>1, <1>2, <1>3, <1>4, <1>5, <1>6 DEF Next

\* Whatever order the answers come in, with the newest read answered the list is the page
\* of the filters in the controls, or a failure.
THEOREM TheNewestAnswerWins == Spec => []NewestAnswerWins
<1>1. Init => ListInv
  BY InitList
<1>2. ListInv /\ [Next]_vars => ListInv'
  BY StepList
<1>3. ListInv => NewestAnswerWins
  BY DEF ListInv
<1> QED BY <1>1, <1>2, <1>3, PTL DEF Spec

----------------------------------------------------------------------------
(* The types *)

LogType ==
  events \in 0 .. MaxEvents /\ touched \in [Questions -> 0 .. MaxEvents]

DoorType ==
  /\ session \in BOOLEAN /\ checking \in BOOLEAN /\ refreshing \in BOOLEAN
  /\ screen \in {"page", "gate"} /\ presses \in 0 .. MaxPresses

BoardType ==
  /\ boardLoading \in BOOLEAN
  /\ pending \in Questions \cup {None} /\ (pending # None <=> change.answered)
  /\ boardFailure \in {None, "denied", "failed"}
  /\ \A load \in loads : load.number \in 1 .. issued

ListType ==
  /\ listLoading \in BOOLEAN /\ committed \in BOOLEAN /\ reauth \in BOOLEAN
  /\ listFailure \in {None, "denied", "failed"}
  /\ list.answered => list.filters \in Filters
  /\ \A read \in reads : read.ticket \in 1 .. latest

\* What the two invariants above do not say of the values the variables take.
TypeInv == LogType /\ DoorType /\ BoardType /\ ListType

LEMMA InitTypes == Init => TypeInv
<1> SUFFICES ASSUME Init PROVE TypeInv
  OBVIOUS
<1>1. LogType
  BY BoundsAssumption DEF Init, LogType
<1>2. DoorType
  <2>1. /\ session = TRUE /\ checking = FALSE /\ refreshing = FALSE /\ screen = "page"
        /\ presses = 0
    BY DEF Init
  <2>2. presses \in 0 .. MaxPresses
    BY <2>1, BoundsAssumption
  <2> QED BY <2>1, <2>2 DEF DoorType
<1>3. BoardType
  BY DEF Init, BoardType, NewLoad, Nothing
<1>4. ListType
  <2>1. NewRead(1, EmptyFilters).ticket = 1
    BY DEF NewRead
  <2>2. /\ listLoading = TRUE /\ committed = FALSE /\ reauth = FALSE
        /\ listFailure = None /\ list = Nothing
        /\ latest = 1 /\ reads = {NewRead(1, EmptyFilters)}
    BY DEF Init
  <2>3. ~list.answered
    BY <2>2 DEF Nothing
  <2>4. \A read \in reads : read.ticket \in 1 .. latest
    BY <2>1, <2>2
  <2>5. listLoading \in BOOLEAN /\ committed \in BOOLEAN /\ reauth \in BOOLEAN
    BY <2>2
  <2> QED BY <2>2, <2>3, <2>4, <2>5, Zenon DEF ListType
<1> QED BY <1>1, <1>2, <1>3, <1>4 DEF TypeInv

\* The log takes a change only below its bound.
LEMMA AppendTypes ==
  ASSUME NEW q \in Questions, NEW s, Append(q, s), LogType PROVE LogType'
<1> QED BY BoundsAssumption DEF Append, LogType

LEMMA StepLogType ==
  ASSUME BoardInv, LogType, [Next]_vars PROVE LogType'
<1>1. ASSUME NEW q \in Questions, OtherChange(q) PROVE LogType'
  <2> PICK s : s = states[q]
    OBVIOUS
  <2>1. Append(q, s)
    BY <1>1 DEF OtherChange
  <2> QED BY <2>1, AppendTypes
<1>2. CASE LateChange
  <2>1. PICK l \in late : Append(l.question, l.expected) \/ UNCHANGED <<events, touched>>
    BY <1>2 DEF LateChange
  <2>2. PICK q, s : q = l.question /\ s = l.expected
    OBVIOUS
  <2>3. q \in Questions
    BY <2>2 DEF BoardInv, LateOK
  <2>4. CASE Append(q, s)
    BY <2>3, <2>4, AppendTypes
  <2>5. CASE UNCHANGED <<events, touched>>
    BY <2>5 DEF LogType
  <2> QED BY <2>1, <2>2, <2>4, <2>5
<1>3. CASE HandleChange
  <2>1. change \in Changes
    BY <1>3 DEF HandleChange, Posted, BoardInv, ChangeOK, Nothing
  <2>2. PICK q, s : q = change.question /\ s = change.expected
    OBVIOUS
  <2>3. q \in Questions
    BY <2>1, <2>2 DEF Changes
  <2>4. CASE Append(q, s)
    BY <2>3, <2>4, AppendTypes
  <2>5. CASE UNCHANGED <<events, touched>>
    BY <2>5 DEF LogType
  <2> QED BY <1>3, <2>2, <2>4, <2>5 DEF HandleChange
<1>4. CASE UNCHANGED <<events, touched>>
  BY <1>4 DEF LogType
<1> QED BY <1>1, <1>2, <1>3, <1>4
        DEF Next, vars, server, PressChange, ReadBoard, FailLoad, DrawBoard, FailChange,
            DrawChange, SelectKind, Reset, Type, CommitDraft, RunEffect, AnswerRead, DrawList,
            SessionEnds, Refresh, EnterCode, AnswerCode

LEMMA ActTypes ==
  ASSUME presses \in 0 .. MaxPresses, Act PROVE presses' \in 0 .. MaxPresses
<1> QED BY BoundsAssumption DEF Act

LEMMA StepDoorType ==
  ASSUME DoorType, ListType, [Next]_vars PROVE DoorType'
<1>1. CASE UNCHANGED <<door, presses>>
  BY <1>1 DEF DoorType, door
<1>2. CASE Act /\ UNCHANGED door
  BY <1>2, ActTypes DEF DoorType, door
<1>3. ASSUME NEW read \in reads, DrawList(read) PROVE DoorType'
  <2>1. refreshing' \in BOOLEAN
    BY <1>3 DEF DrawList, DoorType
  <2> QED BY <1>3, <2>1 DEF DrawList, DoorType
<1>4. CASE SessionEnds
  BY <1>4 DEF SessionEnds, DoorType
<1>5. CASE Refresh
  BY <1>5 DEF Refresh, DoorType
<1>6. CASE EnterCode
  BY <1>6, ActTypes DEF EnterCode, DoorType
<1>7. CASE AnswerCode
  BY <1>7 DEF AnswerCode, DoorType
<1> QED BY <1>1, <1>2, <1>3, <1>4, <1>5, <1>6, <1>7
        DEF Next, vars, OtherChange, LateChange, HandleChange, PressChange, ReadBoard,
            FailLoad, DrawBoard, FailChange, DrawChange, SelectKind, Reset, Type,
            CommitDraft, RunEffect, AnswerRead

LEMMA StepListType ==
  ASSUME ListInv, ListType, [Next]_vars PROVE ListType'
<1>1. CASE UNCHANGED listVars
  BY <1>1 DEF ListType, listVars
<1>2. CASE (\E kind \in Kinds : SelectKind(kind)) \/ Reset \/ RunEffect
  <2>1. PICK n : n = latest + 1
    OBVIOUS
  <2>2. /\ n \in Nat \ {0} /\ latest' = n /\ reads' = reads \cup {NewRead(n, filters')}
        /\ n = latest + 1
    BY <1>2, <2>1 DEF SelectKind, Reset, RunEffect, IssueRead, ListInv, TicketsOK
  <2>3. \A read \in reads' : read.ticket \in 1 .. latest'
    BY <2>2 DEF NewRead, ListType, ListInv, TicketsOK
  <2>4. listLoading' \in BOOLEAN /\ committed' \in BOOLEAN
    BY <1>2 DEF SelectKind, Reset, RunEffect, ListType
  <2>5. UNCHANGED <<list, listFailure, reauth>>
    BY <1>2 DEF SelectKind, Reset, RunEffect
  <2> QED BY <2>3, <2>4, <2>5 DEF ListType
<1>3. CASE CommitDraft
  BY <1>3 DEF CommitDraft, ListType
<1>4. ASSUME NEW text \in Typed, Type(text) PROVE ListType'
  BY <1>4 DEF Type, ListType
<1>5. ASSUME NEW read \in reads, AnswerRead(read) PROVE ListType'
  <2>1. PICK step : reads' = (reads \ {read}) \cup {[read EXCEPT !.step = step]}
    BY <1>5 DEF AnswerRead
  <2>2. [read EXCEPT !.step = step].ticket = read.ticket
    BY DEF ListInv, TicketsOK, Reads
  <2>3. \A other \in reads' : other.ticket \in 1 .. latest
    BY <2>1, <2>2 DEF ListType
  <2> QED BY <1>5, <2>3 DEF AnswerRead, ListType
<1>6. ASSUME NEW read \in reads, DrawList(read) PROVE ListType'
  <2>1. read \in Reads
    BY DEF ListInv, TicketsOK
  <2>2. reads' = reads \ {read} /\ UNCHANGED <<latest, committed>>
    BY <1>6 DEF DrawList
  <2>3. CASE read.ticket # latest
    BY <1>6, <2>2, <2>3 DEF DrawList, ListType
  <2>4. CASE read.ticket = latest
    <3>1. listLoading' \in BOOLEAN /\ reauth' \in BOOLEAN
      BY <1>6, <2>4 DEF DrawList, ListType
    <3>2. listFailure' \in {None, "denied", "failed"}
      BY <1>6, <2>1, <2>4 DEF DrawList, Reads
    <3>3. list'.answered => list'.filters \in Filters
      BY <1>6, <2>1, <2>4 DEF DrawList, Reads, Nothing
    <3> QED BY <2>2, <3>1, <3>2, <3>3 DEF ListType
  <2> QED BY <2>3, <2>4
<1>7. CASE Refresh
  <2>1. CASE Mounted(NewLoad(1))
    <3>1. NewRead(1, EmptyFilters).ticket = 1
      BY DEF NewRead
    <3>2. /\ listLoading' = TRUE /\ committed' = FALSE /\ reauth' = FALSE
          /\ listFailure' = None /\ list' = Nothing
          /\ latest' = 1 /\ reads' = {NewRead(1, EmptyFilters)}
      BY <2>1 DEF Mounted
    <3>3. ~list'.answered
      BY <3>2 DEF Nothing
    <3>4. \A read \in reads' : read.ticket \in 1 .. latest'
      BY <3>1, <3>2
    <3>5. listLoading' \in BOOLEAN /\ committed' \in BOOLEAN /\ reauth' \in BOOLEAN
      BY <3>2
    <3> QED BY <3>2, <3>3, <3>4, <3>5, Zenon DEF ListType
  <2>2. CASE /\ list' = Nothing /\ listFailure' = None /\ listLoading' = FALSE
             /\ latest' = 0 /\ reads' = {} /\ reauth' = FALSE /\ committed' = FALSE
    BY <2>2 DEF ListType, Nothing
  <2> QED BY <1>1, <1>7, <2>1, <2>2 DEF Refresh
<1> QED BY <1>1, <1>2, <1>3, <1>4, <1>5, <1>6, <1>7
        DEF Next, vars, OtherChange, LateChange, HandleChange, PressChange, ReadBoard,
            FailLoad, DrawBoard, FailChange, DrawChange, SessionEnds, EnterCode, AnswerCode

LEMMA StepBoardType ==
  ASSUME BoardInv, BoardType, [Next]_vars PROVE BoardType'
<1>1. CASE UNCHANGED boardVars
  BY <1>1 DEF BoardType, boardVars
<1>2. ASSUME NEW q \in Questions, PressChange(q) PROVE BoardType'
  BY <1>2, NoneAssumption DEF PressChange, BoardType
<1>3. ASSUME NEW load \in loads, NEW by \in Loads, by.number = load.number,
             Replace(load, by),
             UNCHANGED <<boardFailure, boardLoading, pending, change, issued>>
      PROVE  BoardType'
  BY <1>3 DEF Replace, BoardType
<1>4. ASSUME NEW load \in loads, ReadBoard(load) \/ FailLoad(load) PROVE BoardType'
  <2>1. UNCHANGED <<boardFailure, boardLoading, pending, change, issued>>
    BY <1>4 DEF ReadBoard, FailLoad
  <2>2. load \in Loads /\ LogOK
    BY DEF BoardInv, LoadsOK
  <2>3. PICK by : /\ Replace(load, by)
                  /\ \/ by = [load EXCEPT !.step = "snapshot", !.states = states,
                                          !.seen = events]
                     \/ by = [load EXCEPT !.step = "granted", !.total = events,
                                          !.history = Newest(events)]
                     \/ \E step \in {"denied", "failed"} :
                          by = [NewLoad(load.number) EXCEPT !.step = step]
    BY <1>4 DEF ReadBoard, FailLoad, Unread
  <2>4. by.number = load.number
    BY <2>2, <2>3 DEF Loads, NewLoad
  <2>5. \A other \in loads' : other.number \in 1 .. issued
    BY <2>3, <2>4 DEF Replace, BoardType
  <2> QED BY <2>1, <2>5 DEF BoardType
<1>5. ASSUME NEW load \in loads, DrawBoard(load) PROVE BoardType'
  <2>1. loads' = loads \ {load} /\ UNCHANGED <<pending, change, issued>>
    BY <1>5 DEF DrawBoard
  <2>2. boardLoading' \in BOOLEAN /\ boardFailure' \in {None, "denied", "failed"}
    BY <1>5 DEF DrawBoard
  <2> QED BY <2>1, <2>2 DEF BoardType
<1>6. CASE HandleChange \/ FailChange
  <2>1. UNCHANGED <<boardFailure, boardLoading, pending, loads, issued>>
    BY <1>6 DEF HandleChange, FailChange
  <2>2. change.answered /\ \E step : Answered(step)
    BY <1>6 DEF HandleChange, FailChange, Posted
  <2>3. change \in Changes
    BY <2>2 DEF BoardInv, ChangeOK, Nothing
  <2>4. change'.answered
    BY <2>2, <2>3 DEF Answered, Changes
  <2> QED BY <2>1, <2>2, <2>4 DEF BoardType
<1>7. CASE DrawChange
  <2>1. PICK n : n = issued + 1
    OBVIOUS
  <2>2. n \in Nat \ {0} /\ issued' = n /\ n = issued + 1 /\ loads' = loads \cup {NewLoad(n)}
    BY <1>7, <2>1 DEF DrawChange, BoardInv
  <2>3. \A load \in loads' : load.number \in 1 .. issued'
    BY <2>2 DEF NewLoad, BoardType, BoardInv
  <2> QED BY <1>7, <2>3 DEF DrawChange, BoardType, Nothing
<1>8. CASE Refresh
  <2>1. CASE Mounted(NewLoad(1))
    BY <2>1 DEF Mounted, BoardType, NewLoad, Nothing
  <2>2. CASE /\ boardFailure' = None /\ boardLoading' = FALSE /\ loads' = {}
             /\ pending' = None /\ change' = Nothing
    BY <2>2 DEF BoardType, Nothing
  <2> QED BY <1>1, <1>8, <2>1, <2>2 DEF Refresh
<1> QED BY <1>1, <1>2, <1>4, <1>5, <1>6, <1>7, <1>8
        DEF Next, vars, OtherChange, LateChange, SelectKind, Reset, Type, CommitDraft,
            RunEffect, AnswerRead, DrawList, SessionEnds, EnterCode, AnswerCode

\* Every variable of the page keeps its type, and a button waits exactly while a change is
\* in flight.
THEOREM TypeCorrect == Spec => []TypeOK
<1> DEFINE Inv == BoardInv /\ ListInv /\ TypeInv
<1>1. Init => Inv
  BY InitBoard, InitList, InitTypes
<1>2. Inv /\ [Next]_vars => Inv'
  BY StepBoard, StepList, StepLogType, StepDoorType, StepBoardType, StepListType DEF TypeInv
<1>3. Inv => TypeOK
  <2> SUFFICES ASSUME Inv PROVE TypeOK
    OBVIOUS
  <2>1. board.answered => board.states \in [Questions -> States]
    <3>1. CASE board = Nothing
      BY <3>1 DEF Nothing
    <3>2. CASE board \in Boards
      BY <3>2 DEF Boards
    <3> QED BY <3>1, <3>2 DEF BoardInv, BoardShape
  <2>2. {session, checking, refreshing, boardLoading, listLoading, committed, reauth}
          \subseteq BOOLEAN
    BY DEF TypeInv, DoorType, BoardType, ListType
  <2>3. \A read \in reads : read.ticket \in 1 .. latest /\ read.filters \in Filters
    BY DEF TypeInv, ListType, ListInv, TicketsOK, Reads
  <2> QED BY <2>1, <2>2, <2>3 DEF TypeInv, LogType, DoorType, BoardType, ListType, TypeOK,
                                  BoardInv, LogOK, LateOK, ListInv, ControlsOK
<1> QED BY <1>1, <1>2, <1>3, PTL DEF Spec
=============================================================================
