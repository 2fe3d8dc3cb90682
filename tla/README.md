# Formal models of the Avaloria family site

The repository is a Next.js site on which children answer the question of the
day, by text or by voice, and adults read the answers and open and close
questions.  One server process stores answers in an append-only inbox and
lifecycle events in an append-only log, each with a PostgreSQL adapter and a
file adapter (the rollback path); recordings go to a content-addressed store on
disk.  The browser keeps its own copy of a written answer in IndexedDB and owns
the microphone of a spoken one.

This directory holds TLA+ modules for the parts whose correctness depends on
the *order* of things: concurrent requests, statements abandoned by their
caller, writes cut short, crashes, retries, late answers, restarts with another
configuration, and people pressing buttons in any order.  TLC checks them on
small instances; for both logs, both inbox stores, recordings from
the microphone to the disk, text delivery, the admin page and the move from file
to table the safety properties are also proved for every instance with TLAPS.

Paths below are relative to the repository's root; the application itself is
under `src/`.

    tlc -workers 2 -config PostgresLifecycleLog.cfg MCPostgresLifecycleLog.tla
    tlc -workers 2 -config TextDelivery.cfg TextDelivery.tla
    tlapm LifecycleProofs.tla

A configuration belongs to the module `MC` and its name where there is one, and
to the module of its own name where there is none.

1. Inventory of the system
2. The modules and the code they stand for
3. What the runs check, with their bounds
4. Fairness
5. Where the code and its comments disagree
6. What is proved
7. What is not modelled, and why
8. Plan

## 1. Inventory of the system

### Components, their state and their operations

| Component (code) | State it keeps | Operations | Hard behaviour | Correct when |
|---|---|---|---|---|
| Question lifecycle port (`application/questions/question-lifecycle.ts`, `domain/questions`) | none; it defines requests, outcomes and what may be stored | `append`, `snapshot`, `history` | outcomes of calls that overlap | every adapter is one compare-and-set register per question |
| Lifecycle log on PostgreSQL (`adapters/persistence/postgres-question-lifecycle-log.ts`, `db/migrations/0003`) | rows of `question_lifecycle_event`, an identity column | `append` (one insert-select, then `stale()`), `snapshot`, `history` | no lock and no transaction: colliding inserts, identity values drawn before commit, inserts outliving their caller | rows of a question are a chain; a 409 is true; the orders by revision and by sequence agree |
| Lifecycle log on a file (`file-question-lifecycle-log.ts`) | a JSONL file, a write queue per directory | the same | cut writes, failed syncs, process death, power loss | lines that read are a chain; nothing acknowledged is lost silently; a failed task does not stall the queue |
| Question rotation (`content/open-questions.ts`) | none (pure) | `rotateQuestions` | it orders by a sequence made elsewhere | a reopened question does not steal the turn |
| Question change route (`app/api/admin/questions/[questionId]/route.ts`) | none | `POST` | answers on behalf of a store that may have failed half-way | each outcome of the port becomes the status that says it |
| Question board (`app/api/admin/questions/route.ts`, `components/admin-question-board.tsx`) | the board drawn, the pending press | load, change | two unsynchronised reads; loads drawn out of order; changes that land after their timeout | the history shown explains the states shown; no button waits for ever |
| Submission inbox on PostgreSQL (`postgres-submission-inbox-store.ts`, `db/migrations/0001`, `0002`) | rows of `submission_inbox` | `appendIfAbsent`, `list`, `findBySubmissionId` | a retry racing its first delivery, inserts outliving their caller | one record and one receipt per submission, for ever |
| Submission inbox on a file (`file-submission-inbox-store.ts`) | a JSONL file, a write queue per directory | the same | as the lifecycle file, but damaged lines are skipped | no submission is listed twice; one bad line blocks nobody |
| Text submission route (`app/api/inbox/submissions/route.ts`) | none | `POST` | mints a receipt per request, answers with the one kept | the receipt answered is the one stored |
| Audio blob store (`file-audio-blob-store.ts`) | files named by content hash | `store`, `read`, `checkWritable` | temporary file, writes that may be short, rename, two syncs, a fast path for what exists | what is under a name is the whole recording (section 5: not after a short write), and stays |
| Audio submission route (`app/api/inbox/submissions/audio/route.ts`) | none | `POST` in two stages | failure between two stores | no record without its recording |
| Capture controller (`adapters/media/audio-capture-controller.ts`) | phase, recording, stream, recorder, chunks, generation | `startRecording`, `stopRecording`, `discard`, `release`, `chooseFile` and the recorder's events | prompts answered late, events after a capture was given up | an open microphone is always one the page can stop |
| Answer sender (`adapters/media/audio-answer-sender.ts`) | the bound identity, the send state, a generation | `prepare`, `send` | outcomes of old attempts, timeouts of requests that arrived | "arrived" only with a receipt; one recording, one answer |
| Recording area (`app/components/audio-answer-recorder.tsx`) | none of its own: composes the two above with the question shown | its buttons, its effect, unmount | the question rotates meanwhile | the answer belongs to the question spoken to |
| Text delivery in the browser (`app/family-experience.tsx`, `application/submissions/deliver-submission.ts`, `adapters/persistence/indexeddb-submission-repository.ts`, `adapters/http/http-submission-inbox.ts`) | the device's answers; per page: sentences, busy flags, the list | submit, retry, list | several tabs, reloads, stale lists, saves that fail, answers that come late | every sentence a child reads is true; an acknowledgement is never taken back |
| Access (`adapters/access/*`, `adapters/http/*-request-guard.ts`, session routes) | rate-limit windows in memory; signed cookies | sign in, guard, limit | window boundaries, the bound on keys, codes and secrets changed by a restart while sessions live | a limiter forgets no attempt inside its window; a door opens only to the code it has now |
| Admin inbox view (`components/admin-inbox-view.tsx`, `app/admin-inbox-query.ts`, `app/api/admin/inbox/submissions`) | filters, the list drawn, a ticket | filter, type, load, sign in again | answers out of order, a timer, denials | the newest question asked is the one answered; a denied page gives way to the sign-in panel |
| Playback read (`app/api/admin/inbox/submissions/[submissionId]/audio`) | none | `GET` | - | not modelled |
| Composition (`composition/server.ts`, `browser.ts`) | the limiters of the process | selects adapters, codes and limits from the environment | restarts with another environment | the store, the codes and the refusal of a shared code, inside the modules they matter to |
| Readiness, bounded body reader | none | checks, a byte counter | - | not modelled |
| Migration and import (`scripts/migrate.mjs`, `scripts/import-inbox-jsonl.mjs`) | `schema_migrations`; one transaction | apply what is outstanding; read, insert, compare, commit | two runners; the import twice, or beside a site that writes to either store; a COMMIT nobody hears of | what is applied is what is recorded; no receipt changes on the way; all or nothing; safe to run again |
| Backup scripts (`scripts/*.sh`) | archives | dump, copy, verify | two archives taken at two times | not modelled |
| Content, pages, styling | none | - | - | not modelled |

### How they interact

    child's page                                     adult's board
      family-experience          audio-answer-recorder      |
        |  deliverSubmission       |  capture controller    |
        |  IndexedDB               |  answer sender         |
        v                          v                        v
      POST submissions           POST submissions/audio   POST questions/[id]
        |                          |        |               |
        |                          v        |               |
        |                     blob store    |               |
        v                                   v               v
      submission inbox (table or file)            lifecycle log (table or file)
                                                            |
                                         rotateQuestions <- snapshot()
                                                            |
                                              the question the page asks

The browser talks to the server by HTTP and gives up by `AbortSignal.timeout`
(10 s for text, 120 s for a recording); the server does not learn that.  The
server talks to PostgreSQL through a pool whose `connectionTimeoutMillis`,
`statement_timeout` and `query_timeout` bound every await; a statement whose
client gave up may still be running and may still commit.  Nothing is shared
between the lifecycle and the inbox except the question id in an answer.

### What is hard to test here

`PROJECT.json` lists every hazard at its line.  They come in eight groups: races
decided by a constraint of the database; effects after the caller was told
"unavailable"; crash points of the file adapters; the two-stage audio upload;
events that arrive for a capture, an attempt or a list that is no longer the
current one; state kept by several tabs of one browser; windows, maps and
sessions that outlive what they were made under; and moving the inbox while
the site runs.

## 2. The modules and the code they stand for

`PROJECT.json` maps every definition to its lines.  A step of a model is what
the code does between two points where something else can run: between two
awaits in the server and the browser, between two statements in the database,
between two operations on a file.

### Question lifecycle

- **`QuestionLifecycle`** - requests, states and answers of the port and of the
  change route.  A request is the question, the state the adult saw and the
  state wanted; nothing ties the last two together before
  `assertStorableLifecycleRequest`, so requests that ask for no change exist
  and are answered 400.
- **`LifecycleRegister`** - the abstract specification: one register per
  question, `append` a compare-and-set on it.  *Applied* is one change made by
  this call.  *Stale* reports a state that held at some moment of the call and
  says that the expectation was wrong at some moment of it; the code reads the
  state in a second statement, so nothing stronger is true.  *Unavailable*
  promises nothing: no effect, an effect, or an effect still to come (`late`).
- **`QuestionRotation`** - `effectiveState`, the comparison of the sort and the
  active question of `rotateQuestions`.  `Position` is the index of a question
  in the dataset.
- **`ChangeRoute`** - the route that changes a question as the caller of a log:
  `Ask` hands the request to `append`, `Reply` answers with its outcome, `Refuse`
  is the 400.  Both logs extend it, with the one set of variables, so that one
  proof module can extend both; what both would name alike is named for the file
  in `FileLifecycleLog` (`FileCall`, `FileNext`, `FileSpec`).
- **`PostgresLifecycleLog`** - the table.  `APPEND` is two steps: `Evaluate`,
  everything the statement decides on its snapshot including the identity value
  it draws; then `Commit` or `Collide`, its entry in the unique index.
  `RefuseMoved` and `Collide` go on to `ReadBack`, the second statement of
  `stale()`.  `Fail` is a statement that failed with nothing done; `Abandon` is
  `query_timeout` or a dead connection under a running insert, which then
  belongs to nobody and commits (`CommitAbandoned`) or not (`DropAbandoned`).
  `held` is an auxiliary variable: the states a call has overlapped with.
- **`AppendOnlyFile`** - a JSONL file as the operating system keeps it: lines,
  whether the last ends in a newline, what a cut write leaves (`Extents`) and
  what a power loss can leave (`Survivors`).  A line put behind a cut one is
  one damaged line with it.
- **`FileLifecycleLog`** - one process, one write queue.  `Enqueue` puts the
  task in line; at its head it reads the file (`ReadFails`, `RefuseStale`,
  `Decide`), writes (`Write`, `WriteFails`) and syncs (`Sync`, `SyncFails`).
  `ProcessDies` forgets queue and calls but keeps the page cache; `PowerLost`
  keeps what was synced and any prefix of the rest.  A damaged line makes every
  read fail, as in the code.

### Submission inbox

- **`InboxPort`**, **`SubmissionInbox`** - the vocabulary, and the abstract
  specification: put if absent.  A receipt is minted per request, so it also
  stands for the content that came with the request: a retry with other content
  is answered with the first one's receipt.
- **`InboxRoutes`** - the two POST routes as callers of a store: `Post` mints the
  receipt and hands the record over, `Reply` answers.  Both stores extend it,
  with the one set of variables, so that one proof module can extend both;
  what both stores would name alike is named for the file in `FileInbox`.
- **`PostgresInbox`** - `Insert` or `Conflict` is `INSERT ... ON CONFLICT DO
  NOTHING` (it waits for an insert of the same id in flight, so it takes effect
  at its commit); `ReadBack` is the `SELECT` that follows a conflict.
  `Abandon` as above.
- **`FileInbox`** - the same queue and faults as the lifecycle file, with the
  difference the code makes: a line that cannot be read is skipped (`Reads` are
  the places of those that can).

### Recordings

- **`AudioUpload`** - the audio route over blob store and inbox.  `FindStored`
  is the fast path of `store`; `OpenTemporary`, `Write`, `Flush`, `Rename`,
  `SyncDirectory` are its operations; then `AppendNew`, `AppendKept` or
  `AppendFails`.  `Write` may take fewer bytes than it is given, which the code
  does not look at: the file is then `"cut"` and goes on like a whole one.
  Whether bytes and name are on the device is kept apart
  (`blob`, `durable`), which is what the power-loss properties are about.
- **`AudioCapture`** - the controller, one turn of the event loop per step.
  Buttons may come in any order; prompts are answered late or never; a recorder
  may throw in `start` or `stop`, fail, end by itself, or fire its events long
  after the capture was given up.  `thrown` is auxiliary: the prompts and the
  recorders that were still open when `#cancelCapture` threw their capture away.
- **`AudioAnswer`** - the recording area: capture (only what the page reads of
  it), sender, the question shown and its rotation, the unmount that happens
  when no question is open, and a server and network that lose and delay.

### Written answers

- **`TextDelivery`** - `handleAnswerSubmit` and `handleRetry` in several tabs
  over one IndexedDB store.  `Keep` and `Acknowledge` are the two saves;
  `Handle`, `Decline`, `Unavailable` the server; `Timeout` and `Reload` leave
  behind requests and transactions that may still happen (`late`).  Lists are
  read and shown in two steps, because nothing orders two of them.

### The doors

- **`RateLimiter`** - `tryConsume` as an operator: the map a call leaves behind
  and the answer, with pruning, the sweep of stale keys and the bound.  A
  timestamp is kept as its age, which stops growing at the window.  `Recent` is
  the filter of the code, `Put` is `Map.set`.
- **`SlidingWindow`** - the abstract specification of a limiter: every granted
  attempt is remembered for one window, and another is granted exactly when
  fewer than the limit are inside it and the key is known or there is room.
- **`AccessGates`** - both sign-ins (the brake of all before the brake of one,
  then the body, then the gate), the session they mint, and the guards of the
  protected routes, which count a request only once its session holds.  `Restart` starts the process with any environment of
  the run: sessions stay with their callers, counters do not.

### The adult's page

- **`AdminPage`** - one page over the lifecycle register: the board with its
  two reads per load and one change at a time, the inbox view with its filters,
  the timer of its question box and its tickets, the sign-in panel and
  `router.refresh()`.  `ReadBoard` answers with the number of all events and the
  newest of them, as many as `MAX_HISTORY_ENTRIES` (200 in the code, the constant
  `MaxHistory` here).  A change whose caller gave up may still happen (`late`);
  other adults change the same questions; the session may end at any moment.

### Moving the inbox

- **`Cutover`** - the migrations, the import and the application over one file
  and one table.  `Lock`, `ReadApplied`, `Apply`, `CommitMigration` are a run of
  `migrate.mjs`; `EndMigration` is any of its ends, death included.
  `ReadSource`, `Insert`, `Compare`, `Commit`, `Fail` are a run of the import,
  whose rows are its own until `Commit`.  `FileAnswers` and `TableAnswers` are the
  two stores; `FileFails` leaves a cut line, or a whole one whose sync failed, and
  tells nobody; `Switch` a restart with or without
  `DATABASE_URL`.  `answered` and `moved` are auxiliary: the receipts families
  were told, and those the file had told when a completed import read it.

The modules `MC...` only give the constants of a run their values.  The modules
`...Proofs` hold the proofs.
Definitions under a comment `MUTANT` are not part of a specification: each is
a plausible bug of the definition it stands before, used to see that the
property meant for it notices.

## 3. What the runs check, with their bounds

| Run | States | What it shows |
|---|---|---|
| `postgres_lifecycle` | 141 467 | two adults, two questions, identity values up to 3 plus those of open calls |
| `file_lifecycle` | 166 666 | two adults, two questions, two lines plus those of open calls, one power loss, writes cut at every extent |
| `postgres_inbox` | 238 861 | three senders, two submissions, four requests |
| `file_inbox` | 90 654 | two senders, two submissions, four requests, one power loss, cut writes |
| `audio_upload` | 296 169 (by symmetry) | three senders, two recordings, two submissions, four requests, short writes, one power loss |
| `audio_capture` | 138 198 | three grants of the microphone, two captures given up |
| `audio_answer` | 84 859 | two questions and none, two recordings, three attempts |
| `text_delivery` | 245 411 | two tabs, two answers, two requests |
| `access_gates` | 490 128 | two addresses, five environments, limits of 1 and 2, maps of one key, a window and a session life of two ticks, three requests, one restart |
| `admin_page` | 295 619 | one question, two texts of the question box, two presses, two changes of the log, one entry of history answered |
| `cutover` | 6 141 894 | two submissions, two runs of each script, two migrations, three receipts, two switches |

**`postgres_lifecycle`.**  `HistoryIsAChain`: one row per revision, none
missing, each starting from the state the one before left - although two
inserts may be evaluated on the same latest row and one may commit after its
caller was told 503.  `SequenceOrdersHistory`: `history()` sorts by sequence
and `snapshot()` by revision, and they agree for every question although
sequence values are drawn before commit.  `StaleIsHonest`: a 409 is true of
the time of the call.  `Implements`: the table is the compare-and-set register.
`EveryCallAnswered`.  Two callers suffice for every race of two inserts, and an
abandoned insert acts as a third writer; with three identity values and those
drawn by calls open at the bound, histories get four rows long, enough for a
close and a reopen to bring a question back to the state a slow caller saw.

**`file_lifecycle`.** `LogIsAChain` over whatever reads; `NothingLostSilently`:
after any crash an event answered 200 is read back from the device, or a
damaged line makes every read fail; `TurnIsKept`, which holds here (the
sequence is made under the queue) and, as `TurnIsNotStolen`, not on the table;
`FileImplements`, on the condition `Orderly` - no power loss in the step and no
damaged line - since the code itself gives the file up to an operator once a
line is damaged; it includes that every call is answered, so that a failed task
does not stall those behind it. One power loss is enough because it resets
`disk` to `file`, leaving nothing of the first for a second to meet but a
shorter file.

**`postgres_inbox`, `file_inbox`.**  One record and, on the table, one receipt
per submission whatever races, is retried or outlives its caller
(`OneReceiptEach`, `OneRecordEach`); both implement `SubmissionInbox`
(`Implements` and `FileImplements`), the file in every step after which no line
is damaged and the power was never lost; every request is answered (part of
`Implements` on the table, `EveryRequestAnswered` on the file).  Three senders on the
table are a first delivery, a retry and one abandoned insert of the same
submission; the second submission shows that they do not meddle.

**`audio_upload`.**  `OnlyShortWritesTear`: what a name shows is nothing, the
whole recording, or what a write that took fewer bytes made of it, and no
interleaving, failure, death or loss of power is another cause of a torn one.
`RowsHaveRecordings`, `ReceiptMeansRecording`.  Every write of the run may be
short; that the port promises more is in section 5.  Two recordings and two
submissions give every sharing: the same content for two submissions, two
contents for one.

**`audio_capture`.**  `MicrophoneIsInHand`: tracks are live only while the page
shows the stop button and are the ones it would stop.  `OneSoundOnePreview`,
`StopIsAnswered`.  `GivenUpIsSilent`: when a prompt or a recorder that was open
as its capture was thrown away is answered, fails or ends at last, neither the
page nor the microphone, recorder and previews of the capture now in hand
change.  A prompt is silenced by the generation counted on and a recorder by its
handlers taken off, and either can be forgotten in one of the ways out.  Three
grants are one in time, one late and one after a failure, and
two captures thrown away leave one before and one after a capture in hand; with
three the safety properties hold as well (620 466 states).

**`audio_answer`.**  `ArrivedIsStored`, `OneAnswerEach`,
`OnItsWayHasAnAttempt`, `EverySendEnds`.  Three attempts are a lost one, a late
one and a fresh one; two recordings let an old attempt end after a new binding.

**`text_delivery`.**  `WordsAreTrue`: every sentence on every page is true of
the device, and whatever a device or a list shows as arrived is stored under
that receipt.  `AcknowledgedStays`: no second attempt, late answer or older tab
takes an acknowledgement back or gives it another receipt.  `BusyHasACall`,
`EveryPressEnds`.  Two requests are shared by a first attempt and a retry of it
from the other tab, or two answers of two tabs.  Two larger instances were
checked beside the run with the same result: one tab with two answers and three
requests (104 643 states), two tabs with one answer and three (529 090).

**`access_gates`.**  `Implements`: every limiter of the process, pruned and
swept as it is, decides like `SlidingWindow`, which forgets nothing inside its
window; the sweep of a full map is the place where it could, and a map of one
key is full at once.  `GatesTypeOK` carries the other half, that the map stays
bounded.  `SessionsAreCurrent`: a door opens only to a session that somebody
opened by entering the code configured for that door *now*, under the present
secret and inside its life, and the admin door never with the children's code.
It does not ask at which door the code was entered, because the gates do not
either: when a restart exchanges the codes, a session of the family door opened
with what is now the admin code passes the admin door.
The environments are two codes, one code twice, the codes exchanged, no admin
code, and a new secret; one restart leads from any to any.

**`admin_page`.**  `HistoryExplainsStates`: the route reads states, then
the history, without a transaction.  The order of the two makes the history the
later one, so `historyTotal` counts every event behind the states shown, and
such an event is on the page or among the entries cut off at `MaxHistory`, of
which the page speaks.  `MaxHistory` is 1 with a log of two events, so that the
cut happens.  `NewestAnswerWins`: once the newest read is answered, the list
answers the filters in the controls, or shows a failure.  `EveryWaitEnds`:
every spinner, disabled button and denied page ends - the last on the
assumption that nobody signs in from another tab between a denial and the refresh
it causes, which would find the page allowed again.  Two presses are enough
for a read that supersedes another, and a reset over an open timer.

**`cutover`.**  `SchemaIsRecorded`, `ReceiptsMove`, `AllOrNothing`,
`RerunIsSafe`.  Two switches bring the application to the table and back, so
that a submission may be in both stores under two receipts, which is the case
the import refuses; two runs of the import are a run and its repetition, before,
after or beside each other; a third receipt lets the file go on after an import
read it.

The type invariants of the other modules are not listed with the runs: they are
proved (section 6), and those of the two file adapters are conjuncts of
`LogIsAChain` and `OneRecordEach`.

Counters end at a bound named in the module (`MaxSequence`, `MaxLines`,
`MaxReceipts`, `MaxRequests`, `Losses`, `MaxStreams`, `MaxGenerations`,
`MaxRecordings`, `MaxAttempts`, `MaxSubmissions`, `MaxCalls`, `MaxRestarts`,
`MaxPresses`, `MaxEvents`, `MaxSwitches`).  The bounds stop *new* calls
only; whatever was begun runs to its end.  Because calls end, the models stop
when the bound is reached, and deadlock is not checked; that nothing waits for
ever is what the liveness properties say.

## 4. Fairness

Fairness is weak, and stands on what the code or its platform bounds:

- PostgreSQL adapters: a handler that was called takes its next step, since
  every await in it is bounded by a timeout of the pool (`postgres-pool.ts`).
  A failure is one way to take it but is not required.  Abandoned statements
  have no fairness.
- File adapters: a file operation ends, well or badly, and a process that died
  is started again, upon which the connection is seen to be lost.  Deaths and
  power losses have no fairness.
- Text and audio delivery: an IndexedDB transaction completes or fails, and
  `AbortSignal.timeout` ends what the network does not.  The server's handling
  has no fairness, so the timeout is what the proof of ending rests on.
- Admin page: every fetch ends within its timeout, a timer fires, React runs its
  effects and the router fetches the page it was asked to refresh.  Sessions end
  and others act without fairness.
- Capture: a recorder that was stopped fires its events.  A permission prompt
  may stay open for ever, so nothing is claimed of that phase.

Nothing makes an adult or a child act.  The doors and the move of the inbox have
safety properties only.

## 5. Where the code and its comments disagree

One disagreement is a run whose property TLC finds violated, `audio_upload_lost_name`;
the other configurations below are kept beside the runs, each with the one
property its name says, and TLC finds a behaviour for each:

| Configuration, module | The text | What the code does |
|---|---|---|
| `FindingRecordingsOutlastPower`, `MCAudioUpload` (the run) | "Must be durable before it resolves." (`application/media/audio-blob-store.ts`) | the fast path of `store` trusts a name whose directory entry another request has not synced, or failed to |
| `FindingTurnIsNotStolen`, `MCPostgresLifecycleLog` | "reopening must not steal the turn" (`content/open-questions.ts`) | the sequence is drawn when `APPEND` runs and the row appears when it commits: of two reopens in flight the one that commits last may be ordered first |
| `FindingStoredForTheQuestionSpokenTo`, `MCAudioAnswer` | "an answer to the question a child was looking at while they spoke" (`audio-answer-sender.ts`) | the recording is bound to the question shown in the render in which it appears |
| `FindingRefusalIsFinal`, `TextDelivery` | "Sending the same text again will be declined again." (`submission-inbox.ts`) | every status below 500 counts as refused, also 401 and 429; the retry is then acknowledged |
| `FindingNeverAPartialFile`, `MCAudioUpload` | "must never leave a partial file under it" (`application/media/audio-blob-store.ts`) | the count that `write` returns is not looked at (`file-audio-blob-store.ts:97`): a part of the recording is synced, renamed into place and vouched for by a row, and the fast path of every retry takes it for the whole |
| `FindingOneCallerLeavesRoom`, `MCAccessGates` | "what keeps one noisy caller from spending the whole household's allowance" (`api/family/session/route.ts`) | the brake of all is asked first and counts what the brake of one then refuses: one caller spends the allowance of all |
| `FindingNothingUndoneUnseen`, `AdminPage` | "instead of quietly undoing whatever happened in between" (`admin-question-board.tsx`) | the change compares states, not revisions: a question closed and reopened by others between the board's read and the press is closed again unseen |
| `FindingBoardNeverGoesBack`, `AdminPage` | one change at a time, against "the board showing an older answer as the newer one" (`admin-question-board.tsx`) | a change and the load after a remount overlap, and loads carry no ticket |
| `FindingListAnswersTheFilter`, `AdminPage` | "the list always shows the results of the committed filter" (`admin-inbox-view.tsx`) | between the timer's commit and the effect that reads, the list is the one of the filter before |

Smaller ones:

| Configuration, module | What it shows |
|---|---|
| `FindingUnavailableChangesNothing`, `MCPostgresLifecycleLog` | the board says "Es wurde nichts geändert" after a 503 whose insert commits later |
| `FindingNothingErased`, `MCFileLifecycleLog` | a write cut right before its newline reads as an event until the next append damages it |
| `FindingAcknowledgedReads`, `FileInbox` | a record appended behind a cut line is acknowledged and never listed |
| `FindingAcknowledgedIsDurable`, `FileInbox` | a retry is answered from a line whose sync failed |

Two more properties of `AudioAnswer` that do not hold have no configuration of
their own; each shows under `FindingStoredForTheQuestionSpokenTo.cfg` as its one
`PROPERTY` in place of the invariant, the first with `MaxRecordings = 2`:
`NotReplacedMidFlight` (a capture begun before "send" replaces the recording on
its way) and `SurvivesRotation` (closing the last open question unmounts the
area and the recording in it).

The deploy document (`docs/deploy/vps-mc-legends.md`, before section 8) has the
container started with `DATABASE_URL` before migrations and import, where the
import's header says before.  In between the application answers 503 until the
migrations are applied, and then stores retries in the table: a retry of a
submission the file has already answered gets a second receipt there, and the
import refuses the file on its line.  Nothing is lost (`ReceiptsMove`), but it
takes an operator.  And "nothing was written" (`import-inbox-jsonl.mjs`, the
message of a failed run) is not true of a COMMIT whose answer was lost; that
run is `unheard` in `Cutover`, has brought all of its source (`AllOrNothing`),
and can be repeated (`RerunIsSafe`).

One comment is older than the code: `deliver-submission.ts` says a retry can
leave two inbox lines for one submission; both stores put if absent, and
`OneReceiptEach` and `OneRecordEach` say so.

## 6. What is proved

TLAPS proves, for every value of the constants:

| Module | Theorem | Statement |
|---|---|---|
| `LifecycleProofs` | `TypeCorrect` | `Spec => []TypeOK` |
| | `ChainKept` | `Spec => []HistoryIsAChain` |
| | `OrdersAgree` | `Spec => []SequenceOrdersHistory` |
| | `StaleAnswersHonest` | `Spec => []StaleIsHonest` |
| | `TableImplementsRegister` | `Spec => Register!Spec`, the table refines the port's register |
| | `LogKeptAChain` | `FileSpec => []LogIsAChain`, type correctness included |
| | `NothingLost` | `FileSpec => []NothingLostSilently` |
| | `FileIsARegister` | `FileSpec => IsARegister`, the safety part of `FileImplements`: the file refines the same register in every orderly step |
| | `TurnKept` | `FileSpec => TurnIsKept`, an action property |
| | `OneIsAskedOfTheTable`, `OneIsAskedOfTheFile` | `Spec => []OneIsAsked(Snapshot)`, `FileSpec => []OneIsAsked(FileSnapshot)` |
| `InboxProofs` | `TypeCorrect` | `Spec => []TypeOK` |
| | `ReceiptsAgree` | `Spec => []OneReceiptEach` |
| | `TableImplementsPort` | `Spec => Port!Spec`, two statements refine put-if-absent |
| | `RecordsKeptApart` | `FileSpec => []OneRecordEach` |
| | `FileImplementsPort` | `FileSpec => FileImplements`, the file refines put-if-absent while it is intact |
| `AudioUploadProofs` | `TypeCorrect` | `Spec => []TypeOK` |
| | `ReceiptsMeanRecordings` | `Spec => []ReceiptMeansRecording` |
| | `NothingElseTears` | `Spec => []OnlyShortWritesTear` |
| | `RecordsHaveRecordings` | `Spec => []RowsHaveRecordings` |
| `AdminPageProofs` | `TypeCorrect` | `Spec => []TypeOK` |
| | `HistoriesExplainStates` | `Spec => []HistoryExplainsStates` |
| | `TheNewestAnswerWins` | `Spec => []NewestAnswerWins` |
| `ServerProofs` | `TypeCorrect` | `Spec => []TypeOK` |
| | `SchemaRecorded` | `Spec => []SchemaIsRecorded` |
| | `ReceiptsKept` | `Spec => []ReceiptsMove` |
| | `ImportAllOrNothing` | `Spec => []AllOrNothing` |
| | `RerunSafe` | `Spec => []RerunIsSafe` |
| | `LimitersAreBounded` | `GatesSpec => []GatesTypeOK` |
| | `LimitersImplement` | `GatesSpec => Implements`, each limiter refines the sliding window |
| | `DoorsNeedTheCode` | `GatesSpec => SessionsAreCurrent`, an action property |
| `AudioCaptureProofs` | `TypeCorrect` | `Spec => []TypeOK` |
| | `MicrophoneInHand` | `Spec => []MicrophoneIsInHand` |
| | `OneSoundHeard` | `Spec => []OneSoundOnePreview` |
| | `GivenUpSilent` | `Spec => GivenUpIsSilent`, an action property |
| `AudioAnswerProofs` | `TypeCorrect` | `Spec => []TypeOK` |
| | `ArrivedMeansStored` | `Spec => []ArrivedIsStored` |
| | `AnsweredOnce` | `Spec => []OneAnswerEach` |
| | `OnItsWay` | `Spec => []OnItsWayHasAnAttempt` |
| `TextDeliveryProofs` | `TypeCorrect` | `Spec => []TypeOK` |
| | `WordsTrue` | `Spec => []WordsAreTrue` |
| | `BusyIsTrue` | `Spec => []BusyHasACall` |
| | `AcknowledgedForGood` | `Spec => AcknowledgedStays`, an action property |

The assumptions are those of the modules: the dataset gives every question a
state (`SeededAssumption`) and a place of its own (`PositionAssumption`, which
makes the order of the rotation total), the window and the keys of a limiter are
at least one and every limit is a number (`WindowAssumption`,
`TrackedAssumption`, `LimitAssumption`), the cut of the history is a number
(`HistoryAssumption`), bounds are natural numbers, and the values that stand for
nothing are none of those they stand beside (`NothingAssumption`,
`NoneAssumption`, `DamagedAssumption`, `RunsAssumption`).

**The lifecycle table.**  The chain is not inductive: the key of an insert in flight is
free or taken depending on rows that came after its evaluation, and whether a
row may be added depends on what the statement *saw*.  The inductive invariant
`IInv` adds what closes this:

- `HasLatest` and `Complete`: a question with rows has a newest one, and no
  revision below an existing one is missing;
- `StatementsContinue`: an insert in flight continues from a row that is still
  there (rows are never updated or deleted), with the state that row left, and
  every row it continues from has a smaller sequence;
- `SequencesDrawn`: identity values are drawn once, also by inserts that fail.

If its key is free when it commits, then by `Complete` no row of the question
has a higher revision, so the row it continued from is still the latest
(`FreeKeyIsNext`): the lost-update check is the unique constraint and nothing
else.  For 409 answers `CallsWitness` says that an open call has seen the
present state of its question, and another than the expected one as soon as
only *stale* can be its answer - a taken key means that somebody changed the
question since `Evaluate`.  `StatementsAreRequests` ties an awaited insert to
its caller's request, which the refinement needs: `Commit` maps to
`AnswerApplied`, `ReadBack` to `AnswerStale`, `Abandon` to the third disjunct
of `AnswerUnavailable`, `CommitAbandoned` and `DropAbandoned` to `LateEffect`,
and the steps in between stutter.  `IInv` was also checked by TLC on the
instance of `postgres_lifecycle` before it was proved.

**The lifecycle file.**  The queue is a lock (`FileLock`): who writes or syncs heads
it, so what a task decided on is still what the file holds when it writes
(`WritingOK`).  A log is good (`GoodLog`) when only its last line may be damaged and
every other is `Linked`: numbered by its place, its revision the number of events of
its question before it, its previous state what the last of these left.  So revisions
grow along the file (`RevisionsGrow`), the event with the highest one is the last line
(`LatestIsLast`), and a line written on a file without damage continues the chain.
That damage stays at the end needs the refusal: on a damaged file nobody writes, and a
write behind a cut line, which no read had seen as cut, damages that last line.  A
power loss leaves a prefix with at most one line cut, which is good again.  `Holds`
says that the file has every synced line or has it damaged; every survivor of a power
loss has it too, so an acknowledged event is on the device or the file fails closed.

For the refinement an event counts from its answer (`Settled` is the file without the
line being synced), so `Write` stutters, and `Sync`, `SyncFails`, a line without its
newline and the death of a process at work are each the change or nothing.  `SyncingOK`
keeps what the task had decided until then, and `HeldOK` that an open call has seen the
present state, which makes a 409 true.  The turn is kept because an appended line
carries the highest sequence (`SequencesBelow`): what reopens goes behind every
question with events, which come behind those without, and nobody overtakes the
question being asked (`NobodyOvertaken`).  On the table `SequencesBelow` fails, as
sequences are drawn before commit.

**The inbox table.**  `OneReceiptEach` becomes inductive with two facts: an open
request carries a record minted for it (`BusyHasRecord`), and one that reads
back was refused by a row that is still there (`ReadingIsHeld`; rows are never
deleted).  The refinement maps `Insert` to `AnswerStored`, `ReadBack` to `AnswerKept`,
and a late commit to a late effect of the port.

**The inbox file.**  The queue is a lock (`LockOK`): who writes or syncs heads it,
so between the read of the file and the write nobody else appends, and the
submission being written is still on no line.  A file is good (`GoodFile`) when the
lines that read are of submissions apart, and if its last line is not ended there is
one.  A cut write, and a write behind a cut one, only ever turn a line into a damaged
one, and what survives a power loss is a prefix of a good file with at most one line
cut, so file and disk stay good whatever happens; a crash in the middle of a write is
one more append.  `SyncingOK` says that the line being synced is the last, which is what
the refinement stands on: a record counts from its answer (`Settled` is the file
without that line), so `Write` stutters, and `Sync`, `SyncFails`, a line without its
newline and the death of a process that is syncing are each the put of the record.

**The audio upload.**  How far a request has come says what its temporary file
holds and what is under its name (`InHand`): a rename has a flushed file before
it, with every byte the write took, and stage two has the name before it.  So
what is under a name is on the device (`Settled`), which is why a crash can take
the name but no bytes.  Nothing removes a name but a
power loss, after which nothing is claimed of records.  `HasRequest` ties an
answer to the request it was given to.

**The admin page.**  Board and inbox view share the door and nothing else, so
each has an inductive invariant of its own.  A load has its snapshot before its
histories and the log only grows (`LoadsOK`): that is all the board needs, with
no lock and no transaction around the two reads, and what the cut leaves out is
the oldest of a total that counts it.  For the list, `NewestOK` says
that the read with the newest ticket was sent with the filters of the controls,
unless the effect that sends it has still to run; an answer with an older
ticket changes nothing, and a new ticket is above all others.

**The move of the inbox.**  The table only grows.  `ImportInv` says of one run
what it has established against a table - the lines behind it are in its own
rows or in the table under their receipts, the source names every submission
once and has every receipt the file had told, a refusal has a line to show for
it - and a table that grew beside it, at other submissions, leaves all of that
true (`ImportKept`).  Other submissions, because an uncommitted row makes every
other writer of its key wait.  `FileInv` is what the source inherits: lines that
read are of submissions apart, and what the file told is among them or a line is
damaged, which the import refuses.  For the schema, `Holds` is mutual exclusion
under the lock, so what a runner read is still what is recorded.

**The capture.**  The controller knows the microphone by its fields, the browser
by its callbacks, and `IInv` says that the two agree: tracks run and handlers are
set only in phase `recording` (`HandsOn`), and then they are those of `stream`
and `recorder`, which have the same number; the prompt the page waits for is the
one of the present generation and none is of a generation to come (`Waiting`).
`GivenUpIsSilent` needs a second invariant about the past, `ThrownOK`: of what
was open when a capture was thrown away, a prompt is of an older generation, and
a recorder has lost its handlers and is not the one in hand.  It holds at the
moment `#cancelCapture` counts the generation on and detaches, and stays because
generations and streams only grow and a new recorder is never an old one; so a
late grant only stops its own tracks, and a late end meets nobody.  That previews never run out
of names, which is type correctness, needs a count: each has its stream or its
capture given up behind it (`Counted`).

**The recording area.**  Two things carry it.  A recording is bound once, so
every attempt and every row of it has its one submission (`IdentityOK`,
`AttemptsOK`, `RowsOK`) and put if absent keeps one row.  And of the attempts
that are waited for no two have one generation, none is of a generation to come,
and the one of the present generation is what the page is sending (`WaitingOK`,
`SendingOK`): a late outcome carries an old generation and touches nothing.
`ReceiptsOK` carries the row of a receipt from the server to the page.

**Text delivery.**  The device is written in two ways only.  A first entry,
without a receipt, is written by the call that made the answer or by the
transaction it left behind, while nothing else speaks of the answer (`FreshOK`);
so it never covers an entry with a receipt.  Every later entry carries a receipt,
which is that of the server's one row (`StoreOK`, `CallsOK`, `LateOK`): a second
attempt in another tab gets the same one, and `AcknowledgedStays` follows.  The
words need more than truth now: "not saved" must stay true, so its answer is
`Gone` - on no device, in no call and in no transaction left behind - and a list
on its way to a page must still be true when it arrives (`ListsOK`).  `BusyOK`
is one call per button; `UnreadOK` counts the reads a page still owes, which type
correctness needs.

**The rotation.**  `PrecedesIsTotal`: questions without an event stand in the
dataset's order before those with one, which stand by their numbers, and equal
numbers fall back on the place.  `SomeoneIsFirst` finds the head with no
assumption that the dataset is finite: a least place, or a least number and a
least place among the tied.  So `Active`, which the models define as what stands
before all others, is the head of the sorted list, and nobody's only when nothing
is open (`OneIsAsked`).

**The doors.**  A step of the process is to one limiter one of four things
(`BrakeStep`): nothing, one call of `tryConsume`, the clock, or a fresh map; so
the refinement is an argument about one map.  `SpentOf` of a map is what it has
granted inside the window, and three lemmas say that bookkeeping never touches
it: a map swept to make room (`RoomMade`), a key whose attempts are pruned when
a call is refused (`SpentRefused`), and the clock, where filtering before ages
grow and after it leaves the same ones (`RecentLater`, `LaterKeeps`).
`ConsumeDecides` then compares one call with `SlidingWindow`.  The one place
that needs counting is a full map: the key in question may be among the keys
whose attempts are all stale, and then the others are fewer than the room there
is.  The filter is a recursive function, and what is shown of it is shown by a
least counterexample among the prefixes of a sequence (`EverySequence`), which
takes the place of the induction theorems of the library.  For the sessions
`SessionsOK` pairs each with its entry of `opened`: the same number, its key is
that of the code entered and of the secret of that time, and what is left of its
life is what its age has not used.

The inductive invariants of the capture, the recording area, text delivery, the
doors and both files were also checked by TLC before they were proved: on the
instances of `audio_capture`, `audio_answer`, `text_delivery`, `access_gates` and
`file_inbox`, and on that of `file_lifecycle` with two power losses.  Those of
the audio upload with short writes and of the captures thrown away were checked
the same way.

**Only model-checked:** liveness, which needs fairness and `ENABLED`, and with it
the second conjunct of `FileImplements` of the log.

## 7. What is not modelled, and why

- Texts, times, nicknames and their validation: a refusal is a 400 with nothing
  stored, which the models have.
- A draft that is edited while an answer is being saved: `setAnswer("")` after
  the save also clears what was typed meanwhile (`family-experience.tsx`).  It
  is listed as a hazard; a model of it would restate these two assignments.
- Two server processes over one directory: the write queues are per process,
  and the adapters' own comments exclude it.
- The entry of a new shard directory in the media root, which is never synced:
  whether a file system persists it with the shard differs.
- Read paths of the inbox (`list`, `findBySubmissionId`) and the playback route,
  which change nothing: a row, then the recording it names, which
  `RowsHaveRecordings` says is there.
- A clock that steps back: ages of attempts and sessions only grow.
- Backup scripts: two commands one after the other, against a store that only
  grows; what they copy is not consistent in time, and no code relies on it.
- Signatures and hashes; formats recognised from first bytes; SQL and JSON
  conversions; configuration; layout and wording, except for the sentences that
  claim something (`WordsAreTrue`, `ArrivedIsStored`).

## 8. Plan

Done, in this order: the vocabulary and register of the lifecycle; the log on
PostgreSQL with its proofs; the log on a file; the inbox port and its two
stores; the audio upload; capture; the recording area; text delivery; the doors;
the adult's page; the move of the inbox; the proofs of the inbox table, the
audio upload, the admin page and the move; the proofs of the capture, the
recording area, text delivery, the two files and the doors.

All safety properties that the runs check are theorems now.  What could still be
stated and proved:

- `AccessGates`: that the sign-ins of one caller inside a window never exceed
  its limit, from `LimitersImplement` and a count over the window.
