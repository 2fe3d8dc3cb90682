---------------------------- MODULE TextDelivery ----------------------------
(***************************************************************************)
(* A written answer on its way from the child's page (family-experience    *)
(* .tsx) over the device's IndexedDB to the project inbox and back         *)
(* (application/submissions/deliver-submission.ts), from several tabs of   *)
(* one browser, against a server that puts if absent and a network that    *)
(* loses answers and delivers late.                                        *)
(*                                                                         *)
(* Texts, times and the question of an answer are fixed when its id is     *)
(* made and travel with it; they are left out.                             *)
(***************************************************************************)
EXTENDS Naturals

CONSTANTS
  Tabs,            \* open pages of the site in one browser
  MaxSubmissions,  \* bound: how many answers are written
  MaxAttempts      \* bound: how many requests are posted

ASSUME BoundsAssumption == {MaxSubmissions, MaxAttempts} \subseteq Nat

VARIABLES
  device,     \* the object store: submissions, receipt 0 for LOCAL_ONLY
  rows,       \* the server's records
  created,    \* how many answers have been written
  attempted,  \* how many requests have been posted
  calls,      \* handleAnswerSubmit and handleRetry calls that have not returned
  late,       \* requests and transactions that nobody waits for and that may still happen
  saving,     \* saving[t]: isSaving, as the answer it is about, 0 for none
  about,      \* auxiliary: about[t]: the answer savedMessage speaks of
  sentence,   \* sentence[t]: savedMessage
  retrying,   \* retrying[t]: retryingId, 0 for none
  said,       \* said[t][s]: retryMessages
  shown,      \* shown[t]: the list under "Meine Ideen"
  unread,     \* unread[t]: how many list() calls have not read yet
  fetched,    \* fetched[t]: what list() calls have read and not shown yet
  refused     \* auxiliary: answers the child was told are declined

page == <<saving, about, sentence, retrying, said, shown, unread, fetched>>

vars == <<device, rows, created, attempted, calls, late, page, refused>>

Ids == 1 .. MaxSubmissions

Local(s) == [submission |-> s, receipt |-> 0]

\* What the route builds of a request: it mints a receipt for each.
Record(c) == [submission |-> c.submission, receipt |-> c.number]

Late(at, entry) == [at |-> at, entry |-> entry]

\* objectStore.put: one entry for each id.
Put(entry) == {e \in device : e.submission # entry.submission} \cup {entry}

Silent == [s \in Ids |-> "nothing"]

Init ==
  /\ device = {} /\ rows = {}
  /\ created = 0 /\ attempted = 0
  /\ calls = {} /\ late = {}
  /\ saving = [t \in Tabs |-> 0] /\ about = [t \in Tabs |-> 0]
  /\ sentence = [t \in Tabs |-> "nothing"]
  /\ retrying = [t \in Tabs |-> 0]
  /\ said = [t \in Tabs |-> Silent]
  /\ shown = [t \in Tabs |-> {}]
  /\ unread = [t \in Tabs |-> 1]
  /\ fetched = [t \in Tabs |-> {}]
  /\ refused = {}

----------------------------------------------------------------------------
(* The two buttons *)

Call(t, s, by, step, number) ==
  [tab |-> t, submission |-> s, by |-> by, step |-> step, number |-> number,
   outcome |-> "none", receipt |-> 0, again |-> s \in refused]

\* MUTANT: no look at isSaving.
SubmitBesides(t) ==
  /\ created < MaxSubmissions /\ attempted < MaxAttempts
  /\ created' = created + 1 /\ attempted' = attempted + 1
  /\ saving' = [saving EXCEPT ![t] = created']
  /\ about' = [about EXCEPT ![t] = created']
  /\ sentence' = [sentence EXCEPT ![t] = "nothing"]
  /\ calls' = calls \cup {Call(t, created', "save", "storing", attempted')}
  /\ UNCHANGED <<device, rows, late, retrying, said, shown, unread, fetched, refused>>

\* handleAnswerSubmit up to repository.save: a new answer with a random id.
Submit(t) ==
  /\ saving[t] = 0
  /\ created < MaxSubmissions /\ attempted < MaxAttempts
  /\ created' = created + 1 /\ attempted' = attempted + 1
  /\ saving' = [saving EXCEPT ![t] = created']
  /\ about' = [about EXCEPT ![t] = created']
  /\ sentence' = [sentence EXCEPT ![t] = "nothing"]
  /\ calls' = calls \cup {Call(t, created', "save", "storing", attempted')}
  /\ UNCHANGED <<device, rows, late, retrying, said, shown, unread, fetched, refused>>

\* MUTANT: a retry that begins like a first attempt, by saving what the list shows.
RetrySaving(t, s) ==
  /\ retrying[t] = 0
  /\ Local(s) \in shown[t]
  /\ attempted < MaxAttempts
  /\ attempted' = attempted + 1
  /\ retrying' = [retrying EXCEPT ![t] = s]
  /\ said' = [said EXCEPT ![t][s] = "nothing"]
  /\ device' = Put(Local(s))
  /\ calls' = calls \cup {Call(t, s, "retry", "posted", attempted')}
  /\ UNCHANGED <<rows, created, late, saving, about, sentence, shown, unread, fetched,
                 refused>>

\* handleRetry up to the request, for an entry the list shows as not arrived.
Retry(t, s) ==
  /\ retrying[t] = 0
  /\ Local(s) \in shown[t]
  /\ attempted < MaxAttempts
  /\ attempted' = attempted + 1
  /\ retrying' = [retrying EXCEPT ![t] = s]
  /\ said' = [said EXCEPT ![t][s] = "nothing"]
  /\ calls' = calls \cup {Call(t, s, "retry", "posted", attempted')}
  /\ UNCHANGED <<device, rows, created, late, saving, about, sentence, shown, unread,
                 fetched, refused>>

\* The end of either: its sentence, the button is free again, and the list is read anew.
Finish(c, outcome) ==
  /\ IF c.by = "save"
       THEN /\ sentence' = [sentence EXCEPT ![c.tab] = outcome]
            /\ saving' = [saving EXCEPT ![c.tab] = 0]
            /\ UNCHANGED <<said, retrying>>
       ELSE /\ said' = [said EXCEPT ![c.tab][c.submission] = outcome]
            /\ retrying' = [retrying EXCEPT ![c.tab] = 0]
            /\ UNCHANGED <<sentence, saving>>
  /\ unread' = [unread EXCEPT ![c.tab] = @ + 1]
  /\ refused' = IF outcome = "refused" THEN refused \cup {c.submission} ELSE refused
  /\ UNCHANGED <<about, shown, fetched>>

----------------------------------------------------------------------------
(* The store of the device *)

\* submitText has saved: the sentence says so, and the request goes out.
Keep(c) ==
  /\ c.step = "storing"
  /\ device' = Put(Local(c.submission))
  /\ sentence' = [sentence EXCEPT ![c.tab] = "saved"]
  /\ calls' = (calls \ {c}) \cup {[c EXCEPT !.step = "posted"]}
  /\ UNCHANGED <<rows, created, attempted, late, saving, about, retrying, said, shown,
                 unread, fetched, refused>>

KeepFails(c) ==
  /\ c.step = "storing"
  /\ calls' = calls \ {c}
  /\ Finish(c, "not-saved")
  /\ UNCHANGED <<device, rows, created, attempted, late>>

\* The acknowledged copy, with the receipt this call was given, is saved.
Acknowledge(c) ==
  /\ c.step = "acknowledging"
  /\ device' = Put([submission |-> c.submission, receipt |-> c.receipt])
  /\ calls' = calls \ {c}
  /\ Finish(c, "arrived")
  /\ UNCHANGED <<rows, created, attempted, late>>

\* The receipt is dropped with it.
AcknowledgeFails(c) ==
  /\ c.step = "acknowledging"
  /\ calls' = calls \ {c}
  /\ Finish(c, "local-save")
  /\ UNCHANGED <<device, rows, created, attempted, late>>

\* A transaction outlives the page that asked for it.
CommitLate ==
  \E l \in late :
    /\ l.at = "device"
    /\ device' = Put(l.entry)
    /\ late' = late \ {l}
    /\ UNCHANGED <<rows, created, attempted, calls, page, refused>>

ReadList(t) ==
  /\ unread[t] > 0
  /\ unread' = [unread EXCEPT ![t] = @ - 1]
  /\ fetched' = [fetched EXCEPT ![t] = @ \cup {device}]
  /\ UNCHANGED <<device, rows, created, attempted, calls, late, saving, about, sentence,
                 retrying, said, shown, refused>>

\* "this device cannot say what it holds".
ReadListFails(t) ==
  /\ unread[t] > 0
  /\ unread' = [unread EXCEPT ![t] = @ - 1]
  /\ shown' = [shown EXCEPT ![t] = {}]
  /\ UNCHANGED <<device, rows, created, attempted, calls, late, saving, about, sentence,
                 retrying, said, fetched, refused>>

\* Two lists may be shown in another order than they were read.
ShowList(t) ==
  /\ \E list \in fetched[t] :
       /\ shown' = [shown EXCEPT ![t] = list]
       /\ fetched' = [fetched EXCEPT ![t] = @ \ {list}]
  /\ UNCHANGED <<device, rows, created, attempted, calls, late, saving, about, sentence,
                 retrying, said, unread, refused>>

----------------------------------------------------------------------------
(* The request *)

Held(s) == {r \in rows : r.submission = s}

\* Put if absent.
Store(record) == IF Held(record.submission) = {} THEN rows \cup {record} ELSE rows

Respond(c, outcome, receipt) ==
  calls' = (calls \ {c}) \cup
             {[c EXCEPT !.step = "answered", !.outcome = outcome, !.receipt = receipt]}

\* The POST handler: the receipt of the record that is there now.
Handle(c) ==
  /\ c.step = "posted"
  /\ rows' = Store(Record(c))
  /\ \E r \in rows' : r.submission = c.submission /\ Respond(c, "receipt", r.receipt)
  /\ UNCHANGED <<device, created, attempted, late, page, refused>>

\* 400, 401 or 429: nothing is stored.
Decline(c) ==
  /\ c.step = "posted"
  /\ Respond(c, "refused", 0)
  /\ UNCHANGED <<device, rows, created, attempted, late, page, refused>>

\* 503: the insert may take effect all the same, at once or later.
Unavailable(c) ==
  /\ c.step = "posted"
  /\ Respond(c, "transport", 0)
  /\ late' = late \cup {Late("server", Record(c))}
  /\ UNCHANGED <<device, rows, created, attempted, page, refused>>

\* A request whose page is gone or has given up is handled.
HandleLate ==
  \E l \in late :
    /\ l.at = "server"
    /\ rows' = Store(l.entry)
    /\ late' = late \ {l}
    /\ UNCHANGED <<device, created, attempted, calls, page, refused>>

\* MUTANT: what was answered at all is taken to have arrived.
AnswerArrived(c) ==
  /\ c.step = "answered"
  /\ calls' = calls \ {c}
  /\ Finish(c, "arrived")
  /\ UNCHANGED <<device, rows, created, attempted, late>>

\* A receipt is saved first; everything else ends the attempt, the answer as it was.
Answer(c) ==
  /\ c.step = "answered"
  /\ IF c.outcome = "receipt"
       THEN /\ calls' = (calls \ {c}) \cup {[c EXCEPT !.step = "acknowledging"]}
            /\ UNCHANGED <<page, refused>>
       ELSE /\ calls' = calls \ {c}
            /\ Finish(c, c.outcome)
  /\ UNCHANGED <<device, rows, created, attempted, late>>

\* What a call leaves behind that ends at its step.
LeftBehind(c) ==
  CASE c.step = "posted"        -> {Late("server", Record(c))}
    [] c.step = "storing"       -> {Late("device", Local(c.submission))}
    [] c.step = "acknowledging" ->
         {Late("device", [submission |-> c.submission, receipt |-> c.receipt])}
    [] OTHER                    -> {}

\* MUTANT: no timeout while the server has not answered.
TimeoutOfTheBody(c) ==
  /\ c.step = "answered"
  /\ calls' = calls \ {c}
  /\ Finish(c, "transport")
  /\ UNCHANGED <<device, rows, created, attempted, late>>

\* Offline, or ten seconds are over: the request may still be handled.
Timeout(c) ==
  /\ c.step \in {"posted", "answered"}
  /\ calls' = calls \ {c}
  /\ late' = late \cup LeftBehind(c)
  /\ Finish(c, "transport")
  /\ UNCHANGED <<device, rows, created, attempted>>

\* The page is closed or loaded again: a new page knows only what the device holds.
Reload(t) ==
  /\ LET own == {c \in calls : c.tab = t}
     IN  /\ calls' = calls \ own
         /\ late' = late \cup UNION {LeftBehind(c) : c \in own}
  /\ saving' = [saving EXCEPT ![t] = 0] /\ about' = [about EXCEPT ![t] = 0]
  /\ sentence' = [sentence EXCEPT ![t] = "nothing"]
  /\ retrying' = [retrying EXCEPT ![t] = 0]
  /\ said' = [said EXCEPT ![t] = Silent]
  /\ shown' = [shown EXCEPT ![t] = {}]
  /\ unread' = [unread EXCEPT ![t] = 1]
  /\ fetched' = [fetched EXCEPT ![t] = {}]
  /\ UNCHANGED <<device, rows, created, attempted, refused>>

Next ==
  \/ \E t \in Tabs :
       \/ Submit(t)
       \/ \E s \in Ids : Retry(t, s)
       \/ ReadList(t)
       \/ ReadListFails(t)
       \/ ShowList(t)
       \/ Reload(t)
  \/ \E c \in calls :
       \/ Keep(c)
       \/ KeepFails(c)
       \/ Acknowledge(c)
       \/ AcknowledgeFails(c)
       \/ Handle(c)
       \/ Decline(c)
       \/ Unavailable(c)
       \/ Answer(c)
       \/ Timeout(c)
  \/ CommitLate
  \/ HandleLate

Spec == Init /\ [][Next]_vars

Proceed(t, by) ==
  \E c \in calls :
    /\ c.tab = t /\ c.by = by
    /\ \/ Keep(c) \/ KeepFails(c) \/ Acknowledge(c) \/ AcknowledgeFails(c)
       \/ Answer(c) \/ Timeout(c)

\* A transaction completes or fails, and AbortSignal.timeout ends what the network does not.
FairSpec == Spec /\ \A t \in Tabs, by \in {"save", "retry"} : WF_vars(Proceed(t, by))

----------------------------------------------------------------------------
(* Properties *)

Entries == [submission : Ids, receipt : 0 .. MaxAttempts]

Lists == SUBSET Entries

Outcomes == {"nothing", "saved", "arrived", "transport", "refused", "local-save", "not-saved"}

TypeOK ==
  /\ device \in Lists
  /\ rows \subseteq [submission : Ids, receipt : 1 .. MaxAttempts]
  /\ created \in 0 .. MaxSubmissions /\ attempted \in 0 .. MaxAttempts
  /\ \A c \in calls :
       /\ c.step \in {"storing", "posted", "answered", "acknowledging"}
       /\ c.submission \in Ids /\ c.tab \in Tabs
       /\ c.step = "acknowledging" => c.receipt \in 1 .. MaxAttempts
  /\ \A l \in late : l.at \in {"device", "server"} /\ l.entry \in Entries
  /\ saving \in [Tabs -> 0 .. MaxSubmissions] /\ about \in [Tabs -> 0 .. MaxSubmissions]
  /\ sentence \in [Tabs -> Outcomes]
  /\ retrying \in [Tabs -> 0 .. MaxSubmissions]
  /\ said \in [Tabs -> [Ids -> Outcomes]]
  /\ shown \in [Tabs -> Lists]
  /\ unread \in [Tabs -> 0 .. MaxAttempts + 1]
  /\ \A t \in Tabs : fetched[t] \subseteq Lists
  /\ refused \subseteq Ids

\* "Deine Antwort ist sicher auf diesem Geraet" (child-submission-message.ts).
Kept(s) == \E e \in device : e.submission = s

Arrived(s) == \E e \in device : e.submission = s /\ e.receipt # 0

\* What a sentence claims of the answer it is about.
Holds(word, s) ==
  CASE word = "arrived" -> Arrived(s)
    [] word \in {"saved", "transport", "refused", "local-save"} -> Kept(s)
    [] word = "not-saved" -> ~Kept(s)
    [] OTHER -> TRUE

\* "never a claim of arrival" without a receipt (child-submission-message.ts): every
\* sentence on every page is true of the device, and whatever a device or a list on a
\* page, however old, shows as arrived is stored by the project under that receipt.
WordsAreTrue ==
  /\ \A t \in Tabs :
       /\ Holds(sentence[t], about[t])
       /\ \A s \in Ids : Holds(said[t][s], s)
  /\ \A list \in {device} \cup {shown[t] : t \in Tabs} :
       \A e \in list : e.receipt # 0 => e \in rows

\* "Im Projekt angekommen" is never taken back or given another receipt, by no second
\* attempt, late answer or older page.
AcknowledgedStays == [][\A e \in device : e.receipt # 0 => e \in device']_vars

\* "One attempt at a time": a button is busy exactly while one call is there that will
\* free it, and no call of an older press frees it.
BusyHasACall ==
  /\ TypeOK
  /\ \A t \in Tabs :
       /\ {c.submission : c \in {d \in calls : d.tab = t /\ d.by = "save"}}
            = {saving[t]} \ {0}
       /\ {c.submission : c \in {d \in calls : d.tab = t /\ d.by = "retry"}}
            = {retrying[t]} \ {0}

\* "otherwise the child is left waiting on a promise that never settles": every press ends.
EveryPressEnds ==
  \A t \in Tabs :
    /\ saving[t] # 0 ~> saving[t] = 0
    /\ retrying[t] # 0 ~> retrying[t] = 0

\* "Sending the same text again will be declined again" (submission-inbox.ts): an answer
\* a child was told is declined is not acknowledged by a later attempt.
RefusalIsFinal == \A c \in calls : c.again => c.outcome # "receipt"
=============================================================================
