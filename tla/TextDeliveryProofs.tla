------------------------- MODULE TextDeliveryProofs --------------------------
(***************************************************************************)
(* What a page says of an answer is true, a button is busy exactly while   *)
(* its call runs, and what has arrived stays so, for any tabs and any      *)
(* number of answers and of requests.                                      *)
(*                                                                         *)
(* The device is written in two ways only.  An answer's first entry is     *)
(* written by the one call that made it, or by the transaction that call   *)
(* has left behind, while nothing else speaks of the answer; so it never   *)
(* covers an entry with a receipt.  Every later entry carries the receipt  *)
(* of the server's one row.                                                *)
(***************************************************************************)
EXTENDS TextDelivery, TLAPS

Steps == {"storing", "posted", "answered", "acknowledging"}

CallRecs == [tab : Tabs, submission : Ids, by : {"save", "retry"}, step : Steps,
             number : 1 .. MaxAttempts,
             outcome : {"none", "receipt", "refused", "transport"},
             receipt : 0 .. MaxAttempts, again : BOOLEAN]

Lates == [at : {"device", "server"}, entry : Entries]

\* The acknowledged copy a call has in hand.
Copy(c) == [submission |-> c.submission, receipt |-> c.receipt]

Busy(x) == IF x = 0 THEN 0 ELSE 1

PageOK ==
  /\ saving \in [Tabs -> 0 .. MaxSubmissions] /\ about \in [Tabs -> 0 .. MaxSubmissions]
  /\ sentence \in [Tabs -> Outcomes]
  /\ retrying \in [Tabs -> 0 .. MaxSubmissions]
  /\ said \in [Tabs -> [Ids -> Outcomes]]
  /\ shown \in [Tabs -> Lists] /\ fetched \in [Tabs -> SUBSET Lists]
  /\ refused \subseteq Ids

\* Every list still to be read was asked for by the page or by a call that has ended.
UnreadOK ==
  /\ created \in 0 .. MaxSubmissions /\ attempted \in 0 .. MaxAttempts
  /\ unread \in [Tabs -> Nat]
  /\ \A t \in Tabs : unread[t] + Busy(saving[t]) + Busy(retrying[t]) <= attempted + 1

AboutOK ==
  \A t \in Tabs : about[t] <= created /\ (saving[t] # 0 => about[t] = saving[t])

\* The server keeps one row of an answer; the device calls arrived what is in it.
StoreOK ==
  /\ rows \subseteq [submission : Ids, receipt : 1 .. MaxAttempts]
  /\ \A r, q \in rows : r.submission = q.submission => r = q
  /\ device \in Lists
  /\ \A e \in device : e.submission <= created /\ (e.receipt # 0 => e \in rows)

Sound(list) == \A e \in list : Kept(e.submission) /\ (e.receipt # 0 => e \in rows)

\* Every list on a page, or on its way there, was true when it was read and still is.
ListsOK == \A t \in Tabs : Sound(shown[t]) /\ \A list \in fetched[t] : Sound(list)

\* The button a call was started by is busy with its answer, and with no other call.
BusyOK ==
  /\ \A c \in calls :
       /\ c.by = "save" => saving[c.tab] = c.submission
       /\ c.by = "retry" => retrying[c.tab] = c.submission
  /\ \A t \in Tabs :
       /\ saving[t] # 0 => \E c \in calls : c.tab = t /\ c.by = "save"
       /\ retrying[t] # 0 => \E c \in calls : c.tab = t /\ c.by = "retry"
  /\ \A c, d \in calls : c.tab = d.tab /\ c.by = d.by => c = d

\* A call past its first save speaks of an answer the device has, and a receipt it was
\* given is the row's.
CallsOK ==
  /\ calls \subseteq CallRecs
  /\ \A c \in calls :
       /\ c.submission <= created
       /\ c.step = "storing" => c.by = "save"
       /\ c.step # "storing" => Kept(c.submission)
       /\ c.step = "answered" => c.outcome # "none"
       /\ c.step = "answered" /\ c.outcome = "receipt" => Copy(c) \in rows
       /\ c.step = "acknowledging" => Copy(c) \in rows

LateOK ==
  /\ late \subseteq Lates
  /\ \A l \in late :
       /\ l.entry.submission <= created
       /\ l.at = "server" => l.entry.receipt # 0
       /\ l.at = "device" /\ l.entry.receipt # 0 =>
            Kept(l.entry.submission) /\ l.entry \in rows

FirstSave(l) == l.at = "device" /\ l.entry.receipt = 0

\* Nothing else speaks of an answer that is still to be saved for the first time.
FreshOK ==
  /\ \A c \in calls : c.step = "storing" =>
       /\ ~Kept(c.submission)
       /\ \A d \in calls : d.submission = c.submission => d = c
       /\ \A l \in late : FirstSave(l) => l.entry.submission # c.submission
  /\ \A l \in late : FirstSave(l) =>
       /\ ~Kept(l.entry.submission)
       /\ \A d \in calls : d.submission # l.entry.submission
       /\ \A k \in late : FirstSave(k) /\ k.entry.submission = l.entry.submission => k = l

\* An answer that could not be saved, and that nothing will save any more.
Gone(s) ==
  /\ ~Kept(s)
  /\ \A c \in calls : c.submission # s
  /\ \A l \in late : FirstSave(l) => l.entry.submission # s

Claims(word, s) ==
  /\ word = "arrived" => Arrived(s)
  /\ word \in {"saved", "transport", "refused", "local-save"} => Kept(s)
  /\ word = "not-saved" => Gone(s)

WordsOK ==
  \A t \in Tabs :
    /\ Claims(sentence[t], about[t])
    /\ \A s \in Ids : said[t][s] # "not-saved" /\ Claims(said[t][s], s)

IInv ==
  /\ PageOK /\ UnreadOK /\ AboutOK /\ StoreOK /\ ListsOK
  /\ BusyOK /\ CallsOK /\ LateOK /\ FreshOK /\ WordsOK

----------------------------------------------------------------------------
(* What a step may do to the stores *)

\* Nothing that is kept, arrived or stored is lost.
Grown ==
  /\ \A s : Kept(s) => Kept(s)'
  /\ \A s : Arrived(s) => Arrived(s)'
  /\ rows \subseteq rows'

ServerLates == {l \in Lates : l.at = "server" /\ l.entry.receipt # 0 /\ l.entry.submission <= created}

\* The device stays, and what is newly left behind is for the server.
Quiet ==
  /\ UNCHANGED <<device, created>>
  /\ rows \subseteq rows'
  /\ late' \subseteq late \cup ServerLates

\* No call is new, and one that has moved on has its first save behind it.
MovedOn ==
  \A d \in calls' :
    \/ d \in calls
    \/ /\ d.step # "storing"
       /\ \E c \in calls : c.step # "storing" /\ c.submission = d.submission

StillGone == \A s \in 0 .. created : Gone(s) => Gone(s)'

LEMMA QuietGrows ==
  ASSUME Quiet PROVE Grown /\ \A s : Kept(s)' <=> Kept(s)
<1> QED BY DEF Quiet, Grown, Kept, Arrived

LEMMA QuietRest ==
  ASSUME IInv, Quiet, MovedOn PROVE LateOK' /\ FreshOK' /\ StillGone
<1>1. Grown /\ \A s : Kept(s)' <=> Kept(s)
  BY QuietGrows
<1>2. \A l \in late' : FirstSave(l) => l \in late
  BY DEF Quiet, ServerLates, FirstSave
<1>3. LateOK'
  <2>1. late' \subseteq Lates
    BY DEF IInv, LateOK, Quiet, ServerLates
  <2>2. ASSUME NEW l \in late'
        PROVE  /\ l.entry.submission <= created'
               /\ l.at = "server" => l.entry.receipt # 0
               /\ l.at = "device" /\ l.entry.receipt # 0 =>
                    Kept(l.entry.submission)' /\ l.entry \in rows'
    <3>1. CASE l \in late
      BY <3>1, <1>1 DEF IInv, LateOK, Quiet
    <3>2. CASE l \in ServerLates
      BY <3>2 DEF ServerLates, Quiet
    <3> QED BY <3>1, <3>2 DEF Quiet
  <2> QED BY <2>1, <2>2 DEF LateOK
<1>4. FreshOK'
  <2>1. ASSUME NEW c \in calls', c.step = "storing"
        PROVE  /\ ~Kept(c.submission)'
               /\ \A d \in calls' : d.submission = c.submission => d = c
               /\ \A l \in late' : FirstSave(l) => l.entry.submission # c.submission
    <3>1. c \in calls
      BY <2>1 DEF MovedOn
    <3> QED BY <3>1, <2>1, <1>1, <1>2 DEF IInv, FreshOK, MovedOn
  <2>2. ASSUME NEW l \in late', FirstSave(l)
        PROVE  /\ ~Kept(l.entry.submission)'
               /\ \A d \in calls' : d.submission # l.entry.submission
               /\ \A k \in late' : FirstSave(k) /\ k.entry.submission = l.entry.submission =>
                    k = l
    BY <2>2, <1>1, <1>2 DEF IInv, FreshOK, MovedOn
  <2> QED BY <2>1, <2>2 DEF FreshOK, FirstSave
<1>5. StillGone
  BY <1>1, <1>2 DEF StillGone, Gone, MovedOn, FirstSave
<1> QED BY <1>3, <1>4, <1>5

LEMMA GrownLists ==
  ASSUME IInv, Grown, UNCHANGED <<shown, fetched>> PROVE ListsOK'
<1> QED BY DEF IInv, ListsOK, Sound, Grown

LEMMA ClaimsStay ==
  ASSUME NEW word, NEW s, Claims(word, s), Grown, Gone(s) => Gone(s)'
  PROVE  Claims(word, s)'
<1> QED BY DEF Claims, Grown

LEMMA FewerCalls ==
  ASSUME IInv, Grown, calls' \subseteq calls, UNCHANGED created PROVE CallsOK'
<1> QED BY DEF IInv, CallsOK, Grown

\* No word has changed.
LEMMA WordsStay ==
  ASSUME IInv, Grown, StillGone, UNCHANGED <<about, sentence, said>> PROVE WordsOK'
<1> SUFFICES ASSUME NEW t \in Tabs
             PROVE  /\ Claims(sentence[t], about[t])'
                    /\ \A s \in Ids : (said[t][s] # "not-saved" /\ Claims(said[t][s], s))'
  BY DEF WordsOK
<1>1. PICK word, s : word = sentence[t] /\ s = about[t] /\ s \in 0 .. created
  BY BoundsAssumption DEF IInv, PageOK, AboutOK, UnreadOK
<1>2. Claims(word, s)'
  BY <1>1, ClaimsStay DEF IInv, WordsOK, StillGone
<1>3. Claims(sentence[t], about[t])'
  BY <1>1, <1>2
<1>4. ASSUME NEW i \in Ids PROVE (said[t][i] # "not-saved" /\ Claims(said[t][i], i))'
  <2>1. PICK w : w = said[t][i] /\ w # "not-saved" /\ Claims(w, i)
    BY DEF IInv, WordsOK
  <2>2. Claims(w, i)'
    BY <2>1 DEF Claims, Grown
  <2> QED BY <2>1, <2>2
<1> QED BY <1>3, <1>4

\* An entry is put on the device: the first one of its answer, or the row's copy.
Puts(x) ==
  /\ x \in Entries /\ device' = Put(x)
  /\ \/ x.receipt = 0 /\ ~Kept(x.submission)
     \/ x.receipt # 0 /\ x \in rows

LEMMA PutGrows ==
  ASSUME IInv, NEW x, Puts(x), UNCHANGED rows
  PROVE  /\ Grown
         /\ \A s : Kept(s)' <=> Kept(s) \/ s = x.submission
         /\ \A e \in device : e.receipt # 0 => e \in device'
<1>1. x \in device' /\ \A e \in device : e.submission # x.submission => e \in device'
  BY DEF Puts, Put
<1>2. \A e \in device' : e \in device \/ e = x
  BY DEF Puts, Put
<1>3. ASSUME NEW e \in device, e.receipt # 0 PROVE e \in device'
  <2>1. CASE e.submission # x.submission
    BY <2>1, <1>1
  <2>2. CASE e.submission = x.submission
    <3>1. e \in rows /\ Kept(x.submission)
      BY <2>2, <1>3 DEF IInv, StoreOK, Kept
    <3>2. x \in rows
      BY <3>1 DEF Puts
    <3>3. e = x
      BY <3>1, <3>2, <2>2 DEF IInv, StoreOK
    <3> QED BY <3>3, <1>1
  <2> QED BY <2>1, <2>2
<1>4. \A s : Kept(s)' <=> Kept(s) \/ s = x.submission
  BY <1>1, <1>2 DEF Kept
<1>5. \A s : Arrived(s) => Arrived(s)'
  BY <1>3 DEF Arrived
<1> QED BY <1>3, <1>4, <1>5 DEF Grown

LEMMA PutStore ==
  ASSUME IInv, NEW x, Puts(x), x.submission <= created, UNCHANGED <<rows, created>>
  PROVE  StoreOK'
<1>1. \A e \in device' : e \in device \/ e = x
  BY DEF Puts, Put
<1>2. device' \in Lists
  BY <1>1 DEF Puts, Lists, IInv, StoreOK
<1>3. \A e \in device' : e.submission <= created' /\ (e.receipt # 0 => e \in rows')
  BY <1>1 DEF Puts, IInv, StoreOK
<1> QED BY <1>2, <1>3 DEF IInv, StoreOK

\* Putting an entry of an answer that is not spoken of elsewhere, or that is kept already,
\* leaves alone what has not been kept.
LEMMA PutRest ==
  ASSUME IInv, NEW x, Puts(x), x.submission <= created,
         UNCHANGED <<rows, created>>, late' \subseteq late,
         \A d \in calls' : d \in calls \/ (d.step # "storing" /\ d.submission = x.submission),
         \A d \in calls' : d.step = "storing" => d.submission # x.submission,
         \A l \in late' : FirstSave(l) => l.entry.submission # x.submission,
         \A s \in 0 .. created : Gone(s) => s # x.submission
  PROVE  LateOK' /\ FreshOK' /\ StillGone
<1>1. Grown /\ \A s : Kept(s)' <=> Kept(s) \/ s = x.submission
  BY PutGrows
<1>2. LateOK'
  BY <1>1 DEF IInv, LateOK, Grown
<1>3. FreshOK'
  <2>1. ASSUME NEW c \in calls', c.step = "storing"
        PROVE  /\ ~Kept(c.submission)'
               /\ \A d \in calls' : d.submission = c.submission => d = c
               /\ \A l \in late' : FirstSave(l) => l.entry.submission # c.submission
    <3>1. c \in calls
      BY <2>1
    <3> QED BY <3>1, <2>1, <1>1 DEF IInv, FreshOK
  <2>2. ASSUME NEW l \in late', FirstSave(l)
        PROVE  /\ ~Kept(l.entry.submission)'
               /\ \A d \in calls' : d.submission # l.entry.submission
               /\ \A k \in late' : FirstSave(k) /\ k.entry.submission = l.entry.submission =>
                    k = l
    BY <2>2, <1>1 DEF IInv, FreshOK
  <2> QED BY <2>1, <2>2 DEF FreshOK, FirstSave
<1>4. StillGone
  BY <1>1 DEF StillGone, Gone, FirstSave
<1> QED BY <1>2, <1>3, <1>4

\* A record is put if absent.
LEMMA StoreRow ==
  ASSUME IInv, NEW r, r \in [submission : Ids, receipt : 1 .. MaxAttempts],
         rows' = Store(r), UNCHANGED <<device, created>>
  PROVE  StoreOK' /\ rows \subseteq rows'
<1>1. CASE Held(r.submission) = {}
  <2>1. rows' = rows \cup {r}
    BY <1>1 DEF Store
  <2> QED BY <2>1, <1>1 DEF IInv, StoreOK, Held
<1>2. CASE Held(r.submission) # {}
  BY <1>2 DEF Store, IInv, StoreOK
<1> QED BY <1>1, <1>2

----------------------------------------------------------------------------
(* The calls and the buttons *)

LEMMA BusyNumbers == Busy(0) = 0 /\ \A n \in Ids : Busy(n) = 1
<1> QED BY BoundsAssumption DEF Busy, Ids

\* The word said of one answer on one page changes, and no other.
LEMMA SaidStep ==
  ASSUME NEW f \in [Tabs -> [Ids -> Outcomes]], NEW t \in Tabs, NEW n \in Ids,
         NEW word \in Outcomes
  PROVE  /\ [f EXCEPT ![t][n] = word] \in [Tabs -> [Ids -> Outcomes]]
         /\ \A u \in Tabs, i \in Ids :
              [f EXCEPT ![t][n] = word][u][i] = IF u = t /\ i = n THEN word ELSE f[u][i]
<1>1. PICK g \in [Ids -> Outcomes] : g = [f[t] EXCEPT ![n] = word]
  OBVIOUS
<1>2. [f EXCEPT ![t][n] = word] = [f EXCEPT ![t] = g]
  BY <1>1
<1>3. [f EXCEPT ![t] = g] \in [Tabs -> [Ids -> Outcomes]]
  OBVIOUS
<1>4. \A u \in Tabs, i \in Ids :
        [f EXCEPT ![t] = g][u][i] = IF u = t /\ i = n THEN word ELSE f[u][i]
  BY <1>1
<1> QED BY <1>2, <1>3, <1>4

\* A call ends, with its word.
LEMMA FinishPage ==
  ASSUME IInv, NEW c \in calls, NEW word \in Outcomes, Finish(c, word),
         calls' = calls \ {c}, UNCHANGED <<created, attempted>>
  PROVE  PageOK' /\ UnreadOK' /\ AboutOK' /\ BusyOK'
<1>1. PICK t \in Tabs, n \in Ids : t = c.tab /\ n = c.submission
  BY DEF IInv, CallsOK, CallRecs
<1>2. c.by \in {"save", "retry"}
  BY DEF IInv, CallsOK, CallRecs
<1>3. PageOK'
  <2>1. saving' \in [Tabs -> 0 .. MaxSubmissions] /\ retrying' \in [Tabs -> 0 .. MaxSubmissions]
    BY BoundsAssumption DEF Finish, IInv, PageOK
  <2>2. sentence' \in [Tabs -> Outcomes]
    BY DEF Finish, IInv, PageOK
  <2>3. said' \in [Tabs -> [Ids -> Outcomes]]
    <3>1. PICK f \in [Tabs -> [Ids -> Outcomes]] : f = said
      BY DEF IInv, PageOK
    <3>2. said' = f \/ said' = [f EXCEPT ![t][n] = word]
      BY <1>1, <3>1 DEF Finish
    <3>3. [f EXCEPT ![t][n] = word] \in [Tabs -> [Ids -> Outcomes]]
      BY SaidStep
    <3> QED BY <3>2, <3>3
  <2>4. refused' \subseteq Ids
    BY <1>1 DEF Finish, IInv, PageOK
  <2> QED BY <2>1, <2>2, <2>3, <2>4 DEF Finish, IInv, PageOK
<1>4. n # 0 /\ (c.by = "save" => saving[t] = n) /\ (c.by = "retry" => retrying[t] = n)
  BY <1>1 DEF IInv, BusyOK, Ids
<1>5. UnreadOK'
  <2>1. unread' \in [Tabs -> Nat] /\ \A u \in Tabs : u # t => unread'[u] = unread[u]
    BY <1>1 DEF Finish, IInv, UnreadOK
  <2>2. unread'[t] = unread[t] + 1
    BY <1>1 DEF Finish, IInv, UnreadOK
  <2>3. \A u \in Tabs : u # t => saving'[u] = saving[u] /\ retrying'[u] = retrying[u]
    BY <1>1 DEF Finish, IInv, PageOK
  <2>4. CASE c.by = "save"
    <3>1. saving'[t] = 0 /\ retrying'[t] = retrying[t] /\ saving[t] = n
      BY <2>4, <1>1, <1>4 DEF Finish, IInv, PageOK
    <3>2. Busy(saving'[t]) = 0 /\ Busy(saving[t]) = 1 /\ Busy(retrying'[t]) = Busy(retrying[t])
      BY <3>1, BusyNumbers
    <3>3. unread'[t] + Busy(saving'[t]) + Busy(retrying'[t]) <= attempted + 1
      BY <3>2, <2>2, BoundsAssumption DEF IInv, UnreadOK, Busy
    <3> QED BY <3>3, <2>1, <2>3 DEF IInv, UnreadOK
  <2>5. CASE c.by = "retry"
    <3>1. retrying'[t] = 0 /\ saving'[t] = saving[t] /\ retrying[t] = n
      BY <2>5, <1>1, <1>4 DEF Finish, IInv, PageOK
    <3>2. Busy(retrying'[t]) = 0 /\ Busy(retrying[t]) = 1 /\ Busy(saving'[t]) = Busy(saving[t])
      BY <3>1, BusyNumbers
    <3>3. unread'[t] + Busy(saving'[t]) + Busy(retrying'[t]) <= attempted + 1
      BY <3>2, <2>2, BoundsAssumption DEF IInv, UnreadOK, Busy
    <3> QED BY <3>3, <2>1, <2>3 DEF IInv, UnreadOK
  <2> QED BY <2>4, <2>5, <1>2
<1>6. AboutOK'
  BY <1>1 DEF Finish, IInv, AboutOK, PageOK
<1>7. BusyOK'
  <2>1. \A d \in calls' : d \in calls /\ d.tab \in Tabs /\ d.by \in {"save", "retry"}
    BY DEF IInv, CallsOK, CallRecs
  <2>2. \A d \in calls' : ~(d.tab = c.tab /\ d.by = c.by)
    BY <2>1 DEF IInv, BusyOK
  <2>3. CASE c.by = "save"
    <3>1. retrying' = retrying /\ saving' = [saving EXCEPT ![t] = 0]
      BY <2>3, <1>1 DEF Finish
    <3>2. saving'[t] = 0 /\ \A u \in Tabs : u # t => saving'[u] = saving[u]
      BY <3>1 DEF IInv, PageOK
    <3>3. \A d \in calls' : d.by = "save" => saving'[d.tab] = d.submission
      BY <3>2, <2>1, <2>2, <2>3, <1>1 DEF IInv, BusyOK
    <3>4. \A u \in Tabs : saving'[u] # 0 => \E d \in calls' : d.tab = u /\ d.by = "save"
      BY <3>2, <1>1 DEF IInv, BusyOK
    <3>5. \A u \in Tabs : retrying'[u] # 0 => \E d \in calls' : d.tab = u /\ d.by = "retry"
      BY <3>1, <2>3 DEF IInv, BusyOK
    <3> QED BY <3>1, <3>3, <3>4, <3>5, <2>1 DEF IInv, BusyOK
  <2>4. CASE c.by = "retry"
    <3>1. saving' = saving /\ retrying' = [retrying EXCEPT ![t] = 0]
      BY <2>4, <1>1 DEF Finish
    <3>2. retrying'[t] = 0 /\ \A u \in Tabs : u # t => retrying'[u] = retrying[u]
      BY <3>1 DEF IInv, PageOK
    <3>3. \A d \in calls' : d.by = "retry" => retrying'[d.tab] = d.submission
      BY <3>2, <2>1, <2>2, <2>4, <1>1 DEF IInv, BusyOK
    <3>4. \A u \in Tabs : retrying'[u] # 0 => \E d \in calls' : d.tab = u /\ d.by = "retry"
      BY <3>2, <1>1 DEF IInv, BusyOK
    <3>5. \A u \in Tabs : saving'[u] # 0 => \E d \in calls' : d.tab = u /\ d.by = "save"
      BY <3>1, <2>4 DEF IInv, BusyOK
    <3> QED BY <3>1, <3>3, <3>4, <3>5, <2>1 DEF IInv, BusyOK
  <2> QED BY <2>3, <2>4, <1>2
<1> QED BY <1>3, <1>5, <1>6, <1>7

LEMMA FinishWords ==
  ASSUME IInv, NEW c \in calls, NEW word \in Outcomes, Finish(c, word), Grown, StillGone,
         Claims(word, c.submission)', c.by = "retry" => word # "not-saved"
  PROVE  WordsOK'
<1>1. PICK t \in Tabs, n \in Ids : t = c.tab /\ n = c.submission
  BY DEF IInv, CallsOK, CallRecs
<1>2. n # 0 /\ (c.by = "save" => saving[t] = n) /\ c.by \in {"save", "retry"}
  BY <1>1 DEF IInv, BusyOK, CallsOK, CallRecs, Ids
<1>3. Claims(word, n)'
  BY <1>1
<1>4. ASSUME NEW u \in Tabs PROVE Claims(sentence[u], about[u])'
  <2>1. CASE c.by = "save" /\ u = t
    <3>1. about'[u] = n
      BY <2>1, <1>1, <1>2 DEF Finish, IInv, AboutOK
    <3>2. sentence'[u] = word
      BY <2>1, <1>1 DEF Finish, IInv, PageOK
    <3> QED BY <3>1, <3>2, <1>3
  <2>2. CASE ~(c.by = "save" /\ u = t)
    <3>1. sentence'[u] = sentence[u] /\ about'[u] = about[u]
      BY <2>2, <1>1, <1>2 DEF Finish, IInv, PageOK
    <3>2. PICK w, s : w = sentence[u] /\ s = about[u] /\ s \in 0 .. created
      BY BoundsAssumption DEF IInv, PageOK, AboutOK, UnreadOK
    <3>3. Claims(w, s)'
      BY <3>2, ClaimsStay DEF IInv, WordsOK, StillGone
    <3> QED BY <3>1, <3>2, <3>3
  <2> QED BY <2>1, <2>2
<1>5. ASSUME NEW u \in Tabs, NEW i \in Ids
      PROVE  (said[u][i] # "not-saved" /\ Claims(said[u][i], i))'
  <2>1. PICK w : w = said[u][i] /\ w # "not-saved" /\ Claims(w, i)
    BY DEF IInv, WordsOK
  <2>2. Claims(w, i)'
    BY <2>1 DEF Claims, Grown
  <2>3. CASE c.by = "retry" /\ u = t /\ i = n
    <3>1. PICK f \in [Tabs -> [Ids -> Outcomes]] : f = said
      BY DEF IInv, PageOK
    <3>2. said' = [f EXCEPT ![t][n] = word]
      BY <2>3, <3>1, <1>1 DEF Finish
    <3>3. said'[u][i] = word
      BY <3>2, <2>3, SaidStep
    <3> QED BY <3>3, <2>3, <1>3
  <2>4. CASE ~(c.by = "retry" /\ u = t /\ i = n)
    <3>1. PICK f \in [Tabs -> [Ids -> Outcomes]] : f = said
      BY DEF IInv, PageOK
    <3>2. CASE c.by = "save"
      <4>1. said' = said
        BY <3>2 DEF Finish
      <4> QED BY <4>1, <2>1, <2>2
    <3>3. CASE c.by = "retry"
      <4>1. said' = [f EXCEPT ![t][n] = word]
        BY <3>3, <3>1, <1>1 DEF Finish
      <4>2. said'[u][i] = w
        BY <4>1, <3>1, <3>3, <2>1, <2>4, SaidStep
      <4> QED BY <4>2, <2>1, <2>2
    <3> QED BY <3>2, <3>3, <1>2
  <2> QED BY <2>3, <2>4
<1> QED BY <1>4, <1>5 DEF WordsOK

\* A call takes a step and stays the call of its button.
Becomes(c, d) ==
  /\ d \in CallRecs
  /\ d.tab = c.tab /\ d.submission = c.submission /\ d.by = c.by
  /\ d.step # "storing"
  /\ calls' = (calls \ {c}) \cup {d}

LEMMA BecomesBusy ==
  ASSUME IInv, NEW c \in calls, NEW d, Becomes(c, d), UNCHANGED <<saving, retrying>>
  PROVE  BusyOK'
<1>1. \A a \in calls' : a = d \/ (a \in calls /\ a # c)
  BY DEF Becomes
<1>2. /\ \A a \in calls' : a.by = "save" => saving[a.tab] = a.submission
      /\ \A a \in calls' : a.by = "retry" => retrying[a.tab] = a.submission
  BY <1>1 DEF Becomes, IInv, BusyOK
<1>3. \A t \in Tabs : saving[t] # 0 => \E a \in calls' : a.tab = t /\ a.by = "save"
  BY DEF Becomes, IInv, BusyOK
<1>4. \A t \in Tabs : retrying[t] # 0 => \E a \in calls' : a.tab = t /\ a.by = "retry"
  BY DEF Becomes, IInv, BusyOK
<1>5. \A a, b \in calls' : a.tab = b.tab /\ a.by = b.by => a = b
  <2> SUFFICES ASSUME NEW a \in calls', NEW b \in calls', a.tab = b.tab, a.by = b.by
               PROVE  a = b
    OBVIOUS
  <2>1. CASE a = d /\ b # d
    BY <2>1, <1>1 DEF Becomes, IInv, BusyOK
  <2>2. CASE b = d /\ a # d
    BY <2>2, <1>1 DEF Becomes, IInv, BusyOK
  <2>3. CASE a # d /\ b # d
    BY <2>3, <1>1 DEF IInv, BusyOK
  <2> QED BY <2>1, <2>2, <2>3
<1> QED BY <1>2, <1>3, <1>4, <1>5 DEF BusyOK

\* What is asked of the new call, that the others have.
LEMMA BecomesCalls ==
  ASSUME IInv, Grown, NEW c \in calls, NEW d, Becomes(c, d), UNCHANGED created,
         Kept(d.submission)',
         d.step = "answered" => d.outcome # "none",
         d.step = "answered" /\ d.outcome = "receipt" => Copy(d) \in rows',
         d.step = "acknowledging" => Copy(d) \in rows'
  PROVE  CallsOK'
<1>1. \A a \in calls' : a = d \/ a \in calls
  BY DEF Becomes
<1>2. calls' \subseteq CallRecs
  BY <1>1 DEF Becomes, IInv, CallsOK
<1>3. ASSUME NEW a \in calls'
      PROVE  /\ a.submission <= created'
             /\ a.step = "storing" => a.by = "save"
             /\ a.step # "storing" => Kept(a.submission)'
             /\ a.step = "answered" => a.outcome # "none"
             /\ a.step = "answered" /\ a.outcome = "receipt" => Copy(a) \in rows'
             /\ a.step = "acknowledging" => Copy(a) \in rows'
  <2>1. CASE a = d
    BY <2>1 DEF Becomes, IInv, CallsOK
  <2>2. CASE a \in calls
    BY <2>2 DEF IInv, CallsOK, Grown
  <2> QED BY <1>1, <2>1, <2>2
<1> QED BY <1>2, <1>3 DEF CallsOK, Copy

LEMMA BecomesMovedOn ==
  ASSUME NEW c \in calls, NEW d, Becomes(c, d), c.step # "storing" PROVE MovedOn
<1> QED BY DEF Becomes, MovedOn

----------------------------------------------------------------------------
(* The page *)

LEMMA InitInv == Init => IInv
<1> SUFFICES ASSUME Init PROVE IInv
  OBVIOUS
<1>1. PageOK
  BY BoundsAssumption DEF Init, PageOK, Silent, Outcomes, Lists
<1>2. UnreadOK
  <2>1. \A t \in Tabs : saving[t] = 0 /\ retrying[t] = 0 /\ unread[t] = 1
    BY DEF Init
  <2>2. unread \in [Tabs -> Nat] /\ attempted = 0 /\ created = 0
    BY DEF Init
  <2> QED BY <2>1, <2>2, BusyNumbers, BoundsAssumption DEF UnreadOK
<1>3. AboutOK /\ StoreOK /\ ListsOK
  BY DEF Init, AboutOK, StoreOK, ListsOK, Sound, Lists
<1>4. BusyOK /\ CallsOK /\ LateOK /\ FreshOK
  BY DEF Init, BusyOK, CallsOK, LateOK, FreshOK
<1>5. WordsOK
  BY DEF Init, WordsOK, Claims, Silent
<1> QED BY <1>1, <1>2, <1>3, <1>4, <1>5 DEF IInv

\* The calls, what is left behind and the stores stay.
LEMMA ListInv ==
  ASSUME IInv, NEW t \in Tabs, ReadList(t) \/ ReadListFails(t) \/ ShowList(t) PROVE IInv'
<1>1. UNCHANGED <<device, rows, created, attempted, calls, late, saving, about, sentence,
                  retrying, said, refused>>
  BY DEF ReadList, ReadListFails, ShowList
<1>2. Quiet /\ MovedOn
  BY <1>1 DEF Quiet, MovedOn
<1>3. Grown /\ LateOK' /\ FreshOK' /\ StillGone
  BY <1>2, QuietRest, QuietGrows
<1>4. CallsOK' /\ WordsOK'
  BY <1>1, <1>3, FewerCalls, WordsStay
<1>5. AboutOK' /\ StoreOK' /\ BusyOK'
  BY <1>1 DEF IInv, AboutOK, StoreOK, BusyOK
<1>6. \A s : Kept(s)' <=> Kept(s)
  BY <1>2, QuietGrows
<1>7. Sound(device)
  BY DEF IInv, StoreOK, Sound, Kept
<1>8. CASE ReadList(t)
  <2>1. /\ shown' = shown /\ unread' = [unread EXCEPT ![t] = unread[t] - 1] /\ unread[t] > 0
        /\ fetched' = [fetched EXCEPT ![t] = fetched[t] \cup {device}]
    BY <1>8 DEF ReadList
  <2>2. PageOK'
    BY <1>1, <2>1 DEF IInv, PageOK, StoreOK
  <2>3. UnreadOK'
    <3>1. unread' \in [Tabs -> Nat] /\ \A u \in Tabs : unread'[u] <= unread[u]
      BY <2>1 DEF IInv, UnreadOK
    <3> QED BY <1>1, <3>1 DEF IInv, UnreadOK, Busy
  <2>4. \A u \in Tabs : \A list \in fetched'[u] : list \in fetched[u] \/ list = device
    BY <2>1 DEF IInv, PageOK
  <2>5. ListsOK'
    BY <1>1, <1>6, <1>7, <2>1, <2>4 DEF IInv, ListsOK, Sound
  <2> QED BY <1>3, <1>4, <1>5, <2>2, <2>3, <2>5 DEF IInv
<1>9. CASE ReadListFails(t)
  <2>1. /\ unread' = [unread EXCEPT ![t] = unread[t] - 1] /\ unread[t] > 0
        /\ fetched' = fetched /\ shown' = [shown EXCEPT ![t] = {}]
    BY <1>9 DEF ReadListFails
  <2>2. PageOK'
    BY <1>1, <2>1 DEF IInv, PageOK, Lists
  <2>3. UnreadOK'
    <3>1. unread' \in [Tabs -> Nat] /\ \A u \in Tabs : unread'[u] <= unread[u]
      BY <2>1 DEF IInv, UnreadOK
    <3> QED BY <1>1, <3>1 DEF IInv, UnreadOK, Busy
  <2>4. \A u \in Tabs : shown'[u] = {} \/ shown'[u] = shown[u]
    BY <2>1 DEF IInv, PageOK
  <2>5. ListsOK'
    BY <1>1, <1>6, <2>1, <2>4 DEF IInv, ListsOK, Sound
  <2> QED BY <1>3, <1>4, <1>5, <2>2, <2>3, <2>5 DEF IInv
<1>10. CASE ShowList(t)
  <2>1. PICK list \in fetched[t] :
           /\ shown' = [shown EXCEPT ![t] = list]
           /\ fetched' = [fetched EXCEPT ![t] = fetched[t] \ {list}]
           /\ unread' = unread
    BY <1>10 DEF ShowList
  <2>2. PageOK'
    BY <1>1, <2>1 DEF IInv, PageOK
  <2>3. UnreadOK'
    BY <1>1, <2>1 DEF IInv, UnreadOK
  <2>4. \A u \in Tabs : fetched'[u] \subseteq fetched[u] /\
                        (shown'[u] = shown[u] \/ shown'[u] \in fetched[u])
    BY <2>1 DEF IInv, PageOK
  <2>5. ListsOK'
    BY <1>1, <1>6, <2>4 DEF IInv, ListsOK, Sound
  <2> QED BY <1>3, <1>4, <1>5, <2>2, <2>3, <2>5 DEF IInv
<1> QED BY <1>8, <1>9, <1>10

\* A press adds a call: of a new answer, or of one that a list shows.
LEMMA NewCall ==
  ASSUME IInv, NEW t \in Tabs, NEW s \in Ids, NEW by \in {"save", "retry"},
         NEW step \in Steps, attempted < MaxAttempts, attempted' = attempted + 1
  PROVE  /\ Call(t, s, by, step, attempted') \in CallRecs
         /\ Call(t, s, by, step, attempted').tab = t
         /\ Call(t, s, by, step, attempted').submission = s
         /\ Call(t, s, by, step, attempted').by = by
         /\ Call(t, s, by, step, attempted').step = step
<1>1. attempted' \in 1 .. MaxAttempts
  BY BoundsAssumption DEF IInv, UnreadOK
<1>2. 0 \in 0 .. MaxAttempts
  BY BoundsAssumption
<1> DEFINE told == s \in refused
<1>3. told \in BOOLEAN
  OBVIOUS
<1>4. PICK c : c = Call(t, s, by, step, attempted')
  OBVIOUS
<1>5. c = [tab |-> t, submission |-> s, by |-> by, step |-> step, number |-> attempted',
           outcome |-> "none", receipt |-> 0, again |-> told]
  BY <1>4 DEF Call
<1> HIDE DEF told
<1>6. c.tab = t /\ c.submission = s /\ c.by = by /\ c.step = step
  BY <1>5
<1>7. c \in CallRecs
  BY <1>1, <1>2, <1>3, <1>5 DEF CallRecs
<1> QED BY <1>4, <1>6, <1>7

\* The new call is the only one of its button, which was free.
LEMMA NewBusy ==
  ASSUME IInv, NEW t \in Tabs, NEW s \in Ids, NEW c \in CallRecs,
         c.tab = t, c.submission = s, calls' = calls \cup {c},
         \/ /\ c.by = "save" /\ saving[t] = 0
            /\ saving' = [saving EXCEPT ![t] = s] /\ retrying' = retrying
         \/ /\ c.by = "retry" /\ retrying[t] = 0
            /\ retrying' = [retrying EXCEPT ![t] = s] /\ saving' = saving
  PROVE  BusyOK'
<1>1. s # 0 /\ saving \in [Tabs -> 0 .. MaxSubmissions]
      /\ retrying \in [Tabs -> 0 .. MaxSubmissions]
  BY DEF Ids, IInv, PageOK
<1>2. \A a \in calls : a.tab \in Tabs /\ a.by \in {"save", "retry"} /\ a.submission # 0
  BY DEF IInv, CallsOK, CallRecs, Ids
<1>3. \A a \in calls : ~(a.tab = t /\ a.by = c.by)
  BY <1>2 DEF IInv, BusyOK
<1>4. \A a \in calls' : a \in calls \/ a = c
  OBVIOUS
<1>5. \A a \in calls' : a.by = "save" => saving'[a.tab] = a.submission
  BY <1>1, <1>2, <1>3, <1>4 DEF IInv, BusyOK
<1>6. \A a \in calls' : a.by = "retry" => retrying'[a.tab] = a.submission
  BY <1>1, <1>2, <1>3, <1>4 DEF IInv, BusyOK
<1>7. \A u \in Tabs : saving'[u] # 0 => \E a \in calls' : a.tab = u /\ a.by = "save"
  BY <1>1 DEF IInv, BusyOK
<1>8. \A u \in Tabs : retrying'[u] # 0 => \E a \in calls' : a.tab = u /\ a.by = "retry"
  BY <1>1 DEF IInv, BusyOK
<1>9. \A a, b \in calls' : a.tab = b.tab /\ a.by = b.by => a = b
  BY <1>3, <1>4 DEF IInv, BusyOK
<1> QED BY <1>5, <1>6, <1>7, <1>8, <1>9 DEF BusyOK

LEMMA SubmitInv ==
  ASSUME IInv, NEW t \in Tabs, Submit(t) PROVE IInv'
<1>1. PICK s \in Ids : s = created + 1 /\ created' = s
  BY BoundsAssumption DEF Submit, IInv, UnreadOK, Ids
<1>2. PICK c : c = Call(t, s, "save", "storing", attempted')
  OBVIOUS
<1>3. c \in CallRecs /\ c.tab = t /\ c.submission = s /\ c.by = "save" /\ c.step = "storing"
  BY <1>2, NewCall DEF Submit, Steps
<1>4. /\ saving[t] = 0 /\ attempted' = attempted + 1 /\ attempted < MaxAttempts
      /\ saving' = [saving EXCEPT ![t] = s] /\ about' = [about EXCEPT ![t] = s]
      /\ sentence' = [sentence EXCEPT ![t] = "nothing"]
      /\ calls' = calls \cup {c}
      /\ UNCHANGED <<device, rows, late, retrying, said, shown, unread, fetched, refused>>
  BY <1>1, <1>2 DEF Submit
<1>5. PageOK'
  BY <1>1, <1>4 DEF IInv, PageOK, Ids, Outcomes
<1>6. UnreadOK'
  <2>1. saving' \in [Tabs -> 0 .. MaxSubmissions] /\ saving'[t] = s
        /\ \A u \in Tabs : u # t => saving'[u] = saving[u]
    BY <1>4, <1>5 DEF PageOK, IInv
  <2>2. Busy(saving[t]) = 0 /\ Busy(saving'[t]) = 1
    BY <1>4, <2>1, BusyNumbers
  <2>3. \A u \in Tabs : Busy(saving'[u]) <= Busy(saving[u]) + 1
    BY <2>1, <2>2 DEF Busy
  <2>4. \A u \in Tabs : unread'[u] + Busy(saving'[u]) + Busy(retrying'[u]) <= attempted' + 1
    BY <1>4, <2>3, BoundsAssumption DEF IInv, UnreadOK, Busy
  <2>5. created' \in 0 .. MaxSubmissions /\ attempted' \in 0 .. MaxAttempts
    BY <1>1, <1>4, BoundsAssumption DEF IInv, UnreadOK, Ids
  <2> QED BY <2>4, <2>5, <1>4 DEF IInv, UnreadOK
<1>7. created < created' /\ created \in Nat /\ created' \in Nat /\ s > created
  BY <1>1, BoundsAssumption DEF IInv, UnreadOK, Ids
<1>8. AboutOK'
  <2>1. \A u \in Tabs : u # t => about'[u] = about[u] /\ saving'[u] = saving[u]
    BY <1>4 DEF IInv, PageOK
  <2>2. about'[t] = s /\ saving'[t] = s
    BY <1>4 DEF IInv, PageOK
  <2>3. \A u \in Tabs : about[u] \in Nat
    BY BoundsAssumption DEF IInv, PageOK
  <2> QED BY <2>1, <2>2, <2>3, <1>1, <1>7 DEF IInv, AboutOK
<1>9. StoreOK' /\ ListsOK'
  <2>1. \A e \in device : e.submission \in Nat
    BY BoundsAssumption DEF IInv, StoreOK, Lists, Entries, Ids
  <2>2. \A e \in device : e.submission <= created'
    BY <2>1, <1>7 DEF IInv, StoreOK
  <2>3. StoreOK'
    BY <2>2, <1>4 DEF IInv, StoreOK
  <2>4. ListsOK'
    BY <1>4 DEF IInv, ListsOK, Sound, Kept
  <2> QED BY <2>3, <2>4
<1>10. BusyOK'
  BY <1>3, <1>4, NewBusy
<1>11. /\ \A a \in calls : a.submission \in Nat /\ a.submission < s
       /\ \A l \in late : l.entry.submission \in Nat /\ l.entry.submission < s
       /\ \A e \in device : e.submission \in Nat /\ e.submission < s
  BY <1>7, BoundsAssumption
  DEF IInv, CallsOK, LateOK, StoreOK, CallRecs, Lates, Lists, Entries, Ids
<1>12. CallsOK' /\ LateOK'
  BY <1>1, <1>3, <1>4, <1>7, <1>11 DEF IInv, CallsOK, LateOK, Kept
<1>13. ~Kept(s) /\ s \in Nat /\ ~(s < s)
  BY <1>11, BoundsAssumption DEF Kept, Ids
<1>14. FreshOK'
  <2>1. ASSUME NEW a \in calls', a.step = "storing"
        PROVE  /\ ~Kept(a.submission)'
               /\ \A d \in calls' : d.submission = a.submission => d = a
               /\ \A l \in late' : FirstSave(l) => l.entry.submission # a.submission
    <3>1. CASE a = c
      BY <3>1, <1>3, <1>4, <1>11, <1>13 DEF Kept
    <3>2. CASE a \in calls
      BY <3>2, <2>1, <1>3, <1>4, <1>11, <1>13 DEF IInv, FreshOK, Kept
    <3> QED BY <3>1, <3>2, <1>4
  <2>2. ASSUME NEW l \in late', FirstSave(l)
        PROVE  /\ ~Kept(l.entry.submission)'
               /\ \A d \in calls' : d.submission # l.entry.submission
               /\ \A k \in late' : FirstSave(k) /\ k.entry.submission = l.entry.submission =>
                    k = l
    BY <2>2, <1>3, <1>4, <1>11, <1>13 DEF IInv, FreshOK, Kept
  <2> QED BY <2>1, <2>2 DEF FreshOK, FirstSave
<1>15. StillGone
  <2>1. \A i \in 0 .. created : i # s
    BY <1>7
  <2> QED BY <2>1, <1>3, <1>4 DEF StillGone, Gone, Kept, FirstSave
<1>16. Grown
  BY <1>4 DEF Grown, Kept, Arrived
<1>17. WordsOK'
  <2>1. ASSUME NEW u \in Tabs PROVE Claims(sentence[u], about[u])'
    <3>1. CASE u = t
      <4>1. sentence'[u] = "nothing"
        BY <3>1, <1>4 DEF IInv, PageOK
      <4> QED BY <4>1 DEF Claims
    <3>2. CASE u # t
      <4>1. sentence'[u] = sentence[u] /\ about'[u] = about[u]
        BY <3>2, <1>4 DEF IInv, PageOK
      <4>2. PICK w, i : w = sentence[u] /\ i = about[u] /\ i \in 0 .. created
        BY BoundsAssumption DEF IInv, PageOK, AboutOK, UnreadOK
      <4>3. Claims(w, i)'
        BY <4>2, <1>15, <1>16, ClaimsStay DEF IInv, WordsOK, StillGone
      <4> QED BY <4>1, <4>2, <4>3
    <3> QED BY <3>1, <3>2
  <2>2. ASSUME NEW u \in Tabs, NEW i \in Ids
        PROVE  (said[u][i] # "not-saved" /\ Claims(said[u][i], i))'
    <3>1. PICK w : w = said[u][i] /\ w # "not-saved" /\ Claims(w, i)
      BY DEF IInv, WordsOK
    <3>2. Claims(w, i)'
      BY <3>1, <1>16 DEF Claims, Grown
    <3> QED BY <3>1, <3>2, <1>4
  <2> QED BY <2>1, <2>2 DEF WordsOK
<1> QED BY <1>5, <1>6, <1>8, <1>9, <1>10, <1>12, <1>14, <1>17 DEF IInv

LEMMA RetryInv ==
  ASSUME IInv, NEW t \in Tabs, NEW s \in Ids, Retry(t, s) PROVE IInv'
<1>1. PICK c : c = Call(t, s, "retry", "posted", attempted')
  OBVIOUS
<1>2. c \in CallRecs /\ c.tab = t /\ c.submission = s /\ c.by = "retry" /\ c.step = "posted"
  BY <1>1, NewCall DEF Retry, Steps
<1>3. /\ retrying[t] = 0 /\ attempted' = attempted + 1 /\ attempted < MaxAttempts
      /\ retrying' = [retrying EXCEPT ![t] = s]
      /\ said' = [said EXCEPT ![t][s] = "nothing"]
      /\ calls' = calls \cup {c}
      /\ UNCHANGED <<device, rows, created, late, saving, about, sentence, shown, unread,
                     fetched, refused>>
  BY <1>1 DEF Retry
<1>4. Kept(s)
  <2>1. Local(s) \in shown[t] /\ Local(s).submission = s
    BY DEF Retry, Local
  <2> QED BY <2>1 DEF IInv, ListsOK, Sound
<1>5. s <= created
  BY <1>4 DEF IInv, StoreOK, Kept
<1>6. PICK f \in [Tabs -> [Ids -> Outcomes]] : f = said
  BY DEF IInv, PageOK
<1>7. "nothing" \in Outcomes
  BY DEF Outcomes
<1>8. /\ said' \in [Tabs -> [Ids -> Outcomes]]
      /\ \A u \in Tabs, i \in Ids : said'[u][i] = IF u = t /\ i = s THEN "nothing" ELSE f[u][i]
  <2>1. said' = [f EXCEPT ![t][s] = "nothing"]
    BY <1>3, <1>6
  <2> QED BY <2>1, <1>7, SaidStep
<1>9. PageOK'
  BY <1>3, <1>8, BoundsAssumption DEF IInv, PageOK, Ids
<1>10. UnreadOK'
  <2>1. retrying'[t] = s /\ \A u \in Tabs : u # t => retrying'[u] = retrying[u]
    BY <1>3 DEF PageOK, IInv
  <2>2. Busy(retrying[t]) = 0 /\ Busy(retrying'[t]) = 1
    BY <1>3, <2>1, BusyNumbers
  <2>3. \A u \in Tabs : Busy(retrying'[u]) <= Busy(retrying[u]) + 1
    BY <2>1, <2>2 DEF Busy
  <2>4. \A u \in Tabs : unread'[u] + Busy(saving'[u]) + Busy(retrying'[u]) <= attempted' + 1
    BY <1>3, <2>3, BoundsAssumption DEF IInv, UnreadOK, Busy
  <2>5. attempted' \in 0 .. MaxAttempts
    BY <1>3, BoundsAssumption DEF IInv, UnreadOK
  <2> QED BY <2>4, <2>5, <1>3 DEF IInv, UnreadOK
<1>11. AboutOK' /\ StoreOK' /\ ListsOK' /\ LateOK'
  BY <1>3 DEF IInv, AboutOK, StoreOK, ListsOK, LateOK, Sound, Kept
<1>12. BusyOK'
  BY <1>2, <1>3, NewBusy
<1>13. CallsOK'
  BY <1>2, <1>3, <1>4, <1>5 DEF IInv, CallsOK, Kept
<1>14. FreshOK'
  <2>1. \A a \in calls : a.step = "storing" => a.submission # s
    BY <1>4 DEF IInv, FreshOK
  <2>2. \A l \in late : FirstSave(l) => l.entry.submission # s
    BY <1>4 DEF IInv, FreshOK
  <2>3. \A a \in calls' : a.step = "storing" => a \in calls
    BY <1>2, <1>3
  <2>4. \A s1 : Kept(s1)' <=> Kept(s1)
    BY <1>3 DEF Kept
  <2>5. ASSUME NEW a \in calls', a.step = "storing"
        PROVE  /\ ~Kept(a.submission)'
               /\ \A d \in calls' : d.submission = a.submission => d = a
               /\ \A l \in late' : FirstSave(l) => l.entry.submission # a.submission
    BY <2>5, <2>1, <2>3, <2>4, <1>2, <1>3 DEF IInv, FreshOK
  <2>6. ASSUME NEW l \in late', FirstSave(l)
        PROVE  /\ ~Kept(l.entry.submission)'
               /\ \A d \in calls' : d.submission # l.entry.submission
               /\ \A k \in late' : FirstSave(k) /\ k.entry.submission = l.entry.submission =>
                    k = l
    BY <2>6, <2>2, <2>4, <1>2, <1>3 DEF IInv, FreshOK
  <2> QED BY <2>5, <2>6 DEF FreshOK, FirstSave
<1>15. \A i : Gone(i) => Gone(i)'
  <2>1. \A i : Gone(i) => i # s
    BY <1>4 DEF Gone
  <2> QED BY <2>1, <1>2, <1>3 DEF Gone, Kept, FirstSave
<1>16. Grown
  BY <1>3 DEF Grown, Kept, Arrived
<1>17. WordsOK'
  <2>1. ASSUME NEW u \in Tabs PROVE Claims(sentence[u], about[u])'
    <3>1. PICK w, i : w = sentence[u] /\ i = about[u]
      OBVIOUS
    <3>2. Claims(w, i)'
      BY <3>1, <1>15, <1>16, ClaimsStay DEF IInv, WordsOK
    <3> QED BY <3>1, <3>2, <1>3
  <2>2. ASSUME NEW u \in Tabs, NEW i \in Ids
        PROVE  (said[u][i] # "not-saved" /\ Claims(said[u][i], i))'
    <3>1. PICK w : w = said[u][i] /\ w # "not-saved" /\ Claims(w, i)
      BY DEF IInv, WordsOK
    <3>2. Claims(w, i)'
      BY <3>1, <1>16 DEF Claims, Grown
    <3>3. said'[u][i] = w \/ said'[u][i] = "nothing"
      BY <1>6, <1>8, <3>1
    <3> QED BY <3>1, <3>2, <3>3 DEF Claims
  <2> QED BY <2>1, <2>2 DEF WordsOK
<1> QED BY <1>9, <1>10, <1>11, <1>12, <1>13, <1>14, <1>17 DEF IInv

----------------------------------------------------------------------------
(* A call *)

LEMMA CallFacts ==
  ASSUME IInv, NEW c \in calls
  PROVE  /\ c \in CallRecs /\ c.submission \in Ids /\ c.submission <= created
         /\ Copy(c) \in Entries /\ Record(c) \in [submission : Ids, receipt : 1 .. MaxAttempts]
         /\ Late("server", Record(c)) \in ServerLates
<1>1. c \in CallRecs /\ c.submission <= created
  BY DEF IInv, CallsOK
<1>2. c.submission \in Ids /\ c.receipt \in 0 .. MaxAttempts /\ c.number \in 1 .. MaxAttempts
  BY <1>1 DEF CallRecs
<1>3. Copy(c) \in Entries /\ Record(c) \in [submission : Ids, receipt : 1 .. MaxAttempts]
  BY <1>2 DEF Copy, Record, Entries
<1>4. /\ Record(c) \in Entries /\ Record(c).receipt # 0 /\ Record(c).submission <= created
  BY <1>1, <1>2, BoundsAssumption DEF Record, Entries
<1>5. Late("server", Record(c)) \in ServerLates
  BY <1>4 DEF Late, Lates, ServerLates
<1> QED BY <1>1, <1>2, <1>3, <1>5

\* The first save succeeds.
LEMMA KeepInv ==
  ASSUME IInv, NEW c \in calls, Keep(c) PROVE IInv' /\ Puts(Local(c.submission))
<1>1. PICK n \in Ids, t \in Tabs :
        n = c.submission /\ t = c.tab /\ n <= created /\ c \in CallRecs
  BY CallFacts DEF CallRecs
<1>2. PICK x : x = Local(n)
  OBVIOUS
<1>3. x.submission = n /\ x.receipt = 0 /\ x \in Entries
  BY <1>2, BoundsAssumption DEF Local, Entries
<1>4. PICK d : d = [c EXCEPT !.step = "posted"]
  OBVIOUS
<1>5. /\ c.step = "storing" /\ device' = Put(x)
      /\ sentence' = [sentence EXCEPT ![t] = "saved"]
      /\ calls' = (calls \ {c}) \cup {d}
      /\ UNCHANGED <<rows, created, attempted, late, saving, about, retrying, said, shown,
                     unread, fetched, refused>>
  BY <1>1, <1>2, <1>4 DEF Keep
<1>6. Becomes(c, d) /\ d.step = "posted" /\ d.submission = n
  BY <1>1, <1>4, <1>5 DEF Becomes, CallRecs, Steps
<1>7. /\ ~Kept(n) /\ \A a \in calls : a.submission = n => a = c
      /\ \A l \in late : FirstSave(l) => l.entry.submission # n
  BY <1>1, <1>5 DEF IInv, FreshOK
<1>8. c.by = "save" /\ about[t] = n
  BY <1>1, <1>5 DEF IInv, CallsOK, BusyOK, AboutOK, Ids
<1>9. Puts(x)
  BY <1>3, <1>5, <1>7 DEF Puts
<1>10. Grown /\ Kept(n)' /\ StoreOK'
  BY <1>1, <1>3, <1>5, <1>9, PutGrows, PutStore
<1>11. LateOK' /\ FreshOK' /\ StillGone
  <2>1. \A a \in calls' : a \in calls \/ (a.step # "storing" /\ a.submission = x.submission)
    BY <1>3, <1>5, <1>6
  <2>2. \A a \in calls' : a.step = "storing" => a.submission # x.submission
    BY <1>3, <1>5, <1>6, <1>7
  <2>3. \A l \in late' : FirstSave(l) => l.entry.submission # x.submission
    BY <1>3, <1>5, <1>7
  <2>4. \A s \in 0 .. created : Gone(s) => s # x.submission
    BY <1>1, <1>3 DEF Gone
  <2> QED BY <2>1, <2>2, <2>3, <2>4, <1>1, <1>3, <1>5, <1>9, PutRest
<1>12. BusyOK'
  BY <1>5, <1>6, BecomesBusy
<1>13. CallsOK'
  BY <1>5, <1>6, <1>10, BecomesCalls
<1>14. PageOK' /\ UnreadOK' /\ AboutOK'
  BY <1>5 DEF IInv, PageOK, UnreadOK, AboutOK, Outcomes
<1>15. ListsOK'
  BY <1>5, <1>10, GrownLists
<1>16. WordsOK'
  <2>1. ASSUME NEW u \in Tabs PROVE Claims(sentence[u], about[u])'
    <3>1. CASE u = t
      <4>1. sentence'[u] = "saved" /\ about'[u] = n
        BY <3>1, <1>5, <1>8 DEF IInv, PageOK
      <4> QED BY <4>1, <1>10 DEF Claims
    <3>2. CASE u # t
      <4>1. sentence'[u] = sentence[u] /\ about'[u] = about[u]
        BY <3>2, <1>5 DEF IInv, PageOK
      <4>2. PICK w, i : w = sentence[u] /\ i = about[u] /\ i \in 0 .. created
        BY BoundsAssumption DEF IInv, PageOK, AboutOK, UnreadOK
      <4>3. Claims(w, i)'
        BY <4>2, <1>10, <1>11, ClaimsStay DEF IInv, WordsOK, StillGone
      <4> QED BY <4>1, <4>2, <4>3
    <3> QED BY <3>1, <3>2
  <2>2. ASSUME NEW u \in Tabs, NEW i \in Ids
        PROVE  (said[u][i] # "not-saved" /\ Claims(said[u][i], i))'
    <3>1. PICK w : w = said[u][i] /\ w # "not-saved" /\ Claims(w, i)
      BY DEF IInv, WordsOK
    <3>2. Claims(w, i)'
      BY <3>1, <1>10 DEF Claims, Grown
    <3> QED BY <3>1, <3>2, <1>5
  <2> QED BY <2>1, <2>2 DEF WordsOK
<1>17. IInv'
  BY <1>10, <1>11, <1>12, <1>13, <1>14, <1>15, <1>16 DEF IInv
<1> QED BY <1>1, <1>2, <1>9, <1>17

\* A call ends and leaves the device as it is.
LEMMA EndInv ==
  ASSUME IInv, NEW c \in calls, NEW word \in Outcomes, calls' = calls \ {c},
         Finish(c, word), UNCHANGED <<device, rows, created, attempted>>,
         late' \subseteq late \cup {Late("server", Record(c))},
         word = "not-saved" => c.step = "storing",
         word # "not-saved" => c.step # "storing" /\ word # "arrived"
  PROVE  IInv'
<1>1. Quiet /\ MovedOn
  BY CallFacts DEF Quiet, MovedOn
<1>2. LateOK' /\ FreshOK' /\ StillGone /\ Grown /\ \A s : Kept(s)' <=> Kept(s)
  BY <1>1, QuietRest, QuietGrows
<1>3. CallsOK'
  BY <1>2, FewerCalls
<1>4. PageOK' /\ UnreadOK' /\ AboutOK' /\ BusyOK'
  BY FinishPage
<1>5. StoreOK'
  BY DEF IInv, StoreOK
<1>6. ListsOK'
  BY <1>2, GrownLists DEF Finish
<1>7. Claims(word, c.submission)'
  <2>1. CASE word = "not-saved"
    <3>1. /\ ~Kept(c.submission) /\ \A a \in calls : a.submission = c.submission => a = c
          /\ \A l \in late : FirstSave(l) => l.entry.submission # c.submission
      BY <2>1 DEF IInv, FreshOK
    <3>2. \A l \in late' : FirstSave(l) => l \in late
      BY DEF Late, FirstSave
    <3>3. ~Kept(c.submission)'
      BY <3>1, <1>2
    <3>4. Gone(c.submission)'
      BY <3>1, <3>2, <3>3 DEF Gone, FirstSave
    <3> QED BY <2>1, <3>4 DEF Claims
  <2>2. CASE word # "not-saved"
    <3>1. Kept(c.submission)'
      BY <2>2, <1>2 DEF IInv, CallsOK
    <3> QED BY <2>2, <3>1 DEF Claims
  <2> QED BY <2>1, <2>2
<1>8. c.by = "retry" => word # "not-saved"
  BY DEF IInv, CallsOK
<1>9. WordsOK'
  BY <1>2, <1>7, <1>8, FinishWords
<1> QED BY <1>2, <1>3, <1>4, <1>5, <1>6, <1>9 DEF IInv

\* A call past its first save takes a step, and its page does not see it.
LEMMA MoveInv ==
  ASSUME IInv, NEW c \in calls, c.step # "storing", NEW d, Becomes(c, d), Quiet, StoreOK',
         UNCHANGED <<attempted, page, refused>>,
         d.step = "answered" => d.outcome # "none",
         d.step = "answered" /\ d.outcome = "receipt" => Copy(d) \in rows',
         d.step = "acknowledging" => Copy(d) \in rows'
  PROVE  IInv'
<1>1. MovedOn
  BY BecomesMovedOn
<1>2. LateOK' /\ FreshOK' /\ StillGone /\ Grown /\ \A s : Kept(s)' <=> Kept(s)
  BY <1>1, QuietRest, QuietGrows
<1>3. Kept(d.submission)'
  BY <1>2 DEF Becomes, IInv, CallsOK
<1>4. created' = created
  BY DEF Quiet
<1>5. CallsOK'
  BY <1>2, <1>3, <1>4, BecomesCalls
<1>6. BusyOK'
  BY BecomesBusy DEF page
<1>7. PageOK' /\ UnreadOK' /\ AboutOK'
  BY <1>4 DEF IInv, PageOK, UnreadOK, AboutOK, page
<1>8. ListsOK' /\ WordsOK'
  BY <1>2, GrownLists, WordsStay DEF page
<1> QED BY <1>2, <1>5, <1>6, <1>7, <1>8 DEF IInv

\* A call with its answer.
Given(c, w, n) == [c EXCEPT !.step = "answered", !.outcome = w, !.receipt = n]

LEMMA AnsweredCall ==
  ASSUME NEW c \in CallRecs, NEW w, w \in {"receipt", "refused", "transport"},
         NEW n, n \in 0 .. MaxAttempts
  PROVE  /\ Given(c, w, n) \in CallRecs /\ Given(c, w, n).tab = c.tab
         /\ Given(c, w, n).submission = c.submission /\ Given(c, w, n).by = c.by
         /\ Given(c, w, n).step = "answered" /\ Given(c, w, n).outcome = w
         /\ Given(c, w, n).receipt = n
<1>1. PICK d : d = Given(c, w, n)
  OBVIOUS
<1>2. d = [tab |-> c.tab, submission |-> c.submission, by |-> c.by, step |-> "answered",
           number |-> c.number, outcome |-> w, receipt |-> n, again |-> c.again]
  BY <1>1 DEF CallRecs, Given
<1>3. d.tab = c.tab /\ d.submission = c.submission /\ d.by = c.by
      /\ d.step = "answered" /\ d.outcome = w /\ d.receipt = n
  BY <1>2
<1>4. c.tab \in Tabs /\ c.submission \in Ids /\ c.by \in {"save", "retry"}
      /\ c.number \in 1 .. MaxAttempts /\ c.again \in BOOLEAN
  BY DEF CallRecs
<1>5. "answered" \in Steps /\ w \in {"none", "receipt", "refused", "transport"}
  BY DEF Steps
<1>6. d \in CallRecs
  BY <1>2, <1>4, <1>5 DEF CallRecs
<1> QED BY <1>1, <1>3, <1>6

\* The request is answered, with or without a row, and perhaps before it is handled.
LEMMA ServeInv ==
  ASSUME IInv, NEW c \in calls, Handle(c) \/ Decline(c) \/ Unavailable(c) PROVE IInv'
<1>1. /\ c \in CallRecs /\ Record(c) \in [submission : Ids, receipt : 1 .. MaxAttempts]
      /\ Late("server", Record(c)) \in ServerLates
  BY CallFacts
<1>2. c.step = "posted" /\ UNCHANGED <<device, created, attempted, page, refused>>
  BY DEF Handle, Decline, Unavailable
<1>3. CASE Handle(c)
  <2>1. rows' = Store(Record(c)) /\ late' = late
    BY <1>3 DEF Handle
  <2>2. StoreOK' /\ rows \subseteq rows'
    BY <2>1, <1>1, <1>2, StoreRow
  <2>3. PICK r \in rows' : r.submission = c.submission /\ Respond(c, "receipt", r.receipt)
    BY <1>3 DEF Handle
  <2>4. r = [submission |-> r.submission, receipt |-> r.receipt] /\ r.receipt \in 1 .. MaxAttempts
    BY <2>2 DEF StoreOK
  <2>5. PICK d : d = Given(c, "receipt", r.receipt)
    OBVIOUS
  <2>6. d \in CallRecs /\ d.tab = c.tab /\ d.submission = c.submission /\ d.by = c.by
        /\ d.step = "answered" /\ d.outcome = "receipt" /\ d.receipt = r.receipt
    <3>1. PICK n \in 0 .. MaxAttempts : n = r.receipt
      BY <2>4, BoundsAssumption
    <3> QED BY <3>1, <2>5, <1>1, AnsweredCall
  <2>7. Becomes(c, d)
    BY <2>3, <2>5, <2>6 DEF Becomes, Respond, Given
  <2>8. Copy(d) \in rows'
    BY <2>3, <2>4, <2>6 DEF Copy
  <2>9. Quiet
    BY <2>1, <2>2, <1>2 DEF Quiet
  <2> QED BY <2>2, <2>6, <2>7, <2>8, <2>9, <1>2, MoveInv
<1>4. ASSUME Decline(c) \/ Unavailable(c) PROVE IInv'
  <2>1. PICK w \in {"refused", "transport"} : Respond(c, w, 0)
    BY <1>4 DEF Decline, Unavailable
  <2>2. rows' = rows /\ late' \subseteq late \cup ServerLates
    BY <1>4, <1>1 DEF Decline, Unavailable
  <2>3. PICK d : d = Given(c, w, 0)
    OBVIOUS
  <2>4. d \in CallRecs /\ d.tab = c.tab /\ d.submission = c.submission /\ d.by = c.by
        /\ d.step = "answered" /\ d.outcome = w
    <3>1. 0 \in 0 .. MaxAttempts
      BY BoundsAssumption
    <3>2. c \in CallRecs /\ w \in {"receipt", "refused", "transport"}
      BY <1>1
    <3> QED BY <3>1, <3>2, <2>3, AnsweredCall
  <2>5. Becomes(c, d)
    BY <2>1, <2>3, <2>4 DEF Becomes, Respond, Given
  <2>6. Quiet /\ StoreOK'
    BY <2>2, <1>2 DEF Quiet, IInv, StoreOK
  <2> QED BY <2>4, <2>5, <2>6, <1>2, MoveInv
<1> QED BY <1>3, <1>4

\* A receipt is to be saved; any other answer is a word.
LEMMA AnswerInv ==
  ASSUME IInv, NEW c \in calls, Answer(c) PROVE IInv'
<1>1. c \in CallRecs
  BY CallFacts
<1>2. c.step = "answered" /\ UNCHANGED <<device, rows, created, attempted, late>>
  BY DEF Answer
<1>3. CASE c.outcome = "receipt"
  <2>1. PICK d : d = [c EXCEPT !.step = "acknowledging"]
    OBVIOUS
  <2>2. d \in CallRecs /\ d.tab = c.tab /\ d.submission = c.submission /\ d.by = c.by
        /\ d.step = "acknowledging" /\ d.receipt = c.receipt
    BY <2>1, <1>1 DEF CallRecs, Steps
  <2>3. Becomes(c, d) /\ UNCHANGED <<page, refused>>
    BY <2>1, <2>2, <1>3 DEF Becomes, Answer
  <2>4. Copy(d) \in rows'
    BY <2>2, <1>2, <1>3 DEF IInv, CallsOK, Copy
  <2>5. Quiet /\ StoreOK'
    BY <1>2 DEF Quiet, IInv, StoreOK
  <2> QED BY <2>2, <2>3, <2>4, <2>5, <1>2, MoveInv
<1>4. CASE c.outcome # "receipt"
  <2>1. PICK w : w = c.outcome
    OBVIOUS
  <2>2. w \in {"refused", "transport"} /\ w \in Outcomes
    BY <2>1, <1>1, <1>2, <1>4 DEF IInv, CallsOK, CallRecs, Outcomes
  <2>3. calls' = calls \ {c} /\ Finish(c, w)
    BY <2>1, <1>4 DEF Answer
  <2> QED BY <2>2, <2>3, <1>2, EndInv
<1> QED BY <1>3, <1>4

LEMMA FailInv ==
  ASSUME IInv, NEW c \in calls, KeepFails(c) \/ AcknowledgeFails(c) \/ Timeout(c) PROVE IInv'
<1>1. {"not-saved", "local-save", "transport"} \subseteq Outcomes
  BY DEF Outcomes
<1>2. CASE KeepFails(c)
  BY <1>1, <1>2, EndInv DEF KeepFails
<1>3. CASE AcknowledgeFails(c)
  BY <1>1, <1>3, EndInv DEF AcknowledgeFails
<1>4. CASE Timeout(c)
  <2>1. LeftBehind(c) \subseteq {Late("server", Record(c))}
    BY <1>4 DEF Timeout, LeftBehind
  <2> QED BY <2>1, <1>1, <1>4, EndInv DEF Timeout
<1> QED BY <1>2, <1>3, <1>4

LEMMA AcknowledgeInv ==
  ASSUME IInv, NEW c \in calls, Acknowledge(c) PROVE IInv' /\ Puts(Copy(c))
<1>1. PICK x : x = Copy(c)
  OBVIOUS
<1>2. /\ c.step = "acknowledging" /\ device' = Put(x) /\ calls' = calls \ {c}
      /\ Finish(c, "arrived") /\ UNCHANGED <<rows, created, attempted, late>>
  BY <1>1 DEF Acknowledge, Copy
<1>3. x \in Entries /\ x \in rows /\ x.submission = c.submission /\ x.submission <= created
  BY <1>1, <1>2, CallFacts DEF IInv, CallsOK, Copy
<1>4. x.receipt # 0
  BY <1>3, BoundsAssumption DEF IInv, StoreOK
<1>5. Puts(x)
  BY <1>2, <1>3, <1>4 DEF Puts
<1>6. Kept(x.submission)
  BY <1>2, <1>3 DEF IInv, CallsOK
<1>7. Grown /\ StoreOK'
  BY <1>2, <1>3, <1>5, PutGrows, PutStore
<1>8. LateOK' /\ FreshOK' /\ StillGone
  <2>1. \A a \in calls' : a \in calls \/ (a.step # "storing" /\ a.submission = x.submission)
    BY <1>2
  <2>2. \A a \in calls' : a.step = "storing" => a.submission # x.submission
    BY <1>2, <1>6 DEF IInv, FreshOK
  <2>3. \A l \in late' : FirstSave(l) => l.entry.submission # x.submission
    BY <1>2, <1>6 DEF IInv, FreshOK
  <2>4. \A s \in 0 .. created : Gone(s) => s # x.submission
    BY <1>6 DEF Gone
  <2> QED BY <2>1, <2>2, <2>3, <2>4, <1>2, <1>3, <1>5, PutRest
<1>9. CallsOK' /\ ListsOK'
  BY <1>2, <1>7, FewerCalls, GrownLists DEF Finish
<1>10. "arrived" \in Outcomes
  BY DEF Outcomes
<1>11. PageOK' /\ UnreadOK' /\ AboutOK' /\ BusyOK'
  BY <1>2, <1>10, FinishPage
<1>12. Claims("arrived", c.submission)'
  <2>1. x \in device'
    BY <1>2 DEF Put
  <2> QED BY <2>1, <1>3, <1>4 DEF Claims, Arrived
<1>13. WordsOK'
  BY <1>2, <1>7, <1>8, <1>10, <1>12, FinishWords
<1> QED BY <1>1, <1>5, <1>7, <1>8, <1>9, <1>11, <1>13 DEF IInv

----------------------------------------------------------------------------
(* What is left behind, and the page that leaves it *)

LEMMA CommitInv ==
  ASSUME IInv, CommitLate PROVE IInv' /\ \E x : Puts(x) /\ rows' = rows
<1>1. PICK l \in late : /\ l.at = "device" /\ device' = Put(l.entry) /\ late' = late \ {l}
                        /\ UNCHANGED <<rows, created, attempted, calls, page, refused>>
  BY DEF CommitLate
<1>2. PICK x : x = l.entry
  OBVIOUS
<1>3. x \in Entries /\ x.submission <= created /\ device' = Put(x)
  BY <1>1, <1>2 DEF IInv, LateOK, Lates
<1>4. /\ x.receipt = 0 => /\ ~Kept(x.submission)
                          /\ \A d \in calls : d.submission # x.submission
                          /\ \A k \in late' : FirstSave(k) => k.entry.submission # x.submission
      /\ x.receipt # 0 => Kept(x.submission) /\ x \in rows
  BY <1>1, <1>2 DEF IInv, LateOK, FreshOK, FirstSave
<1>5. Puts(x)
  BY <1>3, <1>4 DEF Puts
<1>6. Grown /\ StoreOK'
  BY <1>1, <1>3, <1>5, PutGrows, PutStore
<1>7. LateOK' /\ FreshOK' /\ StillGone
  <2>1. \A a \in calls' : a \in calls \/ (a.step # "storing" /\ a.submission = x.submission)
    BY <1>1
  <2>2. \A a \in calls' : a.step = "storing" => a.submission # x.submission
    BY <1>1, <1>4 DEF IInv, FreshOK
  <2>3. \A k \in late' : FirstSave(k) => k.entry.submission # x.submission
    BY <1>1, <1>4 DEF IInv, FreshOK
  <2>4. \A s \in 0 .. created : Gone(s) => s # x.submission
    <3> SUFFICES ASSUME NEW s, Gone(s), s = x.submission PROVE FALSE
      OBVIOUS
    <3>1. x.receipt = 0
      BY <1>4 DEF Gone
    <3> QED BY <3>1, <1>1, <1>2 DEF Gone, FirstSave
  <2> QED BY <2>1, <2>2, <2>3, <2>4, <1>1, <1>3, <1>5, PutRest
<1>8. CallsOK' /\ ListsOK' /\ WordsOK'
  BY <1>1, <1>6, <1>7, FewerCalls, GrownLists, WordsStay DEF page
<1>9. PageOK' /\ UnreadOK' /\ AboutOK' /\ BusyOK'
  BY <1>1 DEF IInv, PageOK, UnreadOK, AboutOK, BusyOK, page
<1> QED BY <1>1, <1>5, <1>6, <1>7, <1>8, <1>9 DEF IInv

LEMMA HandleLateInv ==
  ASSUME IInv, HandleLate PROVE IInv'
<1>1. PICK l \in late : /\ l.at = "server" /\ rows' = Store(l.entry) /\ late' = late \ {l}
                        /\ UNCHANGED <<device, created, attempted, calls, page, refused>>
  BY DEF HandleLate
<1>2. PICK x : x = l.entry
  OBVIOUS
<1>3. x \in Entries /\ x.receipt # 0
  BY <1>1, <1>2 DEF IInv, LateOK, Lates
<1>4. x \in [submission : Ids, receipt : 1 .. MaxAttempts]
  BY <1>3, BoundsAssumption DEF Entries
<1>5. StoreOK' /\ rows \subseteq rows'
  BY <1>1, <1>2, <1>4, StoreRow
<1>6. Quiet /\ MovedOn
  BY <1>1, <1>5 DEF Quiet, MovedOn
<1>7. Grown /\ LateOK' /\ FreshOK' /\ StillGone
  BY <1>6, QuietRest, QuietGrows
<1>8. CallsOK' /\ ListsOK' /\ WordsOK'
  BY <1>1, <1>7, FewerCalls, GrownLists, WordsStay DEF page
<1>9. PageOK' /\ UnreadOK' /\ AboutOK' /\ BusyOK'
  BY <1>1 DEF IInv, PageOK, UnreadOK, AboutOK, BusyOK, page
<1> QED BY <1>5, <1>7, <1>8, <1>9 DEF IInv

\* What a call leaves behind speaks of its answer, and as the call did.
LEMMA LeftFacts ==
  ASSUME IInv, NEW c \in calls, NEW l \in LeftBehind(c)
  PROVE  /\ l \in Lates /\ l.entry.submission = c.submission
         /\ l.at = "server" => l.entry.receipt # 0
         /\ l.at = "device" /\ l.entry.receipt # 0 =>
              c.step = "acknowledging" /\ l.entry = Copy(c)
         /\ FirstSave(l) => c.step = "storing" /\ l = Late("device", Local(c.submission))
<1>1. c \in CallRecs /\ c.submission \in Ids /\ Copy(c) \in Entries
      /\ Late("server", Record(c)) \in ServerLates
  BY CallFacts
<1>2. CASE c.step = "posted"
  <2>1. l = Late("server", Record(c))
    BY <1>2 DEF LeftBehind
  <2>2. l \in Lates /\ l.at = "server" /\ l.entry.receipt # 0
    BY <2>1, <1>1 DEF ServerLates, Late
  <2>3. l.entry.submission = c.submission
    BY <2>1 DEF Late, Record
  <2> QED BY <2>2, <2>3 DEF FirstSave
<1>3. CASE c.step = "storing"
  <2>1. l = Late("device", Local(c.submission))
    BY <1>3 DEF LeftBehind
  <2>2. Local(c.submission) \in Entries
    BY <1>1, BoundsAssumption DEF Local, Entries
  <2>3. l.at = "device" /\ l.entry = Local(c.submission) /\ l \in Lates
    BY <2>1, <2>2 DEF Late, Lates
  <2>4. l.entry.receipt = 0 /\ l.entry.submission = c.submission
    BY <2>3 DEF Local
  <2> QED BY <2>1, <2>3, <2>4, <1>3
<1>4. CASE c.step = "acknowledging"
  <2>1. l = Late("device", Copy(c))
    BY <1>4 DEF LeftBehind, Copy
  <2>2. l.at = "device" /\ l.entry = Copy(c) /\ l \in Lates
    BY <2>1, <1>1 DEF Late, Lates
  <2>3. Copy(c) \in rows
    BY <1>4 DEF IInv, CallsOK
  <2>4. l.entry.receipt # 0 /\ l.entry.submission = c.submission
    BY <2>2, <2>3, BoundsAssumption DEF IInv, StoreOK, Copy
  <2> QED BY <2>2, <2>4, <1>4 DEF FirstSave
<1>5. CASE c.step = "answered"
  BY <1>5 DEF LeftBehind
<1> QED BY <1>1, <1>2, <1>3, <1>4, <1>5 DEF CallRecs, Steps

LEMMA ReloadInv ==
  ASSUME IInv, NEW t \in Tabs, Reload(t) PROVE IInv'
<1>1. PICK own : own = {c \in calls : c.tab = t}
  OBVIOUS
<1>2. /\ calls' = calls \ own
      /\ late' = late \cup UNION {LeftBehind(c) : c \in own}
      /\ saving' = [saving EXCEPT ![t] = 0] /\ about' = [about EXCEPT ![t] = 0]
      /\ sentence' = [sentence EXCEPT ![t] = "nothing"]
      /\ retrying' = [retrying EXCEPT ![t] = 0]
      /\ said' = [said EXCEPT ![t] = Silent]
      /\ shown' = [shown EXCEPT ![t] = {}]
      /\ unread' = [unread EXCEPT ![t] = 1]
      /\ fetched' = [fetched EXCEPT ![t] = {}]
      /\ UNCHANGED <<device, rows, created, attempted, refused>>
  BY <1>1 DEF Reload
<1>3. \A l \in late' : l \in late \/ \E c \in own : l \in LeftBehind(c)
  BY <1>2
<1>4. PageOK'
  BY <1>2, BoundsAssumption DEF IInv, PageOK, Silent, Outcomes, Lists
<1>5. UnreadOK'
  <2>1. saving'[t] = 0 /\ retrying'[t] = 0 /\ unread'[t] = 1 /\ unread' \in [Tabs -> Nat]
    BY <1>2 DEF IInv, PageOK, UnreadOK
  <2>2. unread'[t] + Busy(saving'[t]) + Busy(retrying'[t]) <= attempted' + 1
    BY <2>1, <1>2, BusyNumbers, BoundsAssumption DEF IInv, UnreadOK
  <2>3. \A u \in Tabs : u # t => unread'[u] = unread[u] /\ saving'[u] = saving[u]
                                 /\ retrying'[u] = retrying[u]
    BY <1>2 DEF IInv, PageOK, UnreadOK
  <2> QED BY <2>1, <2>2, <2>3, <1>2 DEF IInv, UnreadOK
<1>6. AboutOK'
  BY <1>2, BoundsAssumption DEF IInv, AboutOK, PageOK, UnreadOK
<1>7. Grown /\ \A s : Kept(s)' <=> Kept(s)
  BY <1>2 DEF Grown, Kept, Arrived
<1>8. StoreOK' /\ CallsOK'
  BY <1>2, <1>7, FewerCalls DEF IInv, StoreOK
<1>9. ListsOK'
  <2>1. \A u \in Tabs : /\ shown'[u] = shown[u] \/ shown'[u] = {}
                        /\ fetched'[u] = fetched[u] \/ fetched'[u] = {}
    BY <1>2 DEF IInv, PageOK
  <2> QED BY <2>1, <1>7 DEF IInv, ListsOK, Sound, Grown
<1>10. BusyOK'
  <2>1. /\ saving'[t] = 0 /\ retrying'[t] = 0
        /\ \A u \in Tabs : u # t => saving'[u] = saving[u] /\ retrying'[u] = retrying[u]
    BY <1>2 DEF IInv, PageOK
  <2>2. \A c \in calls' : c \in calls /\ c.tab \in Tabs /\ c.tab # t
    BY <1>1, <1>2 DEF IInv, CallsOK, CallRecs
  <2>3. \A c \in calls : c.tab # t => c \in calls'
    BY <1>1, <1>2
  <2>4. \A c \in calls' : /\ c.by = "save" => saving'[c.tab] = c.submission
                          /\ c.by = "retry" => retrying'[c.tab] = c.submission
    BY <2>1, <2>2 DEF IInv, BusyOK
  <2>5. \A u \in Tabs : saving'[u] # 0 => \E c \in calls' : c.tab = u /\ c.by = "save"
    BY <2>1, <2>3 DEF IInv, BusyOK
  <2>6. \A u \in Tabs : retrying'[u] # 0 => \E c \in calls' : c.tab = u /\ c.by = "retry"
    BY <2>1, <2>3 DEF IInv, BusyOK
  <2> QED BY <2>2, <2>4, <2>5, <2>6 DEF IInv, BusyOK
<1>11. LateOK'
  <2>1. ASSUME NEW l \in late'
        PROVE  /\ l \in Lates /\ l.entry.submission <= created
               /\ l.at = "server" => l.entry.receipt # 0
               /\ l.at = "device" /\ l.entry.receipt # 0 =>
                    Kept(l.entry.submission) /\ l.entry \in rows
    <3>1. CASE l \in late
      BY <3>1 DEF IInv, LateOK
    <3>2. CASE \E c \in own : l \in LeftBehind(c)
      <4>1. PICK c \in calls : l \in LeftBehind(c)
        BY <3>2, <1>1
      <4>2. /\ c.submission <= created
            /\ c.step = "acknowledging" => Kept(c.submission) /\ Copy(c) \in rows
        BY DEF IInv, CallsOK
      <4> QED BY <4>1, <4>2, LeftFacts
    <3> QED BY <3>1, <3>2, <1>3
  <2> QED BY <2>1, <1>2, <1>7 DEF LateOK
\* A first save that is left behind now speaks of an answer that one call was about.
<1>12. ASSUME NEW l \in late', FirstSave(l)
       PROVE  \/ l \in late
              \/ \E c \in own : /\ c \in calls /\ c.step = "storing"
                                /\ l = Late("device", Local(c.submission))
                                /\ l.entry.submission = c.submission
  <2>1. CASE l \in late
    BY <2>1
  <2>2. CASE \E c \in own : l \in LeftBehind(c)
    <3>1. PICK c \in own : c \in calls /\ l \in LeftBehind(c)
      BY <2>2, <1>1
    <3>2. c.step = "storing" /\ l = Late("device", Local(c.submission))
          /\ l.entry.submission = c.submission
      BY <3>1, <1>12, LeftFacts
    <3> QED BY <3>1, <3>2
  <2> QED BY <2>1, <2>2, <1>3
<1>13. FreshOK'
  <2>1. ASSUME NEW a \in calls', a.step = "storing"
        PROVE  /\ ~Kept(a.submission)'
               /\ \A d \in calls' : d.submission = a.submission => d = a
               /\ \A l \in late' : FirstSave(l) => l.entry.submission # a.submission
    <3>1. a \in calls /\ a \notin own
      BY <1>2
    <3>2. /\ ~Kept(a.submission) /\ \A d \in calls : d.submission = a.submission => d = a
          /\ \A l \in late : FirstSave(l) => l.entry.submission # a.submission
      BY <3>1, <2>1 DEF IInv, FreshOK
    <3> QED BY <3>1, <3>2, <1>2, <1>7, <1>12
  <2>2. ASSUME NEW l \in late', FirstSave(l)
        PROVE  /\ ~Kept(l.entry.submission)'
               /\ \A d \in calls' : d.submission # l.entry.submission
               /\ \A k \in late' : FirstSave(k) /\ k.entry.submission = l.entry.submission =>
                    k = l
    <3>1. CASE l \in late
      <4>1. /\ ~Kept(l.entry.submission) /\ \A d \in calls : d.submission # l.entry.submission
            /\ \A k \in late : FirstSave(k) /\ k.entry.submission = l.entry.submission => k = l
        BY <3>1, <2>2 DEF IInv, FreshOK
      <4> QED BY <4>1, <1>2, <1>7, <1>12
    <3>2. CASE l \notin late
      <4>1. PICK c \in own : /\ c \in calls /\ c.step = "storing"
                             /\ l = Late("device", Local(c.submission))
                             /\ l.entry.submission = c.submission
        BY <3>2, <2>2, <1>12
      <4>2. /\ ~Kept(c.submission) /\ \A d \in calls : d.submission = c.submission => d = c
            /\ \A k \in late : FirstSave(k) => k.entry.submission # c.submission
        BY <4>1 DEF IInv, FreshOK
      <4>3. \A d \in calls' : d.submission # l.entry.submission
        BY <4>1, <4>2, <1>2
      <4>4. \A k \in late' : FirstSave(k) /\ k.entry.submission = l.entry.submission => k = l
        BY <4>1, <4>2, <1>12
      <4> QED BY <4>1, <4>2, <4>3, <4>4, <1>7
    <3> QED BY <3>1, <3>2
  <2> QED BY <2>1, <2>2 DEF FreshOK, FirstSave
<1>14. \A s : Gone(s) => Gone(s)'
  <2> SUFFICES ASSUME NEW s, Gone(s) PROVE Gone(s)'
    OBVIOUS
  <2>1. ~Kept(s)' /\ \A c \in calls' : c.submission # s
    BY <1>2, <1>7 DEF Gone
  <2>2. \A l \in late' : FirstSave(l) => l.entry.submission # s
    BY <1>12 DEF Gone
  <2> QED BY <2>1, <2>2 DEF Gone, FirstSave
<1>15. WordsOK'
  <2>1. ASSUME NEW u \in Tabs PROVE Claims(sentence[u], about[u])'
    <3>1. CASE u = t
      <4>1. sentence'[u] = "nothing"
        BY <3>1, <1>2 DEF IInv, PageOK
      <4> QED BY <4>1 DEF Claims
    <3>2. CASE u # t
      <4>1. sentence'[u] = sentence[u] /\ about'[u] = about[u]
        BY <3>2, <1>2 DEF IInv, PageOK
      <4>2. PICK w, i : w = sentence[u] /\ i = about[u]
        OBVIOUS
      <4>3. Claims(w, i)'
        BY <4>2, <1>7, <1>14, ClaimsStay DEF IInv, WordsOK
      <4> QED BY <4>1, <4>2, <4>3
    <3> QED BY <3>1, <3>2
  <2>2. ASSUME NEW u \in Tabs, NEW i \in Ids
        PROVE  (said[u][i] # "not-saved" /\ Claims(said[u][i], i))'
    <3>1. PICK w : w = said[u][i] /\ w # "not-saved" /\ Claims(w, i)
      BY DEF IInv, WordsOK
    <3>2. Claims(w, i)'
      BY <3>1, <1>7 DEF Claims, Grown
    <3>3. said'[u][i] = w \/ said'[u][i] = "nothing"
      BY <1>2, <3>1 DEF IInv, PageOK, Silent
    <3> QED BY <3>1, <3>2, <3>3 DEF Claims
  <2> QED BY <2>1, <2>2 DEF WordsOK
<1> QED BY <1>4, <1>5, <1>6, <1>8, <1>9, <1>10, <1>11, <1>13, <1>15 DEF IInv

----------------------------------------------------------------------------
(* The theorems *)

LEMMA NextInv == IInv /\ [Next]_vars => IInv'
<1> SUFFICES ASSUME IInv, [Next]_vars PROVE IInv'
  OBVIOUS
<1>1. CASE UNCHANGED vars
  <2>1. UNCHANGED <<device, rows, created, attempted, calls, late, saving, about, sentence,
                    retrying, said, shown, unread, fetched, refused>>
    BY <1>1 DEF vars, page
  <2> QED BY <2>1
      DEF IInv, PageOK, UnreadOK, AboutOK, StoreOK, ListsOK, Sound, BusyOK, CallsOK, LateOK,
          FreshOK, WordsOK, Claims, Gone, Kept, Arrived
<1>2. CASE \E t \in Tabs : Submit(t)
  BY <1>2, SubmitInv
<1>3. CASE \E t \in Tabs, s \in Ids : Retry(t, s)
  BY <1>3, RetryInv
<1>4. CASE \E t \in Tabs : ReadList(t) \/ ReadListFails(t) \/ ShowList(t)
  BY <1>4, ListInv
<1>5. CASE \E t \in Tabs : Reload(t)
  BY <1>5, ReloadInv
<1>6. CASE \E c \in calls : Keep(c)
  BY <1>6, KeepInv
<1>7. CASE \E c \in calls : KeepFails(c) \/ AcknowledgeFails(c) \/ Timeout(c)
  BY <1>7, FailInv
<1>8. CASE \E c \in calls : Acknowledge(c)
  BY <1>8, AcknowledgeInv
<1>9. CASE \E c \in calls : Handle(c) \/ Decline(c) \/ Unavailable(c)
  BY <1>9, ServeInv
<1>10. CASE \E c \in calls : Answer(c)
  BY <1>10, AnswerInv
<1>11. CASE CommitLate
  BY <1>11, CommitInv
<1>12. CASE HandleLate
  BY <1>12, HandleLateInv
<1> QED BY <1>1, <1>2, <1>3, <1>4, <1>5, <1>6, <1>7, <1>8, <1>9, <1>10, <1>11, <1>12 DEF Next

LEMMA InvHolds == Spec => []IInv
<1> QED BY InitInv, NextInv, PTL DEF Spec

LEMMA InvTypes == IInv => TypeOK
<1> SUFFICES ASSUME IInv PROVE TypeOK
  OBVIOUS
<1>1. /\ device \in Lists /\ rows \subseteq [submission : Ids, receipt : 1 .. MaxAttempts]
      /\ created \in 0 .. MaxSubmissions /\ attempted \in 0 .. MaxAttempts
  BY DEF IInv, StoreOK, UnreadOK
<1>2. ASSUME NEW c \in calls
      PROVE  /\ c.step \in {"storing", "posted", "answered", "acknowledging"}
             /\ c.submission \in Ids /\ c.tab \in Tabs
             /\ c.step = "acknowledging" => c.receipt \in 1 .. MaxAttempts
  <2>1. c \in CallRecs /\ (c.step = "acknowledging" => Copy(c) \in rows)
    BY DEF IInv, CallsOK
  <2>2. c.step = "acknowledging" => c.receipt \in 1 .. MaxAttempts
    BY <2>1, <1>1 DEF Copy
  <2> QED BY <2>1, <2>2 DEF CallRecs, Steps
<1>3. \A l \in late : l.at \in {"device", "server"} /\ l.entry \in Entries
  BY DEF IInv, LateOK, Lates
<1>4. unread \in [Tabs -> 0 .. MaxAttempts + 1]
  <2>1. \A t \in Tabs : Busy(saving[t]) \in {0, 1} /\ Busy(retrying[t]) \in {0, 1}
    BY DEF Busy
  <2>2. ASSUME NEW t \in Tabs PROVE unread[t] \in 0 .. MaxAttempts + 1
    <3>1. PICK n, a, b : n = unread[t] /\ a = Busy(saving[t]) /\ b = Busy(retrying[t])
      OBVIOUS
    <3>2. n \in Nat /\ a \in {0, 1} /\ b \in {0, 1} /\ n + a + b <= attempted + 1
      BY <3>1, <2>1 DEF IInv, UnreadOK
    <3>3. attempted \in 0 .. MaxAttempts /\ MaxAttempts \in Nat
      BY BoundsAssumption DEF IInv, UnreadOK
    <3> QED BY <3>1, <3>2, <3>3
  <2> QED BY <2>2 DEF IInv, UnreadOK
<1>5. \A t \in Tabs : fetched[t] \subseteq Lists
  BY DEF IInv, PageOK
<1>6. /\ saving \in [Tabs -> 0 .. MaxSubmissions] /\ about \in [Tabs -> 0 .. MaxSubmissions]
      /\ sentence \in [Tabs -> Outcomes] /\ retrying \in [Tabs -> 0 .. MaxSubmissions]
      /\ said \in [Tabs -> [Ids -> Outcomes]] /\ shown \in [Tabs -> Lists]
      /\ refused \subseteq Ids
  BY DEF IInv, PageOK
<1> QED BY <1>1, <1>2, <1>3, <1>4, <1>5, <1>6 DEF TypeOK

\* Every variable stays in its type: no page waits for more lists than it may have asked
\* for, however many calls end at once (family-experience.tsx).
THEOREM TypeCorrect == Spec => []TypeOK
<1> QED BY InvHolds, InvTypes, PTL

LEMMA ClaimsHold ==
  ASSUME NEW word, NEW s, Claims(word, s) PROVE Holds(word, s)
<1>1. CASE word = "arrived"
  BY <1>1 DEF Claims, Holds
<1>2. CASE word \in {"saved", "transport", "refused", "local-save"}
  BY <1>2 DEF Claims, Holds
<1>3. CASE word = "not-saved"
  BY <1>3 DEF Claims, Holds, Gone
<1>4. CASE word \notin {"arrived", "saved", "transport", "refused", "local-save", "not-saved"}
  BY <1>4 DEF Holds
<1> QED BY <1>1, <1>2, <1>3, <1>4

\* Every sentence on every page is true of the device, and what any list shows as arrived
\* is stored by the project under that receipt, for any number of tabs, answers, retries
\* and reloads (child-submission-message.ts, deliver-submission.ts).
THEOREM WordsTrue == Spec => []WordsAreTrue
<1>1. IInv => WordsAreTrue
  <2> SUFFICES ASSUME IInv PROVE WordsAreTrue
    OBVIOUS
  <2>1. ASSUME NEW t \in Tabs
        PROVE  Holds(sentence[t], about[t]) /\ \A s \in Ids : Holds(said[t][s], s)
    <3>1. PICK w, i : w = sentence[t] /\ i = about[t]
      OBVIOUS
    <3>2. Holds(w, i)
      BY <3>1, ClaimsHold DEF IInv, WordsOK
    <3>3. ASSUME NEW s \in Ids PROVE Holds(said[t][s], s)
      <4>1. PICK v : v = said[t][s]
        OBVIOUS
      <4>2. Holds(v, s)
        BY <4>1, ClaimsHold DEF IInv, WordsOK
      <4> QED BY <4>1, <4>2
    <3> QED BY <3>1, <3>2, <3>3
  <2>2. \A e \in device : e.receipt # 0 => e \in rows
    BY DEF IInv, StoreOK
  <2>3. \A t \in Tabs : \A e \in shown[t] : e.receipt # 0 => e \in rows
    BY DEF IInv, ListsOK, Sound
  <2> QED BY <2>1, <2>2, <2>3 DEF WordsAreTrue
<1> QED BY <1>1, InvHolds, PTL

\* A button is busy exactly while its one call runs, in any tab (isSaving and retryingId
\* in family-experience.tsx).
THEOREM BusyIsTrue == Spec => []BusyHasACall
<1>1. IInv => BusyHasACall
  <2> SUFFICES ASSUME IInv PROVE BusyHasACall
    OBVIOUS
  <2>1. \A c \in calls : c.submission \in Ids /\ c.submission # 0
    BY DEF IInv, CallsOK, CallRecs, Ids
  <2>2. ASSUME NEW t \in Tabs
        PROVE  {c.submission : c \in {d \in calls : d.tab = t /\ d.by = "save"}}
                 = {saving[t]} \ {0}
    BY <2>1 DEF IInv, BusyOK
  <2>3. ASSUME NEW t \in Tabs
        PROVE  {c.submission : c \in {d \in calls : d.tab = t /\ d.by = "retry"}}
                 = {retrying[t]} \ {0}
    BY <2>1 DEF IInv, BusyOK
  <2> QED BY <2>2, <2>3, InvTypes DEF BusyHasACall
<1> QED BY <1>1, InvHolds, PTL

LEMMA StepKeepsAcknowledged ==
  IInv /\ [Next]_vars => [\A e \in device : e.receipt # 0 => e \in device']_vars
<1> SUFFICES ASSUME IInv, Next PROVE \A e \in device : e.receipt # 0 => e \in device'
  OBVIOUS
<1>1. CASE device' = device
  BY <1>1
<1>2. CASE \E x : Puts(x) /\ rows' = rows
  BY <1>2, PutGrows
<1>3. CASE \E c \in calls : Keep(c) \/ Acknowledge(c)
  <2>1. PICK c \in calls : Keep(c) \/ Acknowledge(c)
    BY <1>3
  <2>2. Puts(Local(c.submission)) \/ Puts(Copy(c))
    BY <2>1, KeepInv, AcknowledgeInv
  <2>3. rows' = rows
    BY <2>1 DEF Keep, Acknowledge
  <2> QED BY <2>2, <2>3, <1>2
<1>4. CASE CommitLate
  BY <1>4, <1>2, CommitInv
<1>5. CASE \E t \in Tabs : \/ Submit(t) \/ ReadList(t) \/ ReadListFails(t) \/ ShowList(t)
                           \/ Reload(t) \/ \E s \in Ids : Retry(t, s)
  BY <1>5, <1>1 DEF Submit, ReadList, ReadListFails, ShowList, Reload, Retry
<1>6. CASE \E c \in calls : \/ KeepFails(c) \/ AcknowledgeFails(c) \/ Handle(c) \/ Decline(c)
                            \/ Unavailable(c) \/ Answer(c) \/ Timeout(c)
  BY <1>6, <1>1 DEF KeepFails, AcknowledgeFails, Handle, Decline, Unavailable, Answer, Timeout
<1>7. CASE HandleLate
  BY <1>7, <1>1 DEF HandleLate
<1> QED BY <1>3, <1>4, <1>5, <1>6, <1>7 DEF Next

\* What a device has once noted as arrived stays noted, under its receipt, whatever second
\* attempts, late answers, transactions and older pages do (deliver-submission.ts).
THEOREM AcknowledgedForGood == Spec => AcknowledgedStays
<1> QED BY InvHolds, StepKeepsAcknowledged, PTL DEF Spec, AcknowledgedStays

=============================================================================
