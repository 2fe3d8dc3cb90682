----------------------------- MODULE InboxPort -----------------------------
(***************************************************************************)
(* The vocabulary of the inbox port and its routes: records and answers.   *)
(* The route mints a receipt for every request, so a receipt also stands   *)
(* for the text or recording that came with it.                            *)
(***************************************************************************)
EXTENDS Naturals

CONSTANTS
  Submissions,   \* ids chosen by the devices that send
  Senders,       \* requests that can be open at once: devices, tabs, retries
  NoRecord       \* no record is stored, or none has been sent

Records == [submission : Submissions, receipt : Nat]

ASSUME NoRecordAssumption == NoRecord \notin Records

\* 201 and 200 carry a receipt; the 503 does not.
Answers ==
  [kind : {"stored", "kept"}, receipt : Nat]
    \cup [kind : {"none", "unavailable"}, receipt : {0}]

Plain(kind)  == [kind |-> kind, receipt |-> 0]
StoredAs(r)  == [kind |-> "stored", receipt |-> r.receipt]
KeptAs(r)    == [kind |-> "kept", receipt |-> r.receipt]
=============================================================================
