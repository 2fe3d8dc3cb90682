--------------------------- MODULE SlidingWindow ---------------------------
(***************************************************************************)
(* What an abuse brake promises (application/access/rate-limiter.ts): it   *)
(* remembers every attempt it has granted for one window, grants another   *)
(* exactly when fewer than Limit of that key are inside it, and counts     *)
(* nothing it refuses.  A key it has granted nothing inside the window is  *)
(* refused while MaxActive others have.                                    *)
(***************************************************************************)
EXTENDS Naturals, Sequences, FiniteSets

CONSTANTS Limit, MaxActive, Window

VARIABLES
  spent,     \* the ages of the granted attempts inside the window, by key
  verdict    \* the last call since the clock moved: its number, its key, and the answer

Spent(key) == IF key \in DOMAIN spent THEN spent[key] ELSE <<>>

Allowed(key) ==
  /\ Len(Spent(key)) < Limit
  /\ key \in DOMAIN spent \/ Cardinality(DOMAIN spent) < MaxActive

Init == spent = [key \in {} |-> <<>>] /\ verdict.call = 0

NothingAsked == verdict'.call = 0

\* One call, which tells its answer.
Ask ==
  /\ verdict'.call > verdict.call
  /\ verdict'.granted = Allowed(verdict'.key)
  /\ spent' = IF verdict'.granted
                THEN [key \in DOMAIN spent \cup {verdict'.key} |->
                        IF key = verdict'.key THEN Append(Spent(key), 0) ELSE spent[key]]
                ELSE spent

\* Those of the ages that are inside the window.
Inside(ages) ==
  LET inside[n \in 0 .. Len(ages)] ==
        IF n = 0 THEN <<>>
        ELSE IF ages[n] < Window THEN Append(inside[n - 1], ages[n]) ELSE inside[n - 1]
  IN  inside[Len(ages)]

Aged(ages) == Inside([i \in DOMAIN ages |-> ages[i] + 1])

\* Time passes, and what has left the window is forgotten.
Tick ==
  /\ spent' = [key \in {k \in DOMAIN spent : Aged(spent[k]) # <<>>} |-> Aged(spent[key])]
  /\ NothingAsked

\* A restart forgets every counter.
Forget == spent' = [key \in {} |-> <<>>] /\ NothingAsked

Next == Ask \/ Tick \/ Forget

Spec == Init /\ [][Next]_<<spent, verdict>>
=============================================================================
