---------------------------- MODULE RateLimiter ----------------------------
(***************************************************************************)
(* The sliding-window counter of one process (adapters/access/in-memory-   *)
(* rate-limiter.ts) as operators on its map of attempts: what a call does  *)
(* to the map, and what it answers.                                        *)
(*                                                                         *)
(* A timestamp is kept as its age.  All that the code asks of one is       *)
(* whether it is still inside the window, so an age stops growing at       *)
(* Window.  The clock runs forward.                                        *)
(***************************************************************************)
EXTENDS Naturals, Sequences, FiniteSets

CONSTANTS
  Window,      \* windowMs
  MaxTracked   \* maxTrackedKeys: how many keys the map may hold

ASSUME WindowAssumption == Window \in Nat \ {0}
ASSUME TrackedAssumption == MaxTracked \in Nat \ {0}

\* A new Map().
NoAttempts == [key \in {} |-> <<>>]

IsRecent(age) == age < Window

Recent(ages) ==
  LET kept[n \in 0 .. Len(ages)] ==
        IF n = 0 THEN <<>>
        ELSE IF IsRecent(ages[n]) THEN Append(kept[n - 1], ages[n]) ELSE kept[n - 1]
  IN  kept[Len(ages)]

\* sweepStale forgets a key when every attempt of it is stale.
SweepStale(attempts) ==
  LET live == {key \in DOMAIN attempts : Recent(attempts[key]) # <<>>}
  IN  [key \in live |-> attempts[key]]

\* hasRoomForNewKey sweeps a full map, whether that makes room or not.
MakeRoom(attempts) ==
  IF Cardinality(DOMAIN attempts) < MaxTracked THEN attempts ELSE SweepStale(attempts)

\* Map.set
Put(attempts, key, ages) ==
  [k \in DOMAIN attempts \cup {key} |-> IF k = key THEN ages ELSE attempts[k]]

Granted(attempts) == [granted |-> TRUE, attempts |-> attempts]
Refused(attempts) == [granted |-> FALSE, attempts |-> attempts]

\* MUTANT: a new key is always taken.
TryConsumeUnbounded(attempts, key, limit) ==
  LET recent == IF key \in DOMAIN attempts THEN Recent(attempts[key]) ELSE <<>>
  IN  IF Len(recent) >= limit
        THEN Refused(Put(attempts, key, recent))
        ELSE Granted(Put(attempts, key, Append(recent, 0)))

\* MUTANT: a refused attempt is recorded like a granted one.
TryConsumeAlways(attempts, key, limit) ==
  LET roomy  == IF key \in DOMAIN attempts THEN attempts ELSE MakeRoom(attempts)
      recent == IF key \in DOMAIN attempts THEN Recent(attempts[key]) ELSE <<>>
      counted == Put(roomy, key, Append(recent, 0))
  IN  IF key \notin DOMAIN attempts /\ Cardinality(DOMAIN roomy) >= MaxTracked
        THEN Refused(roomy)
        ELSE IF Len(recent) >= limit THEN Refused(counted) ELSE Granted(counted)

\* A call for a key: the answer, and the map it leaves behind.
TryConsume(attempts, key, limit) ==
  LET roomy  == IF key \in DOMAIN attempts THEN attempts ELSE MakeRoom(attempts)
      recent == IF key \in DOMAIN attempts THEN Recent(attempts[key]) ELSE <<>>
  IN  IF key \notin DOMAIN attempts /\ Cardinality(DOMAIN roomy) >= MaxTracked
        THEN Refused(roomy)
        ELSE IF Len(recent) >= limit
               THEN Refused(Put(roomy, key, recent))
               ELSE Granted(Put(roomy, key, Append(recent, 0)))

Older(age) == IF age < Window THEN age + 1 ELSE Window

\* The clock has moved on by one.
LaterAges(ages) == [i \in DOMAIN ages |-> Older(ages[i])]

Later(attempts) == [key \in DOMAIN attempts |-> LaterAges(attempts[key])]
=============================================================================
