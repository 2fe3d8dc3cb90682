---------------------------- MODULE AccessGates ----------------------------
(***************************************************************************)
(* The two doors of the site: sign-in with a shared code (api/family/      *)
(* session and api/admin/session), the session it mints (adapters/access/  *)
(* hmac-family-access-gate.ts), the guards that check one on every         *)
(* protected request (adapters/http/*-request-guard.ts), and the brakes    *)
(* before both (composition/server.ts).  A restart brings a new            *)
(* environment and empty counters.                                         *)
(*                                                                         *)
(* A session is its signing key, what is left of its life and a number in  *)
(* place of its nonce; no other key makes the same signature.  Time is     *)
(* counted in ticks that are whole seconds.                                *)
(***************************************************************************)
EXTENDS RateLimiter

CONSTANTS
  Codes,           \* access codes
  Blank,           \* an unset variable
  Secrets,         \* values of AVALORIA_SESSION_SECRET
  Configurations,  \* the environments the process may be started with
  Addresses,       \* what clientAddress reads from a request
  Routes,          \* protected routes, each with a limiter of its own
  Limit,           \* Limit[l]: how many attempts the limiter l allows
  Ttl,             \* the life of a session in ticks
  MaxCalls,        \* bound: how many requests arrive
  MaxRestarts      \* bound

Audiences == {"family", "admin"}

ASSUME BlankAssumption == Blank \notin Codes
ASSUME RoutesAssumption == Routes \subseteq {"inbox", "audio", "admin"}
ASSUME ConfigurationAssumption ==
  Configurations \subseteq
    [family : Codes \cup {Blank}, admin : Codes \cup {Blank}, secret : Secrets]
ASSUME NumbersAssumption == {Ttl, MaxCalls, MaxRestarts} \subseteq Nat /\ Ttl > 0

\* Every limiter of the process, built once and kept.
GlobalSignIn(audience) == <<"sign-in of all", audience>>
CallerSignIn(audience) == <<"sign-in of one", audience>>
OfRoute(route) == <<"route", route>>

Limiters ==
  {GlobalSignIn(a) : a \in Audiences} \cup {CallerSignIn(a) : a \in Audiences}
    \cup {OfRoute(r) : r \in Routes}

ASSUME LimitAssumption == Limit \in [Limiters -> Nat]

VARIABLES
  config,     \* the environment of this process
  attempts,   \* attempts[l]: the map of limiter l
  pending,    \* sign-ins that passed both brakes and wait for their body
  sessions,   \* the session values callers hold
  calls,      \* how many requests have arrived
  restarts,   \* how often the process was started again
  answer,     \* the response just given: the door, the status and the session shown
  verdicts,   \* auxiliary: the last call of each limiter since the clock moved
  opened      \* auxiliary: what was entered for each session, and how long ago

gatesVars ==
  <<config, attempts, pending, sessions, calls, restarts, answer, verdicts, opened>>

NoSession == 0

NoAnswer == [call |-> 0, audience |-> "family", status |-> "none", session |-> NoSession]

NoVerdict == [call |-> 0, key |-> Blank, granted |-> FALSE]

GatesInit ==
  /\ config \in Configurations
  /\ attempts = [l \in Limiters |-> NoAttempts]
  /\ pending = {} /\ sessions = {}
  /\ calls = 0 /\ restarts = 0
  /\ answer = NoAnswer
  /\ verdicts = [l \in Limiters |-> NoVerdict]
  /\ opened = {}

----------------------------------------------------------------------------
(* The gate *)

\* MUTANT: the same code is served at both doors.
CodeOfEither(audience) == IF audience = "admin" THEN config.admin ELSE config.family

\* createFamilyAccessGate and createAdminAccessGate: an admin code that equals the
\* children's closes the admin door.
Code(audience) ==
  CASE audience = "family" -> config.family
    [] audience = "admin" /\ config.admin = config.family -> Blank
    [] OTHER -> config.admin

IsConfigured(audience) == Code(audience) # Blank

\* signingKey: rotating the code or the secret makes another.
SigningKey(audience) == <<Code(audience), config.secret>>

\* verifySession of the session under the cookie's name, or of none.
VerifySession(audience, number) ==
  IF ~IsConfigured(audience)
    THEN "unavailable"
    ELSE IF \E s \in sessions :
              s.number = number /\ s.key = SigningKey(audience) /\ s.left > 0
           THEN "granted"
           ELSE "denied"

----------------------------------------------------------------------------
(* The brakes *)

Consume(l, key) == TryConsume(attempts[l], key, Limit[l])

Verdict(l, key) == [call |-> calls', key |-> key, granted |-> Consume(l, key).granted]

Respond(audience, status, number) ==
  answer' = [call |-> calls', audience |-> audience, status |-> status, session |-> number]

Arrive == calls < MaxCalls /\ calls' = calls + 1

----------------------------------------------------------------------------
(* The routes *)

\* POST of a session route up to its body: the brake of all is asked first, and what it
\* grants is spent even when the brake of the one caller refuses.
SignIn(audience, address) ==
  LET all == GlobalSignIn(audience)
      one == CallerSignIn(audience)
  IN  /\ Arrive
      /\ IF Consume(all, "all").granted
           THEN /\ attempts' = [attempts EXCEPT ![all] = Consume(all, "all").attempts,
                                                ![one] = Consume(one, address).attempts]
                /\ verdicts' = [verdicts EXCEPT ![all] = Verdict(all, "all"),
                                                ![one] = Verdict(one, address)]
           ELSE /\ attempts' = [attempts EXCEPT ![all] = Consume(all, "all").attempts]
                /\ verdicts' = [verdicts EXCEPT ![all] = Verdict(all, "all")]
      /\ IF Consume(all, "all").granted /\ Consume(one, address).granted
           THEN /\ pending' = pending \cup {[number |-> calls', audience |-> audience]}
                /\ UNCHANGED answer
           ELSE /\ Respond(audience, "too-many-requests", NoSession)
                /\ UNCHANGED pending
      /\ UNCHANGED <<config, sessions, restarts, opened>>

\* The body does not arrive as an access code.
RefuseBody(p) ==
  /\ pending' = pending \ {p}
  /\ answer' = [NoAnswer EXCEPT !.call = p.number, !.audience = p.audience,
                                !.status = "invalid-payload"]
  /\ UNCHANGED <<config, attempts, sessions, calls, restarts, verdicts, opened>>

\* The signed value that goes into the cookie.
Minted(p) == [number |-> p.number, key |-> SigningKey(p.audience), left |-> Ttl]

\* openSession with the code in the body.
OpenSession(p, code) ==
  /\ pending' = pending \ {p}
  /\ IF IsConfigured(p.audience) /\ code = Code(p.audience)
       THEN /\ sessions' = sessions \cup {Minted(p)}
            /\ opened' = opened \cup
                 {[number |-> p.number, entered |-> code, secret |-> config.secret, age |-> 0]}
            /\ answer' = [NoAnswer EXCEPT !.call = p.number, !.audience = p.audience,
                                          !.status = "authenticated"]
       ELSE /\ answer' = [NoAnswer EXCEPT !.call = p.number, !.audience = p.audience,
                            !.status = IF IsConfigured(p.audience)
                                         THEN "invalid-credentials" ELSE "gate-unavailable"]
            /\ UNCHANGED <<sessions, opened>>
  /\ UNCHANGED <<config, attempts, calls, restarts, verdicts>>

\* What a guard counts by: the client's address and a fingerprint of its session.
Requester(address, number) == <<address, number>>

\* A protected request at its guard: only a valid session is counted.
Guard(route, audience, address, number) ==
  LET l == OfRoute(route)
      key == Requester(address, number)
  IN  /\ Arrive
      /\ IF VerifySession(audience, number) = "granted"
           THEN /\ attempts' = [attempts EXCEPT ![l] = Consume(l, key).attempts]
                /\ verdicts' = [verdicts EXCEPT ![l] = Verdict(l, key)]
                /\ Respond(audience,
                           IF Consume(l, key).granted THEN "granted" ELSE "rate-limited",
                           number)
           ELSE /\ Respond(audience, VerifySession(audience, number), number)
                /\ UNCHANGED <<attempts, verdicts>>
      /\ UNCHANGED <<config, pending, sessions, restarts, opened>>

\* The cookie under the name of a door holds any session value, or there is none.
Numbers == {NoSession} \cup {s.number : s \in sessions}

\* A child's submission, by guardFamilyRequest.
FamilyRequest ==
  \E route \in Routes \ {"admin"}, address \in Addresses, number \in Numbers :
    Guard(route, "family", address, number)

\* An adult's request, by guardAdminRequest.
AdminRequest ==
  \E route \in Routes \cap {"admin"}, address \in Addresses, number \in Numbers :
    Guard(route, "admin", address, number)

----------------------------------------------------------------------------
(* Time and restarts *)

Tick ==
  /\ attempts' = [l \in Limiters |-> Later(attempts[l])]
  /\ sessions' = {[s EXCEPT !.left = IF @ > 0 THEN @ - 1 ELSE 0] : s \in sessions}
  /\ opened' = {[o EXCEPT !.age = IF @ < Ttl THEN @ + 1 ELSE Ttl] : o \in opened}
  /\ answer' = NoAnswer /\ verdicts' = [l \in Limiters |-> NoVerdict]
  /\ UNCHANGED <<config, pending, calls, restarts>>

\* The process is started again: what it was doing and what it had counted is gone, the
\* sessions are with their callers.
Restart ==
  /\ restarts < MaxRestarts
  /\ restarts' = restarts + 1
  /\ config' \in Configurations
  /\ attempts' = [l \in Limiters |-> NoAttempts]
  /\ pending' = {}
  /\ answer' = NoAnswer /\ verdicts' = [l \in Limiters |-> NoVerdict]
  /\ UNCHANGED <<sessions, calls, opened>>

GatesNext ==
  \/ \E audience \in Audiences, address \in Addresses : SignIn(audience, address)
  \/ \E p \in pending :
       \/ RefuseBody(p)
       \/ \E code \in Codes : OpenSession(p, code)
  \/ FamilyRequest
  \/ AdminRequest
  \/ Tick
  \/ Restart

GatesSpec == GatesInit /\ [][GatesNext]_gatesVars

----------------------------------------------------------------------------
(* Properties *)

Keys == {"all"} \cup Addresses \cup (Addresses \X (0 .. MaxCalls))

Statuses ==
  {"none", "too-many-requests", "invalid-payload", "authenticated", "invalid-credentials",
   "gate-unavailable", "granted", "rate-limited", "unavailable", "denied"}

\* The map of a limiter is bounded: "unbounded growth is not" recoverable
\* (in-memory-rate-limiter.ts).
GatesTypeOK ==
  /\ config \in Configurations
  /\ \A l \in Limiters :
       /\ Cardinality(DOMAIN attempts[l]) <= MaxTracked
       /\ \A key \in DOMAIN attempts[l] :
            /\ Len(attempts[l][key]) <= Limit[l]
            /\ \A i \in DOMAIN attempts[l][key] : attempts[l][key][i] \in 0 .. Window
  /\ pending \subseteq [number : 1 .. MaxCalls, audience : Audiences]
  /\ sessions \subseteq [number : 1 .. MaxCalls, key : Codes \X Secrets, left : 0 .. Ttl]
  /\ calls \in 0 .. MaxCalls /\ restarts \in 0 .. MaxRestarts
  /\ answer.status \in Statuses /\ answer.audience \in Audiences
  /\ opened \subseteq
       [number : 1 .. MaxCalls, entered : Codes, secret : Secrets, age : 0 .. Ttl]

\* What a limiter has granted inside the window.
SpentOf(map) ==
  [key \in {k \in DOMAIN map : Recent(map[k]) # <<>>} |-> Recent(map[key])]

Promise(l) ==
  INSTANCE SlidingWindow WITH
    Limit <- Limit[l], MaxActive <- MaxTracked,
    spent <- SpentOf(attempts[l]), verdict <- verdicts[l]

\* Every limiter of the process, pruned and swept as it is, decides like one that
\* remembers every grant for its window: none is forgotten early, and "a refused attempt
\* is not counted again" (rate-limiter.ts).
Implements ==
  /\ \A l \in Limiters : Promise(l)!Init
  /\ [][\A l \in Limiters : [Promise(l)!Next]_<<attempts[l], verdicts[l]>>]_gatesVars

\* A request passes a door only with a session that was opened by entering the code which
\* is configured for that door now, under the present secret and within its life, and the
\* admin door never with the code the children hold (createAdminAccessGate). At which door the
\* code was entered is not asked, as the gates do not: after the codes are exchanged, a session
\* opened at the family door with what is now the admin code passes the admin door.
EnteredTheCode(audience, number) ==
  \E o \in opened :
    /\ o.number = number
    /\ o.entered = (IF audience = "admin" THEN config.admin ELSE config.family)
    /\ o.secret = config.secret
    /\ o.age < Ttl
    /\ audience = "admin" => o.entered # config.family

SessionsAreCurrent ==
  [][answer' # answer /\ answer'.status = "granted" =>
       EnteredTheCode(answer'.audience, answer'.session)]_gatesVars

\* "The per-caller bucket stays because it is what keeps one noisy caller from spending
\* the whole household's allowance" (api/family/session/route.ts): while only one caller
\* has tried to sign in, the allowance of all is not spent.
OneCallerLeavesRoom ==
  Cardinality(DOMAIN attempts[CallerSignIn("family")]) = 1 =>
    \A key \in DOMAIN attempts[GlobalSignIn("family")] :
      Len(Recent(attempts[GlobalSignIn("family")][key])) < Limit[GlobalSignIn("family")]
=============================================================================
