-------------------------- MODULE LoginRateLimiter --------------------------
(***************************************************************************)
(* POST /users/login (src/auth/auth.service.ts, auth.controller.ts) and    *)
(* the two Redis counters that every attempt increments before the user    *)
(* and the password are looked up: one of the e-mail address, one of the   *)
(* client's IP address (src/auth/auth-login-rate-limiter.ts).              *)
(***************************************************************************)
EXTENDS Integers, LazyRedis

CONSTANTS
  Email, Address,
  MaxAttempts,     \* AUTH_LOGIN_MAX_ATTEMPTS
  Window,          \* AUTH_LOGIN_WINDOW_MS, in ticks
  None

LimiterAssumption == MaxAttempts \in Nat /\ Window \in Nat \ {0}

VARIABLES
  hits,     \* the counters; a key that Redis has dropped counts 0
  login,    \* the attempts; a caller tries again once it is answered
  passed    \* attempts let through since the counter of each key began

vars == <<rvars, hits, login, passed>>

-----------------------------------------------------------------------------
Key == Email \cup Address

\* Bound: a count above MaxAttempts + 1 is not told apart from MaxAttempts + 1.
Counter == [count : 0..MaxAttempts + 1, ttl : 0..Window]

LoginState == [email : Email \cup {None}, ip : Address \cup {None}, limited : BOOLEAN]

NoLogin == [email |-> None, ip |-> None, limited |-> FALSE]

TypeOK ==
  /\ RedisTypeOK
  /\ hits \in [Key -> Counter]
  /\ login \in [Caller -> LoginState]
  /\ passed \in [Key -> 0..2 * MaxAttempts + 1]

Init ==
  /\ RedisInit
  /\ hits = [k \in Key |-> [count |-> 0, ttl |-> 0]]
  /\ login = [r \in Caller |-> NoLogin]
  /\ passed = [k \in Key |-> 0]

-----------------------------------------------------------------------------
\* Mutant: every attempt starts the window anew.
HitSliding(h) ==
  [count |-> IF h.count > MaxAttempts THEN h.count ELSE h.count + 1, ttl |-> Window]

\* AUTH_LOGIN_INCREMENT_SCRIPT for one key: INCR, and PEXPIRE when it is new.
Hit(h) ==
  [count |-> IF h.count > MaxAttempts THEN h.count ELSE h.count + 1,
   ttl |-> IF h.count = 0 THEN Window ELSE h.ttl]

\* Mutant: every instead of some.
AllLimited(ks) == \A k \in ks : Hit(hits[k]).count > MaxAttempts

\* isRateLimited
Limited(ks) == \E k \in ks : Hit(hits[k]).count > MaxAttempts

Attempt(r) ==
  /\ call[r] = "idle"
  /\ \E e \in Email, a \in Address :
       login' = [login EXCEPT ![r].email = e, ![r].ip = a]
  /\ Send(r)
  /\ UNCHANGED <<hits, passed>>

\* Redis runs the script, for both keys at once.
Consume(r) ==
  LET ks == {login[r].email, login[r].ip}
  IN /\ Run(r)
     /\ hits' = [k \in Key |-> IF k \in ks THEN Hit(hits[k]) ELSE hits[k]]
     /\ login' = [login EXCEPT ![r].limited = Limited(ks)]
     /\ passed' = [k \in Key |-> IF k \in ks /\ ~Limited(ks) THEN passed[k] + 1
                                 ELSE passed[k]]

\* 429 if limited; else findByEmail and the password decide between 200 and 401.
\* 500 if the command failed.
Answer(r) ==
  /\ Replied(r) \/ Failed(r)
  /\ login' = [login EXCEPT ![r] = NoLogin]
  /\ End(r)
  /\ UNCHANGED <<hits, passed>>

Tick ==
  /\ hits' = [k \in Key |-> IF hits[k].ttl <= 1 THEN [count |-> 0, ttl |-> 0]
                            ELSE [hits[k] EXCEPT !.ttl = @ - 1]]
  /\ passed' = [k \in Key |-> IF hits[k].ttl <= 1 THEN 0 ELSE passed[k]]
  /\ UNCHANGED <<rvars, login>>

NetworkStep == Network /\ UNCHANGED <<hits, login, passed>>

Next ==
  \/ \E r \in Caller : Attempt(r) \/ Consume(r) \/ Answer(r)
  \/ NetworkStep
  \/ Flip /\ UNCHANGED <<hits, login, passed>>
  \/ Tick

Spec == Init /\ [][Next]_vars

\* Time passes; connection attempts end and ioredis makes new ones; a command
\* under way is run or lost, and its reply arrives.
Fairness ==
  /\ WF_vars(Tick)
  /\ WF_vars(NetworkStep)
  /\ \A r \in Caller : SF_vars(Consume(r)) /\ SF_vars(Answer(r))

-----------------------------------------------------------------------------
(* Properties *)

\* Within one window of an e-mail address at most MaxAttempts attempts get as
\* far as the password, whatever addresses they come from, and the other way
\* round; an attempt that was sent twice counts twice.
WindowBound == \A k \in Key : passed[k] <= MaxAttempts

\* Whoever is locked out is let in again, even if the attempts go on: they are
\* counted but do not extend the window.
LockoutEnds == \A k \in Key : hits[k].count > MaxAttempts ~> hits[k].count = 0
=============================================================================
