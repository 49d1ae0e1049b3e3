---------------------------- MODULE AuthSession ----------------------------
(***************************************************************************)
(* Tokens (src/auth): AuthTokenGuard on GET /user, PUT /user and           *)
(* POST /user/logout, the tokens that a login or a PUT /user issues, and   *)
(* the Redis deny list that ends them early.                               *)
(*                                                                         *)
(* Time is counted in ticks, TicksPerSecond to the second, and kept as     *)
(* what is left: left[t] is exp - floor(now / 1000) of token t, denied[t]  *)
(* the ticks until Redis drops the deny-list key of t.                     *)
(***************************************************************************)
EXTENDS Integers, LazyRedis

CONSTANTS
  Token,           \* token ids (random UUIDs)
  Lifetime,        \* TOKEN_LIFETIME_SECONDS
  TicksPerSecond,
  None

ASSUME TimeAssumption == Lifetime \in Nat \ {0} /\ TicksPerSecond \in Nat \ {0}
ASSUME NoneAssumption == None \notin Token

VARIABLES
  phase,      \* ticks since the last whole second
  issued,     \* tokens handed out
  left,       \* seconds each token is still valid for
  denied,     \* ticks each deny-list key still lives, 0 when it is absent
  req,        \* the requests; each begins again once it is answered
  answer,     \* what the last step answered, NoAnswer if it did not
  loggedOut   \* tokens whose logout was answered with 204

clock == <<phase, issued, left>>
vars == <<rvars, clock, denied, req, answer, loggedOut>>

-----------------------------------------------------------------------------
(* State *)

Kind == {"user", "update", "logout"}

RequestState ==
  [kind : Kind \cup {"none"},
   token : Token \cup {None},
   cmd : {"get", "set", "none"},
   ttl : 0..Lifetime,     \* the EX argument of SET
   reply : BOOLEAN,       \* GET has found the key
   late : BOOLEAN]        \* it began after the logout of its token had ended

NoRequest == [kind |-> "none", token |-> None, cmd |-> "none", ttl |-> 0,
              reply |-> FALSE, late |-> FALSE]

AnswerState == [token : Token \cup {None}, late : BOOLEAN,
                status : {"none", "200", "204", "401", "500"}]

NoAnswer == [token |-> None, late |-> FALSE, status |-> "none"]

TypeOK ==
  /\ RedisTypeOK
  /\ phase \in 0..TicksPerSecond - 1
  /\ issued \subseteq Token /\ loggedOut \subseteq issued
  /\ left \in [Token -> 0..Lifetime]
  /\ denied \in [Token -> 0..Lifetime * TicksPerSecond]
  /\ req \in [Caller -> RequestState]
  /\ answer \in AnswerState

Init ==
  /\ RedisInit
  /\ phase = 0
  /\ issued = {} /\ loggedOut = {}
  /\ left = [t \in Token |-> 0]
  /\ denied = [t \in Token |-> 0]
  /\ req = [r \in Caller |-> NoRequest]
  /\ answer = NoAnswer

Silent == answer' = NoAnswer
Become(r, x) == req' = [req EXCEPT ![r] = x] /\ Silent
Answer(r, x, a) ==
  /\ req' = [req EXCEPT ![r] = NoRequest]
  /\ answer' = [token |-> x.token, late |-> x.late, status |-> a]
Redis == Silent /\ UNCHANGED <<clock, denied, req, loggedOut>>

-----------------------------------------------------------------------------
(* Issuing tokens *)

\* Which of the unused random UUIDs it gets makes no difference.  Bound: when
\* Token is used up, a further token is issued but not followed.
FreshToken == CHOOSE t \in Token : t \notin issued

IssueToken ==
  IF issued = Token THEN UNCHANGED <<issued, left>>
  ELSE /\ issued' = issued \cup {FreshToken}
       /\ left' = [left EXCEPT ![FreshToken] = Lifetime]

\* A login that has succeeded (LoginRateLimiter).
Login ==
  /\ IssueToken
  /\ Silent
  /\ UNCHANGED <<rvars, phase, denied, req, loggedOut>>

-----------------------------------------------------------------------------
(* Presenting one *)

\* canActivate and authenticate: the signature and the expiry, then the id.
\* Only a token that verifies reaches the deny list.
Present(r) ==
  /\ call[r] = "idle"
  /\ \E t \in issued, k \in Kind :
       LET x == [NoRequest EXCEPT !.kind = k, !.token = t, !.late = t \in loggedOut]
       IN IF left[t] = 0
          THEN Answer(r, x, "401") /\ UNCHANGED rvars
          ELSE Become(r, [x EXCEPT !.cmd = "get"]) /\ Send(r)
  /\ UNCHANGED <<clock, denied, loggedOut>>

\* Redis runs the GET or the SET of r.
Execute(r) ==
  LET x == req[r]
  IN /\ Run(r)
     /\ Become(r, [x EXCEPT !.reply = x.cmd = "get" /\ denied[x.token] > 0])
     /\ denied' = IF x.cmd = "set"
                  THEN [denied EXCEPT ![x.token] = x.ttl * TicksPerSecond] ELSE denied
     /\ UNCHANGED <<clock, loggedOut>>

\* Mutant: the catch of authenticate does not look at the error's class.
RefuseOnError(cmd) == IF cmd = "get" THEN "401" ELSE "500"
\* TokenDenyListUnavailableError, through the guard or the logout handler.
OnError(cmd) == "500"

RedisFailed(r) ==
  /\ Failed(r)
  /\ Answer(r, req[r], OnError(req[r].cmd))
  /\ End(r)
  /\ UNCHANGED <<clock, denied, loggedOut>>

Refuse(r) ==
  /\ Replied(r) /\ req[r].reply
  /\ Answer(r, req[r], "401")
  /\ End(r)
  /\ UNCHANGED <<clock, denied, loggedOut>>

Admitted(r, k) == Replied(r) /\ req[r].cmd = "get" /\ ~req[r].reply /\ req[r].kind = k

CurrentUser(r) ==
  /\ Admitted(r, "user")
  /\ Answer(r, req[r], "200")
  /\ End(r)
  /\ UNCHANGED <<clock, denied, loggedOut>>

\* PUT /user answers with a token of its own; the one presented stays valid.
UpdateUser(r) ==
  /\ Admitted(r, "update")
  /\ IssueToken
  /\ Answer(r, req[r], "200")
  /\ End(r)
  /\ UNCHANGED <<phase, denied, loggedOut>>

\* Mutant: the time left is rounded down once more.
DenyTtlShort(t) == IF left[t] = 0 THEN 0 ELSE left[t] - 1
\* exp - floor(now / 1000)
DenyTtl(t) == left[t]

\* deny: a token that has expired meanwhile needs no key.
Logout(r) ==
  LET x == req[r]
      ttl == DenyTtl(x.token)
  IN /\ Admitted(r, "logout")
     /\ IF ttl <= 0
        THEN Answer(r, req[r], "204") /\ End(r) /\ loggedOut' = loggedOut \cup {x.token}
        ELSE Become(r, [x EXCEPT !.cmd = "set", !.ttl = ttl]) /\ Send(r)
             /\ UNCHANGED loggedOut
     /\ UNCHANGED <<clock, denied>>

LogoutReplied(r) ==
  /\ Replied(r) /\ req[r].cmd = "set"
  /\ Answer(r, req[r], "204")
  /\ End(r)
  /\ loggedOut' = loggedOut \cup {req[r].token}
  /\ UNCHANGED <<clock, denied>>

Reply(r) ==
  \/ RedisFailed(r) \/ Refuse(r) \/ CurrentUser(r) \/ UpdateUser(r)
  \/ Logout(r) \/ LogoutReplied(r)

-----------------------------------------------------------------------------
Less(n) == IF n = 0 THEN 0 ELSE n - 1

Tick ==
  /\ phase' = (phase + 1) % TicksPerSecond
  /\ left' = [t \in Token |-> IF phase' = 0 THEN Less(left[t]) ELSE left[t]]
  /\ denied' = [t \in Token |-> Less(denied[t])]
  /\ Silent
  /\ UNCHANGED <<rvars, issued, req, loggedOut>>

Next ==
  \/ Login \/ Tick
  \/ \E r \in Caller : Present(r) \/ Execute(r) \/ Reply(r)
  \/ (Network \/ Flip) /\ Redis

Spec == Init /\ [][Next]_vars

\* Connection attempts end and ioredis makes new ones; a command that is under
\* way is run or lost, and its reply arrives, however often the connection
\* breaks in between.
Fairness ==
  /\ WF_vars(Network /\ Redis)
  /\ \A r \in Caller : SF_vars(Execute(r)) /\ SF_vars(Reply(r))

-----------------------------------------------------------------------------
(* Properties *)

\* Once a logout has been answered with 204, no request that begins afterwards
\* gets through with that token while it is valid: not when the deny-list key
\* expires (it must outlive the token, to the tick), not while Redis cannot be
\* reached, not after a SET that ran twice.  (A request whose GET is delayed
\* past the expiry of both does get through: the expiry is checked first.)
LogoutSticks ==
  /\ answer.late /\ answer.status \in {"200", "204"} => left[answer.token] = 0
  /\ \A r \in Caller :
       req[r].late /\ req[r].cmd = "set" => left[req[r].token] = 0

\* What LogoutSticks rests on: the key of a token that was logged out lives for
\* as long as the token.
DeniedUntilExpiry ==
  \A t \in loggedOut : left[t] * TicksPerSecond <= denied[t] + phase

\* A token is refused with 401, which makes a client drop it, only if it has
\* expired or a logout has denied it, never because Redis failed.
HonestRefusal ==
  answer.status = "401" => left[answer.token] = 0 \/ denied[answer.token] > 0

\* Every request is answered, whatever becomes of the connection.
RequestsEnd == \A r \in Caller : call[r] # "idle" ~> call[r] = "idle"

\* The message of TokenDenyListUnavailableError, "Redis deny-list is
\* unavailable": a command fails only while Redis or the connection is down.
UnavailableMeansDown ==
  [][\A r \in Caller : call'[r] = "failed" /\ call[r] # "failed" =>
       ~(up /\ status = "ready")]_vars
=============================================================================
