----------------------------- MODULE AuthProofs -----------------------------
(***************************************************************************)
(* AuthSession, for any requests, tokens, lifetime and granularity of the  *)
(* clock: LogoutSticks, HonestRefusal and DeniedUntilExpiry; and           *)
(* LoginRateLimiter, for any callers, addresses, limit and window:         *)
(* WindowBound.                                                            *)
(*                                                                         *)
(* The argument about tokens is about Covered(t): the deny-list key of t   *)
(* outlives t, to the tick.  Time keeps it so, although exp is compared    *)
(* with whole seconds; a SET makes it so, because its time to live was     *)
(* computed before it ran; and a token that is covered and has no key has  *)
(* expired.  The one about logins is CountInv: the counter of a key is at  *)
(* least what it has let through.                                          *)
(***************************************************************************)
EXTENDS MCAuth, TLAPS

-----------------------------------------------------------------------------
(* The connection: the types of its variables, and that only Run lets a       *)
(* command take effect                                                        *)

\* The connection's steps keep the type of its variables, whatever they carry.
LEMMA RedisTypes ==
  ASSUME RedisTypeOK,
         \/ \E r \in Caller : Send(r) \/ Run(r) \/ End(r)
         \/ Network \/ Flip \/ UNCHANGED rvars
  PROVE  RedisTypeOK'
  BY DEF RedisTypeOK, Send, Run, End, Goto, Network, Opened, OpenFails, Reopen,
         Break, MoveAll, Flip, rvars

\* A caller's step moves its own command only; sending or ending one does not
\* run it.
LEMMA CallerSteps ==
  ASSUME RedisTypeOK, NEW r \in Caller
  PROVE  /\ Send(r) \/ End(r) => call'[r] # "ran"
         /\ Run(r) => call[r] = "sent"
         /\ Send(r) \/ End(r) \/ Run(r) => \A q \in Caller \ {r} : call'[q] = call[q]
  BY DEF RedisTypeOK, Send, Run, End, Goto

\* No step of the network makes a command run.
LEMMA NetworkSteps ==
  ASSUME RedisTypeOK, Network \/ Flip \/ UNCHANGED rvars, NEW q \in Caller,
         call'[q] = "ran"
  PROVE  call[q] = "ran"
  BY DEF RedisTypeOK, Network, Opened, OpenFails, Reopen, Break, MoveAll, Flip, rvars

-----------------------------------------------------------------------------
(* Sessions *)

Covered(t) == left[t] * TicksPerSecond <= denied[t] + phase

\* What is known of a request, by where its command is.
RequestOK(r) ==
  /\ req[r].reply => req[r].cmd = "get"
  /\ req[r].cmd # "none" => req[r].token \in issued
  /\ req[r].late => req[r].token \in loggedOut
  /\ req[r].cmd = "set" => left[req[r].token] <= req[r].ttl
  /\ req[r].cmd = "set" /\ req[r].late => left[req[r].token] = 0
  /\ call[r] = "ran" /\ (req[r].cmd = "set" \/ req[r].reply) => Covered(req[r].token)
  /\ call[r] = "ran" /\ req[r].cmd = "get" /\ ~req[r].reply /\ req[r].late =>
       left[req[r].token] = 0

RequestInv == \A r \in Caller : RequestOK(r)

KeyInv ==
  \A t \in Token :
    /\ denied[t] > 0 => t \in issued
    /\ t \in loggedOut \/ denied[t] > 0 => Covered(t)

AnswerInv ==
  /\ answer.late /\ answer.status \in {"200", "204"} => left[answer.token] = 0
  /\ HonestRefusal

SInv == TypeOK /\ RequestInv /\ KeyInv /\ AnswerInv

-----------------------------------------------------------------------------
(* The clock *)

LEMMA Times ==
  ASSUME NEW a \in Nat, NEW b \in Nat, NEW n \in Nat \ {0}
  PROVE  /\ a * n \in Nat
         /\ a <= b => a * n <= b * n
         /\ a * n < n => a = 0
         /\ a > 0 => (a - 1) * n = a * n - n
  OBVIOUS

\* A token that is covered and has no key has expired.
LEMMA NoKeyNoToken ==
  ASSUME TypeOK, NEW t \in Token, Covered(t), ~(denied[t] > 0)
  PROVE  left[t] = 0
  <1>1. TicksPerSecond \in Nat \ {0} /\ Lifetime \in Nat
    BY TimeAssumption
  <1>2. left[t] \in Nat /\ phase \in 0..TicksPerSecond - 1
    BY <1>1 DEF TypeOK
  <1>3. denied[t] \in 0..Lifetime * TicksPerSecond /\ Lifetime * TicksPerSecond \in Nat
    BY <1>1, Times DEF TypeOK
  <1>4. denied[t] = 0
    BY <1>3
  <1>5. left[t] * TicksPerSecond < TicksPerSecond
    BY <1>1, <1>2, <1>4, Times DEF Covered
  <1>. QED
    BY <1>1, <1>2, <1>5, Times

\* Time covers what was covered: the key's last tick is not before the token's
\* last second is over.
LEMMA TickCovers ==
  ASSUME TypeOK, Tick, NEW t \in Token
  PROVE  /\ left'[t] <= left[t] /\ (denied'[t] > 0 => denied[t] > 0)
         /\ Covered(t) => Covered(t)'
         /\ TypeOK'
  <1>1. TicksPerSecond \in Nat \ {0} /\ Lifetime \in Nat \ {0}
    BY TimeAssumption
  <1>2. Lifetime * TicksPerSecond \in Nat
    BY <1>1, Times
  <1>3. phase \in 0..TicksPerSecond - 1 /\ phase' = (phase + 1) % TicksPerSecond
    BY DEF TypeOK, Tick
  <1>4. \/ phase' = phase + 1 /\ phase' # 0 /\ phase' < TicksPerSecond
        \/ phase' = 0 /\ phase = TicksPerSecond - 1
    <2>1. CASE phase + 1 < TicksPerSecond
      BY <1>1, <1>3, <2>1
    <2>2. CASE phase + 1 = TicksPerSecond
      BY <1>1, <1>3, <2>2
    <2>. QED
      BY <1>1, <1>3, <2>1, <2>2
  <1>5. ASSUME NEW u \in Token
        PROVE  /\ left[u] \in 0..Lifetime /\ denied[u] \in 0..Lifetime * TicksPerSecond
               /\ left'[u] = (IF phase' = 0 THEN Less(left[u]) ELSE left[u])
               /\ denied'[u] = Less(denied[u])
    BY DEF TypeOK, Tick
  <1>6. left'[t] <= left[t] /\ (denied'[t] > 0 => denied[t] > 0)
    BY <1>1, <1>2, <1>5 DEF Less
  <1>7. ASSUME Covered(t) PROVE Covered(t)'
    <2>1. left[t] * TicksPerSecond <= denied[t] + phase
      BY <1>7 DEF Covered
    <2>2. left[t] * TicksPerSecond \in Nat /\ left[t] \in Nat /\ denied[t] \in Nat
      BY <1>1, <1>2, <1>5, Times
    <2>3. CASE phase' # 0
      <3>1. left'[t] = left[t] /\ phase' = phase + 1 /\ denied'[t] + 1 >= denied[t]
        BY <1>2, <1>4, <1>5, <2>2, <2>3 DEF Less
      <3>2. denied'[t] \in Nat
        BY <1>5, <2>2 DEF Less
      <3>. QED
        BY <1>1, <1>3, <2>1, <2>2, <3>1, <3>2 DEF Covered
    <2>4. CASE phase' = 0 /\ left[t] = 0
      <3>1. left'[t] = 0 /\ denied'[t] \in Nat
        BY <1>5, <2>2, <2>4 DEF Less
      <3>. QED
        BY <1>1, <2>4, <3>1, Times DEF Covered
    <2>5. CASE phase' = 0 /\ left[t] # 0
      <3>1. left'[t] = left[t] - 1
        BY <1>5, <2>5 DEF Less
      <3>2. (left[t] - 1) * TicksPerSecond = left[t] * TicksPerSecond - TicksPerSecond
        BY <1>1, <2>2, <2>5, Times
      <3>3. left[t] * TicksPerSecond >= TicksPerSecond
        BY <1>1, <2>2, <2>5, Times
      <3>4. phase = TicksPerSecond - 1
        BY <1>1, <1>4, <2>5
      <3>5. denied[t] > 0
        BY <1>1, <2>1, <2>2, <3>3, <3>4
      <3>6. denied'[t] = denied[t] - 1
        BY <1>5, <2>2, <3>5 DEF Less
      <3>. QED
        BY <1>1, <2>1, <2>2, <2>5, <3>1, <3>2, <3>4, <3>6 DEF Covered
    <2>. QED
      BY <2>3, <2>4, <2>5
  <1>8. TypeOK'
    <2>1. phase' \in 0..TicksPerSecond - 1
      BY <1>1, <1>3, <1>4
    <2>2. left' \in [Token -> 0..Lifetime]
      BY <1>1, <1>5 DEF Tick, Less
    <2>3. denied' \in [Token -> 0..Lifetime * TicksPerSecond]
      BY <1>2, <1>5 DEF Tick, Less
    <2>4. RedisTypeOK'
      BY RedisTypes DEF TypeOK, Tick
    <2>. QED
      BY <2>1, <2>2, <2>3, <2>4 DEF TypeOK, Tick, Silent, AnswerState, NoAnswer
  <1>. QED
    BY <1>6, <1>7, <1>8

-----------------------------------------------------------------------------
(* What the steps share *)

\* A new token changes nothing of those handed out.
LEMMA Issuing ==
  ASSUME TypeOK, IssueToken \/ UNCHANGED <<issued, left>>
  PROVE  /\ issued' \subseteq Token /\ left' \in [Token -> 0..Lifetime]
         /\ issued \subseteq issued'
         /\ \A t \in issued : left'[t] = left[t]
  <1>1. issued \subseteq Token /\ left \in [Token -> 0..Lifetime]
    BY DEF TypeOK
  <1>2. Lifetime \in 0..Lifetime
    BY TimeAssumption
  <1>3. issued # Token => FreshToken \in Token \ issued
    BY <1>1 DEF FreshToken
  <1>4. CASE IssueToken
    BY <1>1, <1>2, <1>3, <1>4 DEF IssueToken
  <1>. QED
    BY <1>1, <1>4

\* A request that a step leaves alone keeps what is known of it, if the step
\* uncovers no token.
LEMMA OtherRequest ==
  ASSUME TypeOK, TypeOK', NEW q \in Caller, RequestOK(q),
         req'[q] = req[q], call'[q] = "ran" => call[q] = "ran",
         issued \subseteq issued', loggedOut \subseteq loggedOut',
         \A t \in issued : left'[t] <= left[t] /\ (Covered(t) => Covered(t)')
  PROVE  RequestOK(q)'
  <1>. DEFINE t == req[q].token
  <1>1. req[q] \in RequestState /\ Lifetime \in Nat
    BY TimeAssumption DEF TypeOK
  <1>2. loggedOut \subseteq issued /\ issued \subseteq Token
    BY DEF TypeOK
  <1>3. CASE req[q].cmd = "none"
    BY <1>2, <1>3 DEF RequestOK
  <1>4. CASE req[q].cmd # "none"
    <2>1. t \in issued /\ left'[t] <= left[t] /\ (Covered(t) => Covered(t)')
      BY <1>4 DEF RequestOK
    <2>2. left[t] \in 0..Lifetime /\ left'[t] \in 0..Lifetime
      BY <1>2, <2>1 DEF TypeOK
    <2>3. req[q].ttl \in 0..Lifetime
      BY <1>1 DEF RequestState
    <2>4. left[t] = 0 => left'[t] = 0
      BY <1>1, <2>1, <2>2
    <2>5. left[t] <= req[q].ttl => left'[t] <= req[q].ttl
      BY <1>1, <2>1, <2>2, <2>3
    <2>. QED
      BY <2>1, <2>4, <2>5 DEF RequestOK, Covered
  <1>. QED
    BY <1>3, <1>4

\* A step that leaves the clock and the keys alone, and logs out a covered token
\* at most.
LEMMA SameKeys ==
  ASSUME TypeOK, KeyInv, IssueToken \/ UNCHANGED <<issued, left>>,
         UNCHANGED <<phase, denied>>,
         \A t \in loggedOut' \ loggedOut : t \in issued /\ Covered(t)
  PROVE  /\ KeyInv'
         /\ \A t \in issued : left'[t] <= left[t] /\ (Covered(t) => Covered(t)')
  <1>1. /\ issued' \subseteq Token /\ left' \in [Token -> 0..Lifetime]
        /\ issued \subseteq issued' /\ \A t \in issued : left'[t] = left[t]
    BY Issuing
  <1>2. \A t \in issued : left[t] \in Nat
    BY TimeAssumption DEF TypeOK
  <1>3. \A t \in issued : left'[t] <= left[t] /\ (Covered(t) => Covered(t)')
    BY <1>1, <1>2 DEF Covered
  <1>4. loggedOut \subseteq issued
    BY DEF TypeOK
  <1>5. KeyInv'
    BY <1>1, <1>3, <1>4 DEF KeyInv
  <1>. QED
    BY <1>3, <1>5

\* A request that is answered.
LEMMA Answered ==
  ASSUME SInv, NEW r \in Caller, NEW a \in {"200", "204", "401", "500"},
         Answer(r, req[r], a), End(r),
         IssueToken \/ UNCHANGED <<issued, left>>, UNCHANGED <<phase, denied>>,
         loggedOut \subseteq loggedOut',
         \A t \in loggedOut' \ loggedOut : t \in issued /\ Covered(t)
  PROVE  TypeOK' /\ RequestInv' /\ KeyInv'
  <1>1. TypeOK /\ KeyInv /\ RequestInv
    BY DEF SInv
  <1>2. /\ issued' \subseteq Token /\ left' \in [Token -> 0..Lifetime]
        /\ issued \subseteq issued'
    BY <1>1, Issuing
  <1>3. KeyInv' /\ \A t \in issued : left'[t] <= left[t] /\ (Covered(t) => Covered(t)')
    BY <1>1, SameKeys
  <1>4. TypeOK'
    <2>1. RedisTypeOK'
      BY <1>1, RedisTypes DEF TypeOK
    <2>2. req' \in [Caller -> RequestState]
      BY <1>1, TimeAssumption DEF TypeOK, Answer, NoRequest, RequestState
    <2>3. answer' \in AnswerState
      BY <1>1 DEF TypeOK, Answer, AnswerState, RequestState
    <2>4. loggedOut' \subseteq issued'
      BY <1>1, <1>2 DEF TypeOK
    <2>. QED
      BY <1>1, <1>2, <2>1, <2>2, <2>3, <2>4 DEF TypeOK
  <1>5. RequestOK(r)'
    BY <1>1 DEF TypeOK, RequestOK, Answer, NoRequest
  <1>6. ASSUME NEW q \in Caller \ {r} PROVE RequestOK(q)'
    <2>1. call'[q] = call[q]
      BY <1>1, CallerSteps DEF TypeOK
    <2>2. req'[q] = req[q] /\ RequestOK(q)
      BY <1>1 DEF TypeOK, Answer, RequestInv
    <2>. QED
      BY <1>1, <1>2, <1>3, <1>4, <2>1, <2>2, OtherRequest
  <1>. QED
    BY <1>3, <1>4, <1>5, <1>6 DEF RequestInv

\* A step that no request takes part in.
LEMMA Unattended ==
  ASSUME SInv, Silent, TypeOK', KeyInv', UNCHANGED <<req, loggedOut>>,
         \A q \in Caller : call'[q] = "ran" => call[q] = "ran",
         issued \subseteq issued',
         \A t \in issued : left'[t] <= left[t] /\ (Covered(t) => Covered(t)')
  PROVE  SInv'
  <1>1. TypeOK /\ RequestInv
    BY DEF SInv
  <1>2. ASSUME NEW q \in Caller PROVE RequestOK(q)'
    <2>1. RequestOK(q) /\ req'[q] = req[q]
      BY <1>1 DEF RequestInv
    <2>. QED
      BY <1>1, <2>1, OtherRequest
  <1>3. AnswerInv'
    BY DEF AnswerInv, HonestRefusal, Silent, NoAnswer
  <1>. QED
    BY <1>2, <1>3 DEF SInv, RequestInv

-----------------------------------------------------------------------------
(* The steps *)

\* A request that stays under way: what it becomes must be in order.
LEMMA Becoming ==
  ASSUME SInv, NEW r \in Caller, NEW x \in RequestState, Become(r, x),
         Send(r) \/ Run(r), RequestOK(r)', TypeOK', KeyInv',
         UNCHANGED <<clock, loggedOut>>, \A t \in issued : Covered(t) => Covered(t)'
  PROVE  SInv'
  <1>1. TypeOK /\ RequestInv
    BY DEF SInv
  <1>2. ASSUME NEW q \in Caller \ {r} PROVE RequestOK(q)'
    <2>1. call'[q] = call[q]
      BY <1>1, CallerSteps DEF TypeOK
    <2>2. req'[q] = req[q] /\ RequestOK(q)
      BY <1>1 DEF TypeOK, Become, RequestInv
    <2>3. \A t \in issued : left'[t] <= left[t]
      BY <1>1, TimeAssumption DEF TypeOK, clock
    <2>. QED
      BY <1>1, <2>1, <2>2, <2>3, OtherRequest DEF clock
  <1>3. AnswerInv'
    BY DEF AnswerInv, HonestRefusal, Become, Silent, NoAnswer
  <1>. QED
    BY <1>2, <1>3 DEF SInv, RequestInv

LEMMA PresentKeeps ==
  ASSUME SInv, NEW r \in Caller, Present(r)
  PROVE  SInv'
  <1>1. TypeOK /\ KeyInv /\ RequestInv
    BY DEF SInv
  <1>2. PICK t \in issued, k \in Kind :
          LET x == [NoRequest EXCEPT !.kind = k, !.token = t, !.late = t \in loggedOut]
          IN IF left[t] = 0
             THEN Answer(r, x, "401") /\ UNCHANGED rvars
             ELSE Become(r, [x EXCEPT !.cmd = "get"]) /\ Send(r)
    BY DEF Present
  <1>. DEFINE x == [NoRequest EXCEPT !.kind = k, !.token = t, !.late = t \in loggedOut]
              y == [x EXCEPT !.cmd = "get"]
  <1>3. t \in Token /\ UNCHANGED <<clock, denied, loggedOut>>
    BY <1>1 DEF TypeOK, Present
  <1>4. x \in RequestState /\ y \in RequestState /\ x.token = t
    <2>1. PICK b \in BOOLEAN : b = (t \in loggedOut)
      <3>1. CASE t \in loggedOut
        <4>1. TRUE = (t \in loggedOut)
          BY <3>1
        <4>. QED
          BY <4>1
      <3>2. CASE t \notin loggedOut
        <4>1. FALSE = (t \in loggedOut)
          BY <3>2
        <4>. QED
          BY <4>1
      <3>. QED
        BY <3>1, <3>2
    <2>2. x = [NoRequest EXCEPT !.kind = k, !.token = t, !.late = b]
      BY <2>1
    <2>3. NoRequest \in RequestState /\ 0 \in 0..Lifetime
      BY TimeAssumption DEF NoRequest, RequestState
    <2>4. [NoRequest EXCEPT !.kind = k, !.token = t, !.late = b] \in RequestState
      BY <1>3, <2>1, <2>3 DEF RequestState
    <2>5. x \in RequestState
      BY <2>2, <2>4
    <2>6. x.token = t /\ y \in RequestState
      BY <2>2, <2>5 DEF RequestState, NoRequest
    <2>. QED
      BY <2>5, <2>6
  <1>5. KeyInv' /\ \A u \in issued : Covered(u) => Covered(u)'
    BY <1>1, <1>3 DEF KeyInv, Covered, clock
  <1>6. CASE left[t] = 0
    <2>1. Answer(r, x, "401") /\ UNCHANGED rvars
      BY <1>2, <1>6
    <2>2. RedisTypeOK'
      BY <1>1, <2>1, RedisTypes DEF TypeOK
    <2>3. req' \in [Caller -> RequestState]
      BY <1>1, <2>1, TimeAssumption DEF TypeOK, Answer, NoRequest, RequestState
    <2>4. answer' \in AnswerState
      BY <1>4, <2>1 DEF Answer, AnswerState, RequestState
    <2>5. TypeOK'
      BY <1>1, <1>3, <2>2, <2>3, <2>4 DEF TypeOK, clock
    <2>6. ASSUME NEW q \in Caller PROVE RequestOK(q)'
      <3>1. CASE q = r
        BY <1>1, <2>1, <3>1 DEF TypeOK, RequestOK, Answer, NoRequest
      <3>2. CASE q # r
        <4>1. req'[q] = req[q] /\ call'[q] = call[q] /\ RequestOK(q)
          BY <1>1, <2>1, <3>2 DEF TypeOK, Answer, rvars, RequestInv
        <4>. QED
          BY <1>3, <4>1 DEF RequestOK, Covered, clock
      <3>. QED
        BY <3>1, <3>2
    <2>7. AnswerInv'
      BY <1>3, <1>4, <1>6, <2>1 DEF AnswerInv, HonestRefusal, Answer, clock
    <2>. QED
      BY <1>5, <2>5, <2>6, <2>7 DEF SInv, RequestInv
  <1>7. CASE left[t] # 0
    <2>1. Become(r, y) /\ Send(r)
      BY <1>2, <1>7
    <2>2. RedisTypeOK'
      BY <1>1, <2>1, RedisTypes DEF TypeOK
    <2>3. req' \in [Caller -> RequestState] /\ answer' \in AnswerState
      BY <1>1, <1>4, <2>1 DEF TypeOK, Become, Silent, NoAnswer, AnswerState
    <2>4. TypeOK'
      BY <1>1, <1>3, <2>2, <2>3 DEF TypeOK, clock
    <2>5. call'[r] # "ran"
      BY <1>1, <2>1, CallerSteps DEF TypeOK
    <2>6. req'[r] = y
      BY <1>1, <2>1 DEF TypeOK, Become
    <2>7. /\ y.reply = FALSE /\ y.cmd = "get" /\ y.token = t
          /\ y.late = (t \in loggedOut)
      BY DEF NoRequest
    <2>8. RequestOK(r)'
      BY <1>3, <2>5, <2>6, <2>7 DEF RequestOK, clock
    <2>. QED
      BY <1>3, <1>4, <1>5, <2>1, <2>4, <2>8, Becoming
  <1>. QED
    BY <1>6, <1>7

LEMMA ExecuteKeeps ==
  ASSUME SInv, NEW r \in Caller, Execute(r)
  PROVE  SInv'
  <1>0. PICK t : t = req[r].token
    OBVIOUS
  <1>. DEFINE y == [req[r] EXCEPT !.reply = req[r].cmd = "get" /\ denied[t] > 0]
  <1>1. TypeOK /\ KeyInv /\ RequestOK(r)
    BY DEF SInv, RequestInv
  <1>2. Run(r) /\ Become(r, y) /\ UNCHANGED <<clock, loggedOut>>
    BY <1>0 DEF Execute
  <1>3. denied' = (IF req[r].cmd = "set"
                   THEN [denied EXCEPT ![t] = req[r].ttl * TicksPerSecond] ELSE denied)
    BY <1>0 DEF Execute
  <1>4. req[r] \in RequestState /\ issued \subseteq Token /\ loggedOut \subseteq issued
    BY <1>1 DEF TypeOK
  <1>5. y \in RequestState
    BY <1>4 DEF RequestState
  <1>6. Lifetime \in Nat /\ TicksPerSecond \in Nat \ {0} /\ phase \in Nat
    BY <1>1, TimeAssumption DEF TypeOK
  <1>7. ASSUME req[r].cmd = "set"
        PROVE  /\ t \in issued /\ denied'[t] = req[r].ttl * TicksPerSecond
               /\ denied' \in [Token -> 0..Lifetime * TicksPerSecond]
               /\ Covered(t)'
               /\ \A u \in Token \ {t} : denied'[u] = denied[u]
    <2>1. t \in issued /\ left[t] <= req[r].ttl
      BY <1>0, <1>1, <1>7 DEF RequestOK
    <2>2. t \in Token
      BY <1>4, <2>1
    <2>3. denied'[t] = req[r].ttl * TicksPerSecond
      BY <1>1, <1>3, <1>7, <2>2 DEF TypeOK
    <2>4. req[r].ttl \in Nat /\ req[r].ttl <= Lifetime /\ left[t] \in Nat
      BY <1>1, <1>4, <1>6, <2>2 DEF TypeOK, RequestState
    <2>5. /\ left[t] * TicksPerSecond <= req[r].ttl * TicksPerSecond
          /\ req[r].ttl * TicksPerSecond <= Lifetime * TicksPerSecond
          /\ left[t] * TicksPerSecond \in Nat
          /\ req[r].ttl * TicksPerSecond \in Nat
          /\ Lifetime * TicksPerSecond \in Nat
      BY <1>6, <2>1, <2>4, Times
    <2>6. denied' \in [Token -> 0..Lifetime * TicksPerSecond]
      BY <1>1, <1>3, <1>7, <2>2, <2>5 DEF TypeOK
    <2>7. Covered(t)'
      <3>1. left' = left /\ phase' = phase
        BY <1>2 DEF clock
      <3>2. left'[t] * TicksPerSecond <= denied'[t] + phase'
        BY <1>6, <2>3, <2>5, <3>1
      <3>. QED
        BY <3>2 DEF Covered
    <2>. QED
      BY <1>1, <1>3, <1>7, <2>1, <2>3, <2>6, <2>7 DEF TypeOK
  <1>8. \A u \in issued : Covered(u) => Covered(u)'
    <2>1. CASE req[r].cmd = "set"
      <3>1. ASSUME NEW u \in issued, u # t, Covered(u) PROVE Covered(u)'
        <4>1. denied'[u] = denied[u] /\ left' = left /\ phase' = phase
          BY <1>2, <1>4, <1>7, <2>1, <3>1 DEF clock
        <4>. QED
          BY <3>1, <4>1 DEF Covered
      <3>. QED
        BY <1>7, <2>1, <3>1
    <2>2. CASE req[r].cmd # "set"
      BY <1>2, <1>3, <2>2 DEF Covered, clock
    <2>. QED
      BY <2>1, <2>2
  <1>9. KeyInv'
    <2>1. CASE req[r].cmd = "set"
      <3>1. UNCHANGED <<issued, loggedOut>>
        BY <1>2 DEF clock
      <3>2. ASSUME NEW u \in Token, denied'[u] > 0 PROVE u \in issued
        BY <1>1, <1>7, <2>1, <3>2 DEF KeyInv
      <3>3. ASSUME NEW u \in Token, u \in loggedOut \/ denied'[u] > 0
            PROVE  Covered(u)'
        <4>1. CASE u = t
          BY <1>7, <2>1, <4>1
        <4>2. CASE u # t
          BY <1>1, <1>4, <1>7, <1>8, <2>1, <3>2, <3>3, <4>2 DEF KeyInv
        <4>. QED
          BY <4>1, <4>2
      <3>. QED
        BY <3>1, <3>2, <3>3 DEF KeyInv
    <2>2. CASE req[r].cmd # "set"
      BY <1>1, <1>2, <1>3, <2>2 DEF KeyInv, Covered, clock
    <2>. QED
      BY <2>1, <2>2
  <1>10. TypeOK'
    <2>1. RedisTypeOK'
      BY <1>1, <1>2, RedisTypes DEF TypeOK
    <2>2. req' \in [Caller -> RequestState] /\ answer' \in AnswerState
      BY <1>1, <1>2, <1>5 DEF TypeOK, Become, Silent, NoAnswer, AnswerState
    <2>3. denied' \in [Token -> 0..Lifetime * TicksPerSecond]
      BY <1>1, <1>3, <1>7 DEF TypeOK
    <2>. QED
      BY <1>1, <1>2, <2>1, <2>2, <2>3 DEF TypeOK, clock
  <1>11. RequestOK(r)'
    <2>1. req'[r] = y
      BY <1>1, <1>2 DEF TypeOK, Become
    <2>2. /\ y.cmd = req[r].cmd /\ y.token = t /\ y.late = req[r].late
          /\ y.ttl = req[r].ttl /\ y.reply = (req[r].cmd = "get" /\ denied[t] > 0)
      BY <1>0, <1>4 DEF RequestState
    <2>3. UNCHANGED <<issued, left, phase, loggedOut>>
      BY <1>2 DEF clock
    <2>4. req[r].cmd = "set" => Covered(t)'
      BY <1>7
    <2>5. ASSUME req[r].cmd = "get" PROVE t \in issued /\ t \in Token
      BY <1>0, <1>1, <1>4, <2>5 DEF RequestOK
    <2>6. ASSUME y.reply PROVE Covered(t)'
      <3>1. req[r].cmd = "get" /\ denied[t] > 0
        BY <2>2, <2>6
      <3>2. Covered(t)
        BY <1>1, <2>5, <3>1 DEF KeyInv
      <3>. QED
        BY <1>8, <2>5, <3>1, <3>2
    <2>7. req[r].cmd = "get" /\ ~y.reply /\ req[r].late => left[t] = 0
      BY <1>0, <1>1, <2>2, <2>5, NoKeyNoToken DEF KeyInv, RequestOK
    <2>. QED
      BY <1>0, <1>1, <2>1, <2>2, <2>3, <2>4, <2>6, <2>7 DEF RequestOK, Covered
  <1>. QED
    BY <1>2, <1>5, <1>8, <1>9, <1>10, <1>11, Becoming

\* What an answer that ends a request says about its token.
LEMMA AnswerInOrder ==
  ASSUME SInv, NEW r \in Caller, NEW a \in {"200", "204", "401", "500"},
         Answer(r, req[r], a), IssueToken \/ UNCHANGED <<issued, left>>,
         UNCHANGED denied, req[r].late \/ a = "401" => req[r].token \in issued,
         a \in {"200", "204"} /\ req[r].late => left[req[r].token] = 0,
         a = "401" => left[req[r].token] = 0 \/ denied[req[r].token] > 0
  PROVE  AnswerInv'
  <1>1. \A t \in issued : left'[t] = left[t]
    BY Issuing DEF SInv
  <1>2. /\ answer'.token = req[r].token /\ answer'.late = req[r].late
        /\ answer'.status = a
    BY DEF Answer
  <1>. QED
    BY <1>1, <1>2 DEF AnswerInv, HonestRefusal

LEMMA ReplyKeeps ==
  ASSUME SInv, NEW r \in Caller, Reply(r)
  PROVE  SInv'
  <1>1. TypeOK /\ KeyInv /\ RequestOK(r)
    BY DEF SInv, RequestInv
  <1>2. loggedOut \subseteq issued /\ issued \subseteq Token /\ req[r] \in RequestState
    BY <1>1 DEF TypeOK
  <1>3. req[r].late => req[r].token \in issued
    BY <1>1, <1>2 DEF RequestOK
  <1>4. CASE RedisFailed(r)
    <2>1. Answer(r, req[r], "500") /\ End(r) /\ UNCHANGED <<clock, denied, loggedOut>>
      BY <1>4 DEF RedisFailed, OnError
    <2>2. TypeOK' /\ RequestInv' /\ KeyInv'
      BY <2>1, Answered DEF clock
    <2>3. AnswerInv'
      BY <1>3, <2>1, AnswerInOrder DEF clock
    <2>. QED
      BY <2>2, <2>3 DEF SInv
  <1>5. CASE Refuse(r)
    <2>1. Answer(r, req[r], "401") /\ End(r) /\ UNCHANGED <<clock, denied, loggedOut>>
      BY <1>5 DEF Refuse
    <2>2. req[r].token \in issued /\ Covered(req[r].token)
      BY <1>1, <1>5 DEF Refuse, Replied, RequestOK
    <2>3. left[req[r].token] = 0 \/ denied[req[r].token] > 0
      BY <1>1, <1>2, <2>2, NoKeyNoToken
    <2>4. TypeOK' /\ RequestInv' /\ KeyInv'
      BY <2>1, Answered DEF clock
    <2>5. AnswerInv'
      BY <2>1, <2>2, <2>3, AnswerInOrder DEF clock
    <2>. QED
      BY <2>4, <2>5 DEF SInv
  <1>6. ASSUME NEW k \in Kind, Admitted(r, k), req[r].late
        PROVE  left[req[r].token] = 0
    BY <1>1, <1>6 DEF Admitted, Replied, RequestOK
  <1>7. CASE CurrentUser(r) \/ UpdateUser(r)
    <2>1. /\ Answer(r, req[r], "200") /\ End(r)
          /\ IssueToken \/ UNCHANGED <<issued, left>>
          /\ UNCHANGED <<phase, denied, loggedOut>>
      BY <1>7 DEF CurrentUser, UpdateUser, clock
    <2>2. req[r].late => left[req[r].token] = 0
      BY <1>6, <1>7 DEF CurrentUser, UpdateUser, Kind
    <2>3. TypeOK' /\ RequestInv' /\ KeyInv'
      BY <2>1, Answered
    <2>4. AnswerInv'
      BY <1>3, <2>1, <2>2, AnswerInOrder
    <2>. QED
      BY <2>3, <2>4 DEF SInv
  <1>8. CASE Logout(r)
    <2>. DEFINE y == [req[r] EXCEPT !.cmd = "set", !.ttl = left[req[r].token]]
    <2>1. req[r].token \in issued /\ (req[r].late => left[req[r].token] = 0)
      BY <1>1, <1>6, <1>8 DEF Logout, Admitted, RequestOK, Kind
    <2>2. left[req[r].token] \in 0..Lifetime /\ req[r].token \in Token
      BY <1>1, <1>2, <2>1 DEF TypeOK
    <2>3. UNCHANGED <<clock, denied>>
      BY <1>8 DEF Logout
    <2>4. CASE left[req[r].token] = 0
      <3>1. /\ Answer(r, req[r], "204") /\ End(r)
            /\ loggedOut' = loggedOut \cup {req[r].token}
        BY <1>8, <2>4 DEF Logout, DenyTtl
      <3>2. Covered(req[r].token)
        <4>1. TicksPerSecond \in Nat /\ Lifetime * TicksPerSecond \in Nat
          BY TimeAssumption, Times
        <4>2. denied[req[r].token] \in Nat /\ phase \in Nat
          BY <1>1, <2>2, <4>1, TimeAssumption DEF TypeOK
        <4>. QED
          BY <2>4, <4>1, <4>2 DEF Covered
      <3>3. TypeOK' /\ RequestInv' /\ KeyInv'
        BY <2>1, <2>3, <3>1, <3>2, Answered DEF clock
      <3>4. AnswerInv'
        BY <1>3, <2>1, <2>3, <2>4, <3>1, AnswerInOrder DEF clock
      <3>. QED
        BY <3>3, <3>4 DEF SInv
    <2>5. CASE left[req[r].token] # 0
      <3>1. Become(r, y) /\ Send(r) /\ UNCHANGED loggedOut
        <4>1. ~(left[req[r].token] <= 0)
          BY <2>2, <2>5, TimeAssumption
        <4>. QED
          BY <1>8, <4>1 DEF Logout, DenyTtl
      <3>2. y \in RequestState
        BY <1>2, <2>2 DEF RequestState
      <3>3. KeyInv' /\ \A u \in issued : Covered(u) => Covered(u)'
        BY <1>1, <2>3, <3>1 DEF KeyInv, Covered, clock
      <3>4. TypeOK'
        <4>1. RedisTypeOK'
          BY <1>1, <3>1, RedisTypes DEF TypeOK
        <4>2. req' \in [Caller -> RequestState] /\ answer' \in AnswerState
          BY <1>1, <3>1, <3>2 DEF TypeOK, Become, Silent, NoAnswer, AnswerState
        <4>. QED
          BY <1>1, <2>3, <3>1, <4>1, <4>2 DEF TypeOK, clock
      <3>5. RequestOK(r)'
        <4>1. call'[r] # "ran"
          BY <1>1, <3>1, CallerSteps DEF TypeOK
        <4>2. req'[r] = y
          BY <1>1, <3>1 DEF TypeOK, Become
        <4>3. /\ y.reply = req[r].reply /\ y.cmd = "set" /\ y.token = req[r].token
              /\ y.late = req[r].late /\ y.ttl = left[req[r].token]
          BY <1>2 DEF RequestState
        <4>4. ~req[r].reply /\ ~req[r].late
          BY <1>8, <2>1, <2>5 DEF Logout, Admitted
        <4>5. left[req[r].token] <= left[req[r].token]
          BY <2>2, TimeAssumption
        <4>. QED
          BY <2>1, <2>3, <3>1, <4>1, <4>2, <4>3, <4>4, <4>5 DEF RequestOK, clock
      <3>. QED
        BY <2>3, <3>1, <3>2, <3>3, <3>4, <3>5, Becoming
    <2>. QED
      BY <2>4, <2>5
  <1>9. CASE LogoutReplied(r)
    <2>1. /\ Answer(r, req[r], "204") /\ End(r) /\ UNCHANGED <<clock, denied>>
          /\ loggedOut' = loggedOut \cup {req[r].token}
      BY <1>9 DEF LogoutReplied
    <2>2. /\ req[r].token \in issued /\ Covered(req[r].token)
          /\ req[r].late => left[req[r].token] = 0
      BY <1>1, <1>9 DEF LogoutReplied, Replied, RequestOK
    <2>3. TypeOK' /\ RequestInv' /\ KeyInv'
      BY <2>1, <2>2, Answered DEF clock
    <2>4. AnswerInv'
      BY <2>1, <2>2, AnswerInOrder DEF clock
    <2>. QED
      BY <2>3, <2>4 DEF SInv
  <1>. QED
    BY <1>4, <1>5, <1>7, <1>8, <1>9 DEF Reply

LEMMA LoginKeeps ==
  ASSUME SInv, Login
  PROVE  SInv'
  <1>1. TypeOK /\ KeyInv
    BY DEF SInv
  <1>2. /\ IssueToken /\ Silent
        /\ UNCHANGED <<rvars, phase, denied, req, loggedOut>>
    BY DEF Login
  <1>3. /\ issued' \subseteq Token /\ left' \in [Token -> 0..Lifetime]
        /\ issued \subseteq issued'
    BY <1>1, <1>2, Issuing
  <1>4. KeyInv' /\ \A t \in issued : left'[t] <= left[t] /\ (Covered(t) => Covered(t)')
    BY <1>1, <1>2, SameKeys
  <1>5. TypeOK'
    <2>1. RedisTypeOK'
      BY <1>1, <1>2, RedisTypes DEF TypeOK
    <2>. QED
      BY <1>1, <1>2, <1>3, <2>1 DEF TypeOK, Silent, NoAnswer, AnswerState
  <1>6. \A q \in Caller : call'[q] = call[q]
    BY <1>2 DEF rvars
  <1>. QED
    BY <1>2, <1>3, <1>4, <1>5, <1>6, Unattended

LEMMA TickKeeps ==
  ASSUME SInv, Tick
  PROVE  SInv'
  <1>1. TypeOK /\ KeyInv /\ issued \subseteq Token
    BY DEF SInv, TypeOK
  <1>2. UNCHANGED <<rvars, issued, req, loggedOut>> /\ Silent
    BY DEF Tick
  <1>3. TypeOK'
    <2>1. CASE Token = {}
      <3>1. phase' \in 0..TicksPerSecond - 1
        BY <1>1, TimeAssumption DEF TypeOK, Tick
      <3>2. RedisTypeOK'
        BY <1>1, <1>2, RedisTypes DEF TypeOK
      <3>. QED
        BY <1>1, <1>2, <2>1, <3>1, <3>2 DEF TypeOK, Tick, Silent, NoAnswer, AnswerState
    <2>. QED
      BY <1>1, <2>1, TickCovers
  <1>4. \A t \in issued : left'[t] <= left[t] /\ (Covered(t) => Covered(t)')
    BY <1>1, TickCovers
  <1>5. KeyInv'
    BY <1>1, <1>2, TickCovers DEF KeyInv
  <1>6. \A q \in Caller : call'[q] = call[q]
    BY <1>2 DEF rvars
  <1>. QED
    BY <1>2, <1>3, <1>4, <1>5, <1>6, Unattended

LEMMA NetworkKeeps ==
  ASSUME SInv, Network \/ Flip, Redis
  PROVE  SInv'
  <1>1. TypeOK /\ KeyInv /\ issued \subseteq Token
    BY DEF SInv, TypeOK
  <1>2. Silent /\ UNCHANGED <<clock, denied, req, loggedOut>>
    BY DEF Redis
  <1>3. TypeOK'
    <2>1. RedisTypeOK'
      BY <1>1, RedisTypes DEF TypeOK
    <2>. QED
      BY <1>1, <1>2, <2>1 DEF TypeOK, clock, Silent, NoAnswer, AnswerState
  <1>4. KeyInv' /\ \A t \in issued : left'[t] <= left[t] /\ (Covered(t) => Covered(t)')
    <2>1. \A t \in issued : left[t] <= left[t]
      BY <1>1, TimeAssumption DEF TypeOK
    <2>. QED
      BY <1>1, <1>2, <2>1 DEF KeyInv, Covered, clock
  <1>5. \A q \in Caller : call'[q] = "ran" => call[q] = "ran"
    BY <1>1, NetworkSteps DEF TypeOK
  <1>. QED
    BY <1>2, <1>3, <1>4, <1>5, Unattended DEF clock

-----------------------------------------------------------------------------
LEMMA InitSInv == ASSUME Init PROVE SInv
  <1>1. TicksPerSecond \in Nat \ {0} /\ Lifetime \in Nat \ {0}
    BY TimeAssumption
  <1>2. Lifetime * TicksPerSecond \in Nat
    BY <1>1, Times
  <1>3. TypeOK
    <2>1. req \in [Caller -> RequestState]
      BY <1>1 DEF Init, NoRequest, RequestState
    <2>2. RedisTypeOK
      BY DEF Init, RedisInit, RedisTypeOK
    <2>. QED
      BY <1>1, <1>2, <2>1, <2>2 DEF Init, TypeOK, NoAnswer, AnswerState
  <1>4. RequestInv
    BY DEF Init, RequestInv, RequestOK, NoRequest
  <1>5. KeyInv
    BY DEF Init, KeyInv
  <1>6. AnswerInv
    BY DEF Init, AnswerInv, HonestRefusal, NoAnswer
  <1>. QED
    BY <1>3, <1>4, <1>5, <1>6 DEF SInv

LEMMA StepSInv == ASSUME SInv, [Next]_vars PROVE SInv'
  <1>1. CASE Login
    BY <1>1, LoginKeeps
  <1>2. CASE Tick
    BY <1>2, TickKeeps
  <1>3. ASSUME NEW r \in Caller, Present(r) \/ Execute(r) \/ Reply(r) PROVE SInv'
    BY <1>3, PresentKeeps, ExecuteKeeps, ReplyKeeps
  <1>4. CASE (Network \/ Flip) /\ Redis
    BY <1>4, NetworkKeeps
  <1>5. CASE UNCHANGED vars
    BY <1>5 DEF vars, rvars, clock, SInv, TypeOK, RedisTypeOK, RequestInv, RequestOK,
                KeyInv, Covered, AnswerInv, HonestRefusal
  <1>. QED
    BY <1>1, <1>2, <1>3, <1>4, <1>5 DEF Next

\* The inductive invariant holds in every reachable state.
THEOREM Invariance == Spec => []SInv
  <1>1. Init => SInv
    BY InitSInv
  <1>2. SInv /\ [Next]_vars => SInv'
    BY StepSInv
  <1>. QED
    BY <1>1, <1>2, PTL DEF Spec

\* Once a logout is answered with 204, no request that begins afterwards gets
\* through with its token, whatever becomes of Redis and however often the SET
\* or the GET is sent.
THEOREM LogoutIsFinal == Spec => []LogoutSticks
  <1>1. SInv => LogoutSticks
    BY DEF SInv, AnswerInv, LogoutSticks, RequestInv, RequestOK
  <1>. QED
    BY <1>1, Invariance, PTL

\* The deny-list key of a token that was logged out lives as long as the token.
THEOREM KeyOutlivesToken == Spec => []DeniedUntilExpiry
  <1>1. SInv => DeniedUntilExpiry
    BY DEF SInv, TypeOK, KeyInv, Covered, DeniedUntilExpiry
  <1>. QED
    BY <1>1, Invariance, PTL

\* A 401 is never the answer to a token that is valid and not denied.
THEOREM RefusalIsTrue == Spec => []HonestRefusal
  <1>1. SInv => HonestRefusal
    BY DEF SInv, AnswerInv
  <1>. QED
    BY <1>1, Invariance, PTL

-----------------------------------------------------------------------------
(* The login limiter *)

\* The limiter's connection keeps the types of its variables.
LEMMA LimiterRedisTypes ==
  ASSUME L!RedisTypeOK,
         \/ \E r \in LoginCaller : L!Send(r) \/ L!Run(r) \/ L!End(r)
         \/ L!Network \/ L!Flip \/ UNCHANGED L!rvars
  PROVE  L!RedisTypeOK'
  BY DEF L!RedisTypeOK, L!Send, L!Run, L!End, L!Goto, L!Network, L!Opened, L!OpenFails,
         L!Reopen, L!Break, L!MoveAll, L!Flip, L!rvars

CountInv == \A k \in L!Key : passed[k] <= hits[k].count /\ passed[k] <= MaxAttempts

LInv == L!TypeOK /\ CountInv

-----------------------------------------------------------------------------
\* INCR and PEXPIRE of one key, below and above the bound of the count.
LEMMA OneHit ==
  ASSUME NEW h \in L!Counter
  PROVE  /\ L!Hit(h) \in L!Counter
         /\ L!Hit(h).count >= h.count
         /\ L!Hit(h).count <= MaxAttempts => L!Hit(h).count = h.count + 1
  <1>1. MaxAttempts \in Nat /\ Window \in Nat \ {0}
    BY LimiterAssumption DEF L!LimiterAssumption
  <1>2. h.count \in 0..MaxAttempts + 1 /\ h.ttl \in 0..Window
    BY DEF L!Counter
  <1>. QED
    BY <1>1, <1>2 DEF L!Hit, L!Counter

\* An attempt whose script runs.
LEMMA ConsumeKeeps ==
  ASSUME LInv, NEW r \in LoginCaller, L!Consume(r)
  PROVE  LInv'
  <1>. DEFINE ks == {login[r].email, login[r].ip}
  <1>1. MaxAttempts \in Nat
    BY LimiterAssumption DEF L!LimiterAssumption
  <1>2. hits \in [L!Key -> L!Counter] /\ passed \in [L!Key -> 0..2 * MaxAttempts + 1]
    BY DEF LInv, L!TypeOK
  <1>3. ASSUME NEW k \in L!Key
        PROVE  /\ hits'[k] \in L!Counter
               /\ passed'[k] \in Nat /\ passed'[k] <= hits'[k].count
               /\ passed'[k] <= MaxAttempts
    <2>1. hits[k] \in L!Counter /\ hits[k].count \in Nat /\ passed[k] \in Nat
      BY <1>1, <1>2 DEF L!Counter
    <2>2. passed[k] <= hits[k].count /\ passed[k] <= MaxAttempts
      BY DEF LInv, CountInv
    <2>3. CASE k \notin ks
      BY <1>2, <2>1, <2>2, <2>3 DEF L!Consume
    <2>4. CASE k \in ks /\ L!Limited(ks)
      <3>1. hits'[k] = L!Hit(hits[k]) /\ passed'[k] = passed[k]
        BY <1>2, <2>4 DEF L!Consume
      <3>2. L!Hit(hits[k]) \in L!Counter /\ L!Hit(hits[k]).count >= hits[k].count
        BY <2>1, OneHit
      <3>3. L!Hit(hits[k]).count \in Nat
        BY <1>1, <3>2 DEF L!Counter
      <3>. QED
        BY <2>1, <2>2, <3>1, <3>2, <3>3
    <2>5. CASE k \in ks /\ ~L!Limited(ks)
      <3>1. hits'[k] = L!Hit(hits[k]) /\ passed'[k] = passed[k] + 1
        BY <1>2, <2>5 DEF L!Consume
      <3>2. L!Hit(hits[k]) \in L!Counter
        BY <2>1, OneHit
      <3>3. L!Hit(hits[k]).count \in Nat
        BY <1>1, <3>2 DEF L!Counter
      <3>4. L!Hit(hits[k]).count <= MaxAttempts
        BY <1>1, <2>5, <3>3 DEF L!Limited
      <3>5. L!Hit(hits[k]).count = hits[k].count + 1
        BY <2>1, <3>4, OneHit
      <3>. QED
        BY <1>1, <2>1, <2>2, <3>1, <3>2, <3>4, <3>5
    <2>. QED
      BY <2>3, <2>4, <2>5
  <1>4. hits' \in [L!Key -> L!Counter]
    <2>1. hits' = [k \in L!Key |-> hits'[k]]
      BY DEF L!Consume
    <2>. QED
      BY <1>3, <2>1
  <1>5. passed' \in [L!Key -> 0..2 * MaxAttempts + 1]
    <2>1. passed' = [k \in L!Key |-> passed'[k]]
      BY DEF L!Consume
    <2>. QED
      BY <1>1, <1>3, <2>1
  <1>6. login' \in [LoginCaller -> L!LoginState]
    <2>1. login \in [LoginCaller -> L!LoginState] /\ L!Limited(ks) \in BOOLEAN
      BY DEF LInv, L!TypeOK, L!Limited
    <2>2. login' = [login EXCEPT ![r].limited = L!Limited(ks)]
      BY DEF L!Consume
    <2>. QED
      BY <2>1, <2>2 DEF L!LoginState
  <1>7. L!RedisTypeOK'
    BY LimiterRedisTypes DEF LInv, L!TypeOK, L!Consume
  <1>. QED
    BY <1>3, <1>4, <1>5, <1>6, <1>7 DEF LInv, L!TypeOK, CountInv

\* A tick drops a counter and what it let through together.
LEMMA CountersTick ==
  ASSUME LInv, L!Tick
  PROVE  LInv'
  <1>1. MaxAttempts \in Nat /\ Window \in Nat \ {0}
    BY LimiterAssumption DEF L!LimiterAssumption
  <1>2. hits \in [L!Key -> L!Counter] /\ passed \in [L!Key -> 0..2 * MaxAttempts + 1]
    BY DEF LInv, L!TypeOK
  <1>3. hits' \in [L!Key -> L!Counter]
    BY <1>1, <1>2 DEF L!Tick, L!Counter
  <1>4. passed' \in [L!Key -> 0..2 * MaxAttempts + 1]
    BY <1>1, <1>2 DEF L!Tick
  <1>5. CountInv'
    BY <1>1, <1>2 DEF LInv, CountInv, L!Tick, L!Counter
  <1>6. L!RedisTypeOK' /\ login' \in [LoginCaller -> L!LoginState]
    BY LimiterRedisTypes DEF LInv, L!TypeOK, L!Tick, L!rvars
  <1>. QED
    BY <1>3, <1>4, <1>5, <1>6 DEF LInv, L!TypeOK

-----------------------------------------------------------------------------
LEMMA InitLInv == ASSUME L!Init PROVE LInv
  BY LimiterAssumption DEF L!LimiterAssumption, L!Init, L!RedisInit, LInv, L!TypeOK, L!RedisTypeOK, CountInv,
         L!Counter, L!LoginState, L!NoLogin

LEMMA StepLInv ==
  ASSUME LInv, [L!Next]_L!vars
  PROVE  LInv'
  <1>1. ASSUME NEW r \in LoginCaller, L!Attempt(r) PROVE LInv'
    <2>1. L!RedisTypeOK'
      BY <1>1, LimiterRedisTypes DEF LInv, L!TypeOK, L!Attempt
    <2>2. login' \in [LoginCaller -> L!LoginState]
      BY <1>1 DEF LInv, L!TypeOK, L!Attempt, L!LoginState
    <2>. QED
      BY <1>1, <2>1, <2>2 DEF LInv, L!TypeOK, CountInv, L!Attempt
  <1>2. ASSUME NEW r \in LoginCaller, L!Consume(r) PROVE LInv'
    BY <1>2, ConsumeKeeps
  <1>3. ASSUME NEW r \in LoginCaller, L!Answer(r) PROVE LInv'
    <2>1. L!RedisTypeOK'
      BY <1>3, LimiterRedisTypes DEF LInv, L!TypeOK, L!Answer
    <2>2. login' \in [LoginCaller -> L!LoginState]
      BY <1>3 DEF LInv, L!TypeOK, L!Answer, L!LoginState, L!NoLogin
    <2>. QED
      BY <1>3, <2>1, <2>2 DEF LInv, L!TypeOK, CountInv, L!Answer
  <1>4. CASE L!NetworkStep
    <2>1. L!RedisTypeOK'
      BY <1>4, LimiterRedisTypes DEF LInv, L!TypeOK, L!NetworkStep
    <2>. QED
      BY <1>4, <2>1 DEF LInv, L!TypeOK, CountInv, L!NetworkStep
  <1>5. CASE L!Flip /\ UNCHANGED <<hits, login, passed>>
    <2>1. L!RedisTypeOK'
      BY <1>5, LimiterRedisTypes DEF LInv, L!TypeOK
    <2>. QED
      BY <1>5, <2>1 DEF LInv, L!TypeOK, CountInv
  <1>6. CASE L!Tick
    BY <1>6, CountersTick
  <1>7. CASE UNCHANGED L!vars
    <2>1. L!RedisTypeOK'
      BY <1>7, LimiterRedisTypes DEF LInv, L!TypeOK, L!vars
    <2>. QED
      BY <1>7, <2>1 DEF LInv, L!TypeOK, CountInv, L!vars
  <1>. QED
    BY <1>1, <1>2, <1>3, <1>4, <1>5, <1>6, <1>7 DEF L!Next

\* A window of an e-mail address or of an IP address lets at most MaxAttempts
\* attempts through, however many requests race and however often the
\* connection to Redis makes one of them count twice.
THEOREM AtMostMaxAttempts == L!Spec => []WindowBound
  <1>1. L!Init => LInv
    BY InitLInv
  <1>2. LInv /\ [L!Next]_L!vars => LInv'
    BY StepLInv
  <1>3. LInv => WindowBound
    BY DEF LInv, CountInv, WindowBound, L!WindowBound
  <1>. QED
    BY <1>1, <1>2, <1>3, PTL DEF L!Spec

=============================================================================
