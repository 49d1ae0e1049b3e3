------------------------------- MODULE MCAuth -------------------------------
(* Instances of AuthSession and LoginRateLimiter for TLC.  They share no      *)
(* variable, since each has a Redis connection of its own: a behaviour is one *)
(* of either, chosen at the start, so that TLC explores both but not their    *)
(* product.                                                                   *)
EXTENDS AuthSession

CONSTANTS LoginCaller, Email, Address, MaxAttempts, Window

VARIABLES side, lup, lready, lstatus, lcall, hits, login, passed

L == INSTANCE LoginRateLimiter WITH
       Caller <- LoginCaller, up <- lup, ready <- lready, status <- lstatus, call <- lcall

ASSUME LimiterAssumption == L!LimiterAssumption

lvars == <<lup, lready, lstatus, lcall, hits, login, passed>>
MCVars == <<side, vars, lvars>>

SessionStep == side = "session" /\ Next /\ UNCHANGED <<side, lvars>>
LimiterStep == side = "limiter" /\ L!Next /\ UNCHANGED <<side, vars>>

MCInit ==
  /\ side \in {"session", "limiter"} /\ Init /\ L!Init
  /\ side = "session" => lup
  /\ side = "limiter" => up
MCNext == SessionStep \/ LimiterStep

MCSafetySpec == MCInit /\ [][MCNext]_MCVars

\* The fairness of AuthSession on one side, of LoginRateLimiter on the other.
OnSession(A) == side = "session" /\ A /\ UNCHANGED <<side, lvars>>
OnLimiter(A) == side = "limiter" /\ A /\ UNCHANGED <<side, vars>>

MCSpec ==
  /\ MCSafetySpec
  /\ WF_MCVars(OnSession(Network /\ Redis))
  /\ \A r \in Caller :
       SF_MCVars(OnSession(Execute(r))) /\ SF_MCVars(OnSession(Reply(r)))
  /\ WF_MCVars(OnLimiter(L!Tick))
  /\ WF_MCVars(OnLimiter(L!NetworkStep))
  /\ \A r \in LoginCaller :
       SF_MCVars(OnLimiter(L!Consume(r))) /\ SF_MCVars(OnLimiter(L!Answer(r)))

\* Within one window of an e-mail address, or of an IP address, at most
\* MaxAttempts login attempts get as far as the password.
WindowBound == L!WindowBound
\* Whoever is locked out of logging in is let in again (auth-login-rate-limiter.ts).
LockoutEnds == L!LockoutEnds
=============================================================================
