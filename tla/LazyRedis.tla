----------------------------- MODULE LazyRedis -----------------------------
(***************************************************************************)
(* The Redis connection of RedisTokenDenyListClient and, line for line the *)
(* same, of AuthLoginRateLimiter: an ioredis client that the first command *)
(* connects, through a promise all commands share, and that afterwards     *)
(* reconnects by itself.  AuthSession and LoginRateLimiter say what the    *)
(* commands are.                                                           *)
(***************************************************************************)
CONSTANT Caller    \* requests that send one command at a time

VARIABLES
  up,       \* Redis can be reached
  ready,    \* the field connectionReady: undefined, pending or fulfilled
  status,   \* the state of the ioredis client
  call      \* what became of the caller's command

rvars == <<up, ready, status, call>>

-----------------------------------------------------------------------------
(* State *)

\* await: for the connection; sent: the command is on its way to Redis; ran: so
\* is its reply; lost: the connection broke meanwhile.
RedisTypeOK ==
  /\ up \in BOOLEAN
  /\ ready \in {"none", "pending", "open"}
  /\ status \in {"wait", "connecting", "ready", "reconnecting"}
  /\ call \in [Caller -> {"idle", "await", "sent", "ran", "lost", "failed"}]

RedisInit ==
  /\ up \in BOOLEAN
  /\ ready = "none"
  /\ status = "wait"
  /\ call = [r \in Caller |-> "idle"]

Goto(r, l) == call' = [call EXCEPT ![r] = l]
Replied(r) == call[r] = "ran" /\ status = "ready"
Failed(r) == call[r] = "failed"
MoveAll(from, to) ==
  call' = [r \in Caller |-> IF call[r] \in from THEN to ELSE call[r]]

-----------------------------------------------------------------------------
(* The caller *)

\* connect(), then the command.  ioredis rejects connect() unless the client
\* waits or is between two attempts, and has no queue while it is offline.
Send(r) ==
  \/ /\ ready = "none" /\ status \in {"wait", "reconnecting"}
     /\ ready' = "pending" /\ status' = "connecting"
     /\ Goto(r, "await") /\ UNCHANGED up
  \/ /\ ready = "none" /\ status \in {"connecting", "ready"}
     /\ Goto(r, "failed") /\ UNCHANGED <<up, ready, status>>
  \/ /\ ready = "pending"
     /\ Goto(r, "await") /\ UNCHANGED <<up, ready, status>>
  \/ /\ ready = "open"
     /\ Goto(r, IF status = "ready" THEN "sent" ELSE "failed")
     /\ UNCHANGED <<up, ready, status>>

End(r) == Goto(r, "idle") /\ UNCHANGED <<up, ready, status>>

-----------------------------------------------------------------------------
(* The ioredis client and Redis *)

\* The connection is ready: the promise, if any, is fulfilled, and commands cut
\* off by the last break are sent again.
Opened ==
  /\ status = "connecting" /\ up
  /\ status' = "ready"
  /\ ready' = IF ready = "pending" THEN "open" ELSE ready
  /\ MoveAll({"await", "lost"}, "sent")
  /\ UNCHANGED up

\* Mutant: the rejection does not reach the requests that wait for it.
OpenFailsUnheard ==
  /\ status = "connecting" /\ ~up
  /\ status' = "reconnecting"
  /\ ready' = IF ready = "pending" THEN "none" ELSE ready
  /\ MoveAll({"lost"}, "failed")
  /\ UNCHANGED up

\* An attempt fails: the promise is forgotten, whoever waits for it fails, and
\* so does a command that was cut off (maxRetriesPerRequest: 1); ioredis
\* schedules an attempt of its own.
OpenFails ==
  /\ status = "connecting" /\ ~up
  /\ status' = "reconnecting"
  /\ ready' = IF ready = "pending" THEN "none" ELSE ready
  /\ MoveAll({"await", "lost"}, "failed")
  /\ UNCHANGED up

\* ioredis' retryStrategy.
Reopen ==
  /\ status = "reconnecting"
  /\ status' = "connecting"
  /\ UNCHANGED <<up, ready, call>>

\* An open connection breaks; whether the commands under way ran is not known.
Break ==
  /\ status = "ready" /\ ~up
  /\ status' = "reconnecting"
  /\ MoveAll({"sent", "ran"}, "lost")
  /\ UNCHANGED <<up, ready>>

\* Redis becomes unreachable, or reachable again with the keys it had.
Flip == up' = ~up /\ UNCHANGED <<ready, status, call>>

\* Redis runs a command; the module that extends this one says what it does.
Run(r) ==
  /\ call[r] = "sent" /\ status = "ready" /\ up
  /\ Goto(r, "ran")
  /\ UNCHANGED <<up, ready, status>>

Network == Opened \/ OpenFails \/ Reopen \/ Break
=============================================================================
