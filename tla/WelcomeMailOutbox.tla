-------------------------- MODULE WelcomeMailOutbox --------------------------
(***************************************************************************)
(* The welcome-mail outbox: rows of table welcome_mail_outbox, written by  *)
(* the registration transaction, and the relays (one per application       *)
(* instance) that lease rows, enqueue a BullMQ job for each and mark the   *)
(* row dispatched.  src/jobs/welcome-mail-outbox-store.ts and              *)
(* src/jobs/welcome-mail-outbox-relay.ts; PostgreSQL, Redis and the        *)
(* consumer of the queue are modelled from how that code uses them.        *)
(*                                                                         *)
(* A row is named by its rank in created_at, so Outbox is a set of         *)
(* numbers.  A lease owner is a fresh UUID per claim: here a member of     *)
(* Lease that nothing refers to any more, which keeps the states finite    *)
(* without bounding the number of claims.                                  *)
(***************************************************************************)
EXTENDS Naturals, FiniteSets

CONSTANTS Outbox,     \* the outbox rows, by rank in created_at
          Relay,      \* the application instances
          Lease,      \* lease owners (UUIDs)
          NoLease,    \* the NULL lease owner
          BatchSize   \* RELAY_BATCH_SIZE

ASSUME OutboxAssumption == Outbox \subseteq Nat
ASSUME NoLeaseAssumption == NoLease \notin Lease
ASSUME BatchSizeAssumption == BatchSize \in Nat \ {0}
\* There is always a UUID left: see FreshLease.
ASSUME LeaseAssumption ==
  IsFiniteSet(Lease) /\ IsFiniteSet(Outbox) /\ IsFiniteSet(Relay) =>
    Cardinality(Lease) >= Cardinality(Outbox) + Cardinality(Relay)

VARIABLES
  row,      \* the outbox table
  job,      \* the BullMQ queue, by jobId
  mails,    \* how many welcome mails the queue's consumer has sent
  relay,    \* the relay run of each instance
  app,      \* the life cycle of each instance
  calm      \* TRUE: from now on nothing fails, restarts or stops

vars == <<row, job, mails, relay, app, calm>>

-----------------------------------------------------------------------------
(* State *)

\* available: available_at <= now().  expires: lease_expires_at, against now().
Row == [status : {"absent", "pending", "dispatching", "dispatched"},
        dispatched : BOOLEAN,
        owner : Lease \cup {NoLease},
        expires : {"null", "future", "past"},
        available : BOOLEAN]

\* The run relayPromise stands for; "idle" when it is undefined.  batch: the
\* claimed rows still to be relayed, oldest first.
Run == [pc : {"idle", "claiming", "adding", "marking", "releasing"},
        batch : SUBSET Outbox,
        lease : Lease \cup {NoLease}]

App == {"down", "up", "stopping", "closed"}

NoRow == [status |-> "absent", dispatched |-> FALSE, owner |-> NoLease,
          expires |-> "null", available |-> FALSE]
IdleRun == [pc |-> "idle", batch |-> {}, lease |-> NoLease]

TypeOK ==
  /\ row \in [Outbox -> Row]
  /\ job \in [Outbox -> {"absent", "waiting", "completed"}]
  /\ mails \in [Outbox -> Nat]
  /\ relay \in [Relay -> Run]
  /\ app \in [Relay -> App]
  /\ calm \in BOOLEAN

Init ==
  /\ row = [o \in Outbox |-> NoRow]
  /\ job = [o \in Outbox |-> "absent"]
  /\ mails = [o \in Outbox |-> 0]
  /\ relay = [r \in Relay |-> IdleRun]
  /\ app = [r \in Relay |-> "down"]
  /\ calm = FALSE

Registered(o) == row[o].status # "absent"

\* A run locks the rows it selected until its claim transaction ends.
Locked(o) == \E r \in Relay : relay[r].pc = "claiming" /\ o \in relay[r].batch

-----------------------------------------------------------------------------
(* The registration transaction commits the user and its outbox row. *)
Register(o) ==
  /\ ~Registered(o)
  /\ row' = [row EXCEPT ![o] = [NoRow EXCEPT !.status = "pending",
                                              !.available = TRUE]]
  /\ UNCHANGED <<job, mails, relay, app, calm>>

-----------------------------------------------------------------------------
(* The store *)

\* Mutant: dispatched rows are not filtered out.
ReadyIfDispatched(o) ==
  Registered(o) /\ row[o].available /\ row[o].expires \in {"null", "past"}

\* Mutant: expired leases are not taken over.
ReadyIfUnleased(o) ==
  /\ Registered(o)
  /\ ~row[o].dispatched
  /\ row[o].available
  /\ row[o].expires = "null"

\* The WHERE clause of claimReady.
Ready(o) ==
  /\ Registered(o)
  /\ ~row[o].dispatched
  /\ row[o].available
  /\ row[o].expires \in {"null", "past"}

\* The at most BatchSize oldest of S: ORDER BY created_at ASC LIMIT BatchSize.
Oldest(S) ==
  {B \in SUBSET S :
     /\ \A o \in B, p \in S \ B : o < p
     /\ \/ B = S /\ Cardinality(S) <= BatchSize
        \/ Cardinality(S) > BatchSize /\ Cardinality(B) = BatchSize}

\* Mutant: lease owners are used again.
AnyLease(l) == l \in Lease

\* The lease owner is a new UUID.
FreshLease(l) ==
  /\ \A o \in Outbox : row[o].owner # l
  /\ \A r \in Relay : relay[r].lease # l

\* Mutant: a status that is none of the table's.
ClaimedAs(rw, l) == [rw EXCEPT !.owner = l, !.expires = "future",
                               !.status = "leased"]

\* A row once the claim of lease owner l commits.  (attempt_count, which
\* nothing reads, is left out.)
Claimed(rw, l) == [rw EXCEPT !.owner = l, !.expires = "future",
                             !.status = "dispatching"]

\* Mutant: the UPDATE does not check the lease owner.
UpdateAny(o, l, new) == row' = [row EXCEPT ![o] = new]

\* UPDATE ... WHERE id = o AND lease_owner = l, of markDispatched and release.
\* No matching row is not an error.
UpdateLeased(o, l, new) ==
  row' = IF row[o].owner = l THEN [row EXCEPT ![o] = new] ELSE row

\* Mutant: the lease is not cleared.
DispatchedLeased(rw) == [rw EXCEPT !.dispatched = TRUE, !.status = "dispatched"]

Dispatched(rw) == [rw EXCEPT !.dispatched = TRUE, !.owner = NoLease,
                             !.expires = "null", !.status = "dispatched"]

\* available_at is the instance's clock, which may be ahead of the database's.
Released(rw, due) == [rw EXCEPT !.available = due, !.owner = NoLease,
                                !.expires = "null", !.status = "pending"]

-----------------------------------------------------------------------------
(* One relay run of instance r: relayReady *)

\* The rows are relayed in the order of the claim.
Current(r, o) ==
  o \in relay[r].batch /\ \A p \in relay[r].batch : o <= p

\* Mutant: relayPromise is not reset when the run is over.
AbandonStuck(r) == relay' = [relay EXCEPT ![r].pc = "failed"]

Abandon(r) == relay' = [relay EXCEPT ![r] = IdleRun]

\* The timer fires while no run is in progress: SELECT ... FOR UPDATE SKIP
\* LOCKED in a new transaction.
Claim(r) ==
  /\ app[r] = "up"
  /\ relay[r].pc = "idle"
  /\ \E B \in Oldest({o \in Outbox : Ready(o) /\ ~Locked(o)}), l \in Lease :
       /\ FreshLease(l)
       /\ relay' = [relay EXCEPT ![r] =
                      [pc |-> "claiming", batch |-> B, lease |-> l]]
  /\ UNCHANGED <<row, job, mails, app, calm>>

WriteClaim(r) ==
  row' = [o \in Outbox |-> IF o \in relay[r].batch
                             THEN Claimed(row[o], relay[r].lease) ELSE row[o]]

\* The claim commits; a run with nothing to relay ends.
CommitClaim(r) ==
  /\ relay[r].pc = "claiming"
  /\ WriteClaim(r)
  /\ IF relay[r].batch = {} THEN Abandon(r)
     ELSE relay' = [relay EXCEPT ![r].pc = "adding"]
  /\ UNCHANGED <<job, mails, app, calm>>

\* The claim fails: rolled back, or committed with the reply lost.  The run
\* ends with an error, in the second case with its rows leased.
ClaimFails(r) ==
  /\ ~calm
  /\ relay[r].pc = "claiming"
  /\ row' = row \/ WriteClaim(r)
  /\ Abandon(r)
  /\ UNCHANGED <<job, mails, app, calm>>

\* Mutant: a completed job is removed, so its id is free again.
EnqueueAgain(o) == job' = [job EXCEPT ![o] = "waiting"]

\* queue.add with jobId = the row's id: no effect when the job is there.
Enqueue(o) ==
  job' = IF job[o] = "absent" THEN [job EXCEPT ![o] = "waiting"] ELSE job

AddJob(r, o) ==
  /\ relay[r].pc = "adding"
  /\ Current(r, o)
  /\ Enqueue(o)
  /\ relay' = [relay EXCEPT ![r].pc = "marking"]
  /\ UNCHANGED <<row, mails, app, calm>>

\* Mutant: the error of queue.add is swallowed.
AddFailsSilently(r, o) ==
  /\ ~calm
  /\ relay[r].pc = "adding"
  /\ Current(r, o)
  /\ relay' = [relay EXCEPT ![r].pc = "marking"]
  /\ UNCHANGED <<row, job, mails, app, calm>>

\* queue.add rejects, with or without having added the job.
AddFails(r, o) ==
  /\ ~calm
  /\ relay[r].pc = "adding"
  /\ Current(r, o)
  /\ job' = job \/ Enqueue(o)
  /\ relay' = [relay EXCEPT ![r].pc = "releasing"]
  /\ UNCHANGED <<row, mails, app, calm>>

\* release, and the run ends: the rest of the batch stays leased.
Release(r, o) ==
  /\ relay[r].pc = "releasing"
  /\ Current(r, o)
  /\ ~Locked(o)
  /\ \E due \in BOOLEAN :
       UpdateLeased(o, relay[r].lease, Released(row[o], due))
  /\ Abandon(r)
  /\ UNCHANGED <<job, mails, app, calm>>

\* The UPDATE of release fails: the error ends the run.  (Applied with the
\* reply lost, it is Release.)
ReleaseFails(r) ==
  /\ ~calm
  /\ relay[r].pc = "releasing"
  /\ Abandon(r)
  /\ UNCHANGED <<row, job, mails, app, calm>>

\* markDispatched, then the next row of the batch.
MarkDispatched(r, o) ==
  /\ relay[r].pc = "marking"
  /\ Current(r, o)
  /\ ~Locked(o)
  /\ UpdateLeased(o, relay[r].lease, Dispatched(row[o]))
  /\ IF relay[r].batch = {o} THEN Abandon(r)
     ELSE relay' = [relay EXCEPT ![r].pc = "adding",
                                 ![r].batch = @ \ {o}]
  /\ UNCHANGED <<job, mails, app, calm>>

\* The UPDATE of markDispatched fails, or is applied with the reply lost: the
\* run ends with its leases in place.
MarkFails(r, o) ==
  /\ ~calm
  /\ relay[r].pc = "marking"
  /\ Current(r, o)
  /\ \/ row' = row
     \/ ~Locked(o) /\ UpdateLeased(o, relay[r].lease, Dispatched(row[o]))
  /\ Abandon(r)
  /\ UNCHANGED <<job, mails, app, calm>>

-----------------------------------------------------------------------------
(* The life cycle of instance r: WelcomeMailOutboxRelayRunner *)

Start(r) ==
  /\ app[r] = "down"
  /\ app' = [app EXCEPT ![r] = "up"]
  /\ UNCHANGED <<row, job, mails, relay, calm>>

\* onApplicationShutdown clears the timer ...
Shutdown(r) ==
  /\ ~calm
  /\ app[r] = "up"
  /\ app' = [app EXCEPT ![r] = "stopping"]
  /\ UNCHANGED <<row, job, mails, relay, calm>>

\* Mutant: the run in progress is not awaited.
CloseQueueNow(r) ==
  /\ app[r] = "stopping"
  /\ app' = [app EXCEPT ![r] = "closed"]
  /\ UNCHANGED <<row, job, mails, relay, calm>>

\* ... waits for the run in progress and closes the queue.
CloseQueue(r) ==
  /\ app[r] = "stopping"
  /\ relay[r].pc = "idle"
  /\ app' = [app EXCEPT ![r] = "closed"]
  /\ UNCHANGED <<row, job, mails, relay, calm>>

Exit(r) ==
  /\ app[r] = "closed"
  /\ app' = [app EXCEPT ![r] = "down"]
  /\ UNCHANGED <<row, job, mails, relay, calm>>

\* The process dies: the run is lost, an open claim transaction rolls back.
Crash(r) ==
  /\ ~calm
  /\ app[r] # "down"
  /\ app' = [app EXCEPT ![r] = "down"]
  /\ Abandon(r)
  /\ UNCHANGED <<row, job, mails, calm>>

-----------------------------------------------------------------------------
(* Time and the environment *)

Working(o) ==
  \E r \in Relay : o \in relay[r].batch /\ relay[r].lease = row[o].owner

\* now() passes lease_expires_at.  The instance computes that time from its
\* own clock before the claim, so until calm a lease may expire at any moment,
\* a slow run's own lease included.
LeaseExpires(o) ==
  /\ row[o].expires = "future"
  /\ calm => ~Working(o)
  /\ row' = [row EXCEPT ![o].expires = "past"]
  /\ UNCHANGED <<job, mails, relay, app, calm>>

\* now() passes available_at.
BecomesAvailable(o) ==
  /\ Registered(o)
  /\ ~row[o].available
  /\ row' = [row EXCEPT ![o].available = TRUE]
  /\ UNCHANGED <<job, mails, relay, app, calm>>

\* The consumer of the queue sends the mail of a job.  removeOnComplete is
\* false: the completed job stays and its id stays taken.
CompleteJob(o) ==
  /\ job[o] = "waiting"
  /\ job' = [job EXCEPT ![o] = "completed"]
  /\ mails' = [mails EXCEPT ![o] = @ + 1]
  /\ UNCHANGED <<row, relay, app, calm>>

Calm ==
  /\ ~calm
  /\ calm' = TRUE
  /\ UNCHANGED <<row, job, mails, relay, app>>

-----------------------------------------------------------------------------
RunProgress(r) ==
  \/ Claim(r) \/ CommitClaim(r)
  \/ \E o \in Outbox : AddJob(r, o) \/ MarkDispatched(r, o) \/ Release(r, o)
RunFailure(r) ==
  \/ ClaimFails(r) \/ ReleaseFails(r)
  \/ \E o \in Outbox : AddFails(r, o) \/ MarkFails(r, o)
LifeCycle(r) ==
  Start(r) \/ Shutdown(r) \/ CloseQueue(r) \/ Exit(r) \/ Crash(r)
Environment ==
  \/ Calm
  \/ \E o \in Outbox :
       Register(o) \/ LeaseExpires(o) \/ BecomesAvailable(o) \/ CompleteJob(o)

Next ==
  \/ \E r \in Relay : RunProgress(r) \/ RunFailure(r) \/ LifeCycle(r)
  \/ Environment

Spec == Init /\ [][Next]_vars

\* An awaited call returns, the interval timer fires, a stopping instance
\* stops, a dead one is started again, and time passes.  Nothing obliges users
\* to register or the environment to become calm.
Fairness ==
  /\ \A r \in Relay :
       /\ WF_vars(RunProgress(r))
       /\ WF_vars(CloseQueue(r)) /\ WF_vars(Exit(r)) /\ WF_vars(Start(r))
  /\ \A o \in Outbox :
       WF_vars(LeaseExpires(o)) /\ WF_vars(BecomesAvailable(o))

FairSpec == Spec /\ Fairness

-----------------------------------------------------------------------------
(* What the pipeline promises, without rows, leases and instances. *)
Delivery == INSTANCE WelcomeMailDelivery WITH
  Mail <- Outbox,
  owed <- {o \in Outbox : Registered(o)},
  queued <- {o \in Outbox : job[o] # "absent"},
  settled <- {o \in Outbox : row[o].dispatched},
  sent <- {o \in Outbox : mails[o] > 0}

\* The outbox implements WelcomeMailDelivery: a mail is queued only for a
\* committed registration, settled only when queued, sent at most once, and
\* none of it is ever undone (README: the record is written in the transaction
\* of the user and "remains retryable").
ImplementsDelivery == Delivery!Spec

(* Properties *)

\* A row is marked dispatched only once its job is in the queue, whatever
\* fails between queue.add and markDispatched and whoever marks it: no
\* registered user's mail is lost.
DispatchedIsQueued ==
  \A o \in Outbox : row[o].dispatched => job[o] # "absent"

\* Redelivery after a lost reply, a crash or an expired lease never sends a
\* second mail, even when the first job has completed meanwhile (README: the
\* relay "enqueues idempotently").
AtMostOneMail == \A o \in Outbox : mails[o] <= 1

\* The columns of a row agree, as the two WHERE clauses that read them assume:
\* a status per value of dispatched_at and lease_owner, an expiry exactly with
\* an owner.
RowConsistent ==
  \A o \in Outbox :
    /\ row[o].dispatched <=> row[o].status = "dispatched"
    /\ row[o].owner # NoLease <=> row[o].status = "dispatching"
    /\ row[o].owner = NoLease <=> row[o].expires = "null"

\* The queue is closed only when no run is in progress: no run finds it closed
\* under it.
ShutdownDrains ==
  \A r \in Relay : app[r] \in {"closed", "down"} => relay[r].pc = "idle"

\* Nobody but its holder ends a lease that has not expired: a run that lost
\* its lease, however late it wakes, cannot release or settle the row under
\* the run that holds it now.
LeaseFencing ==
  [][\A o \in Outbox :
       row[o].expires = "future" /\ row'[o].owner # row[o].owner =>
         \E r \in Relay : /\ Current(r, o)
                          /\ relay[r].lease = row[o].owner
                          /\ relay[r].pc \in {"marking", "releasing"}]_vars

\* However often leases expire and rows are claimed anew, two runs never both
\* hold the current lease of a row: a lease owner names one claim.
OneHolder ==
  \A r, s \in Relay : \A o \in relay[r].batch \cap relay[s].batch :
    relay[r].lease = row[o].owner /\ relay[s].lease = row[o].owner => r = s

\* A dispatched row never changes again: it is neither claimed nor released.
DispatchIsFinal ==
  [][\A o \in Outbox : row[o].dispatched => row'[o] = row[o]]_vars

\* Once nothing fails any more, every registered user's row is dispatched,
\* whatever leases, locks and half-done runs the failures left behind.
EventuallyDispatched ==
  \A o \in Outbox : calm /\ Registered(o) ~> row[o].dispatched

-----------------------------------------------------------------------------
(* The inductive invariant *)

\* An idle instance has no batch and no lease; a run has a lease of its own.
RunInv ==
  /\ \A r \in Relay : relay[r].pc = "idle" <=> relay[r].lease = NoLease
  /\ \A r \in Relay : relay[r].pc = "idle" => relay[r].batch = {}
  /\ \A r, s \in Relay :
       relay[r].lease = relay[s].lease /\ relay[r].lease # NoLease => r = s

\* Rows under an open claim are locked: nobody else claims them, and they stay
\* as the WHERE clause found them.
ClaimInv ==
  \A r \in Relay : relay[r].pc = "claiming" =>
    /\ \A o \in relay[r].batch : /\ ~row[o].dispatched
                                /\ row[o].expires # "future"
                                /\ row[o].available
    /\ \A s \in Relay \ {r} : relay[s].pc = "claiming" =>
         relay[r].batch \cap relay[s].batch = {}

\* A leased or dispatched row is due.
DueInv ==
  \A o \in Outbox : row[o].owner # NoLease \/ row[o].dispatched => row[o].available

\* Batches and jobs are of registered users; the row about to be marked has its
\* job; a mail has been sent exactly when its job is complete.
JobInv ==
  /\ \A r \in Relay : \A o \in relay[r].batch : Registered(o)
  /\ \A r \in Relay, o \in Outbox :
       relay[r].pc = "marking" /\ Current(r, o) => job[o] # "absent"
  /\ \A o \in Outbox :
       /\ job[o] # "absent" => Registered(o)
       /\ mails[o] = IF job[o] = "completed" THEN 1 ELSE 0

\* What makes the safety properties above inductive: the typing, the agreement
\* of a row's columns, the locks, and where jobs and mails come from.
IInv ==
  /\ TypeOK
  /\ RowConsistent
  /\ DispatchedIsQueued
  /\ ShutdownDrains
  /\ RunInv
  /\ ClaimInv
  /\ DueInv
  /\ JobInv

=============================================================================
