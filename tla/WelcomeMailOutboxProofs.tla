---------------------- MODULE WelcomeMailOutboxProofs ----------------------
(***************************************************************************)
(* Proofs about WelcomeMailOutbox, for any rows, instances, leases and     *)
(* batch size: its safety properties, its two action properties, and that  *)
(* it implements WelcomeMailDelivery.  All rest on the invariant IInv.     *)
(***************************************************************************)
EXTENDS WelcomeMailOutbox, TLAPS

-----------------------------------------------------------------------------
(* What the helpers of the specification return *)

\* A claim leases the row and leaves the rest of it alone.
LEMMA ClaimedRow ==
  ASSUME NEW rw \in Row, NEW l \in Lease
  PROVE  /\ Claimed(rw, l) \in Row
         /\ Claimed(rw, l).status = "dispatching"
         /\ Claimed(rw, l).owner = l
         /\ Claimed(rw, l).expires = "future"
         /\ Claimed(rw, l).dispatched = rw.dispatched
         /\ Claimed(rw, l).available = rw.available
  BY DEF Row, Claimed

\* markDispatched sets dispatched_at and ends the lease.
LEMMA DispatchedRow ==
  ASSUME NEW rw \in Row
  PROVE  /\ Dispatched(rw) \in Row
         /\ Dispatched(rw).status = "dispatched"
         /\ Dispatched(rw).owner = NoLease
         /\ Dispatched(rw).expires = "null"
         /\ Dispatched(rw).dispatched
         /\ Dispatched(rw).available = rw.available
  BY DEF Row, Dispatched

\* release ends the lease and leaves dispatched_at alone.
LEMMA ReleasedRow ==
  ASSUME NEW rw \in Row, NEW due \in BOOLEAN
  PROVE  /\ Released(rw, due) \in Row
         /\ Released(rw, due).status = "pending"
         /\ Released(rw, due).owner = NoLease
         /\ Released(rw, due).expires = "null"
         /\ Released(rw, due).dispatched = rw.dispatched
         /\ Released(rw, due).available = due
  BY DEF Row, Released

\* An UPDATE with a lease owner in its WHERE clause changes at most its row,
\* and that only while the lease owner is still the row's.
LEMMA UpdateLeasedRow ==
  ASSUME row \in [Outbox -> Row], NEW o \in Outbox, NEW l, NEW new \in Row,
         UpdateLeased(o, l, new)
  PROVE  /\ row' \in [Outbox -> Row]
         /\ \A p \in Outbox \ {o} : row'[p] = row[p]
         /\ row[o].owner = l => row'[o] = new
         /\ row[o].owner # l => row'[o] = row[o]
  BY DEF UpdateLeased

\* The end of a run.
LEMMA AbandonedRun ==
  ASSUME TypeOK, NEW r \in Relay, Abandon(r)
  PROVE  /\ relay' \in [Relay -> Run]
         /\ relay'[r].pc = "idle"
         /\ relay'[r].batch = {}
         /\ relay'[r].lease = NoLease
         /\ \A s \in Relay \ {r} : relay'[s] = relay[s]
  BY DEF Abandon, IdleRun, TypeOK, Run

\* A run moves on.
LEMMA MovedRun ==
  ASSUME TypeOK, NEW r \in Relay,
         NEW l \in {"adding", "marking", "releasing"},
         relay' = [relay EXCEPT ![r].pc = l]
  PROVE  /\ relay' \in [Relay -> Run]
         /\ relay'[r].pc = l
         /\ relay'[r].batch = relay[r].batch
         /\ relay'[r].lease = relay[r].lease
         /\ \A s \in Relay \ {r} : relay'[s] = relay[s]
  BY DEF TypeOK, Run

-----------------------------------------------------------------------------
(* Steps that several actions share *)

\* A run that ends without touching a row or a job.
LEMMA EndRun ==
  ASSUME IInv, NEW r \in Relay, Abandon(r),
         UNCHANGED <<row, job, mails, calm>>,
         app' \in [Relay -> App],
         \A s \in Relay \ {r} : app'[s] = app[s]
  PROVE  IInv'
<1>1. /\ TypeOK
      /\ relay' \in [Relay -> Run]
      /\ relay'[r].pc = "idle"
      /\ relay'[r].batch = {}
      /\ relay'[r].lease = NoLease
      /\ \A s \in Relay \ {r} : relay'[s] = relay[s]
  BY AbandonedRun DEF IInv
<1>2. TypeOK'
  BY <1>1 DEF TypeOK
<1>3. RowConsistent'
  BY DEF IInv, RowConsistent
<1>4. DispatchedIsQueued'
  BY DEF IInv, DispatchedIsQueued
<1>5. ShutdownDrains'
  BY <1>1 DEF IInv, ShutdownDrains
<1>6. RunInv'
  BY <1>1 DEF IInv, RunInv
<1>7. ClaimInv'
  BY <1>1 DEF IInv, ClaimInv
<1>8. DueInv'
  BY DEF IInv, DueInv
<1>9. JobInv'
  BY <1>1 DEF IInv, JobInv, Current, Registered
<1> QED
  BY <1>2, <1>3, <1>4, <1>5, <1>6, <1>7, <1>8, <1>9 DEF IInv

\* The claim transaction of r commits, whether or not r hears of it.
LEMMA CommittedClaim ==
  ASSUME IInv, NEW r \in Relay, relay[r].pc = "claiming", WriteClaim(r),
         UNCHANGED <<job, mails, app, calm>>,
         \/ Abandon(r)
         \/ relay' = [relay EXCEPT ![r].pc = "adding"]
  PROVE  IInv'
<1>1. /\ TypeOK /\ relay[r] \in Run /\ relay[r].lease \in Lease
      /\ app[r] \notin {"closed", "down"}
  BY DEF IInv, TypeOK, RunInv, Run, ShutdownDrains
<1>2. /\ relay' \in [Relay -> Run]
      /\ \A s \in Relay \ {r} : relay'[s] = relay[s]
      /\ \/ /\ relay'[r].pc = "idle"
            /\ relay'[r].batch = {}
            /\ relay'[r].lease = NoLease
         \/ /\ relay'[r].pc = "adding"
            /\ relay'[r].batch = relay[r].batch
            /\ relay'[r].lease = relay[r].lease
  <2>1. CASE Abandon(r)
    BY <1>1, <2>1, AbandonedRun
  <2>2. CASE relay' = [relay EXCEPT ![r].pc = "adding"]
    BY <1>1, <2>2, MovedRun
  <2> QED
    BY <2>1, <2>2
<1>3. /\ row' \in [Outbox -> Row]
      /\ \A o \in Outbox \ relay[r].batch : row'[o] = row[o]
      /\ \A o \in relay[r].batch :
           /\ row'[o].status = "dispatching"
           /\ row'[o].owner \in Lease
           /\ row'[o].expires = "future"
           /\ row'[o].dispatched = row[o].dispatched
           /\ row'[o].available = row[o].available
  BY <1>1, ClaimedRow DEF WriteClaim, TypeOK, Run
<1>4. \A o \in relay[r].batch : /\ o \in Outbox
                                /\ ~row[o].dispatched
                                /\ row[o].available
                                /\ Registered(o)
  BY <1>1 DEF IInv, ClaimInv, JobInv, Run
<1>5. TypeOK'
  BY <1>1, <1>2, <1>3 DEF TypeOK
<1>6. RowConsistent'
  BY <1>3, <1>4, NoLeaseAssumption DEF IInv, RowConsistent
<1>7. DispatchedIsQueued'
  BY <1>3, <1>4 DEF IInv, DispatchedIsQueued
<1>8. ShutdownDrains'
  BY <1>1, <1>2 DEF IInv, ShutdownDrains
<1>9. RunInv'
  BY <1>1, <1>2, NoLeaseAssumption DEF IInv, RunInv
<1>10. ClaimInv'
  <2>1. ASSUME NEW s \in Relay, relay'[s].pc = "claiming"
        PROVE  s # r /\ relay'[s] = relay[s] /\ relay[s].batch \cap relay[r].batch = {}
    BY <1>2, <2>1 DEF IInv, ClaimInv
  <2>2. ASSUME NEW s \in Relay, relay'[s].pc = "claiming", NEW o \in relay'[s].batch
        PROVE  row'[o] = row[o]
    BY <1>1, <1>3, <2>1, <2>2 DEF TypeOK, Run
  <2> QED
    BY <2>1, <2>2 DEF IInv, ClaimInv
<1>11. DueInv'
  BY <1>3, <1>4 DEF IInv, DueInv
<1>12. JobInv'
  <2>1. \A o \in Outbox : Registered(o) => Registered(o)'
    BY <1>3 DEF Registered
  <2>2. \A s \in Relay : \A o \in relay'[s].batch : Registered(o)'
    BY <1>1, <1>2, <2>1 DEF IInv, JobInv, TypeOK, Run
  <2>3. \A s \in Relay, o \in Outbox :
          relay'[s].pc = "marking" /\ Current(s, o)' => job'[o] # "absent"
    BY <1>2 DEF IInv, JobInv, Current
  <2>4. \A o \in Outbox :
          /\ job'[o] # "absent" => Registered(o)'
          /\ mails'[o] = IF job'[o] = "completed" THEN 1 ELSE 0
    BY <2>1 DEF IInv, JobInv
  <2> QED
    BY <2>2, <2>3, <2>4 DEF JobInv
<1> QED
  BY <1>5, <1>6, <1>7, <1>8, <1>9, <1>10, <1>11, <1>12 DEF IInv

\* r's UPDATE of the row it is at, new being what the UPDATE makes of it, and
\* the end of the run or, after markDispatched, its next row.
LEMMA UpdatedRow ==
  ASSUME IInv, NEW r \in Relay, NEW o \in Outbox, NEW new \in Row,
         relay[r].pc \in {"marking", "releasing"}, Current(r, o), ~Locked(o),
         new.owner = NoLease, new.expires = "null",
         \/ /\ new.status = "dispatched" /\ new.dispatched
            /\ new.available = row[o].available /\ relay[r].pc = "marking"
         \/ new.status = "pending" /\ new.dispatched = row[o].dispatched,
         UpdateLeased(o, relay[r].lease, new),
         UNCHANGED <<job, mails, app, calm>>,
         \/ Abandon(r)
         \/ relay' = [relay EXCEPT ![r].pc = "adding", ![r].batch = @ \ {o}]
  PROVE  IInv'
<1>1. /\ TypeOK /\ relay[r] \in Run /\ relay[r].lease # NoLease
      /\ app[r] \notin {"closed", "down"}
      /\ o \in relay[r].batch /\ Registered(o)
  BY DEF IInv, TypeOK, RunInv, ShutdownDrains, Current, JobInv
<1>2. /\ relay' \in [Relay -> Run]
      /\ \A s \in Relay \ {r} : relay'[s] = relay[s]
      /\ relay'[r].batch \subseteq relay[r].batch
      /\ \/ /\ relay'[r].pc = "idle"
            /\ relay'[r].batch = {}
            /\ relay'[r].lease = NoLease
         \/ /\ relay'[r].pc = "adding"
            /\ relay'[r].lease = relay[r].lease
  <2>1. CASE Abandon(r)
    BY <1>1, <2>1, AbandonedRun
  <2>2. CASE relay' = [relay EXCEPT ![r].pc = "adding", ![r].batch = @ \ {o}]
    BY <1>1, <2>2 DEF TypeOK, Run
  <2> QED
    BY <2>1, <2>2
<1>3. /\ row' \in [Outbox -> Row]
      /\ \A p \in Outbox \ {o} : row'[p] = row[p]
      /\ \/ row'[o] = row[o]
         \/ row'[o] = new /\ row[o].owner # NoLease
  BY <1>1, UpdateLeasedRow DEF TypeOK
\* The lease is still r's: the row is leased, so it is due and not dispatched.
<1>4. row[o].owner # NoLease => ~row[o].dispatched /\ row[o].available
  BY DEF IInv, RowConsistent, DueInv
<1>5. relay[r].pc = "marking" => job[o] # "absent"
  BY DEF IInv, JobInv
<1>6. TypeOK'
  BY <1>1, <1>2, <1>3 DEF TypeOK
<1>7. RowConsistent'
  BY <1>3, <1>4 DEF IInv, RowConsistent
<1>8. DispatchedIsQueued'
  BY <1>3, <1>4, <1>5 DEF IInv, DispatchedIsQueued
<1>9. ShutdownDrains'
  BY <1>1, <1>2 DEF IInv, ShutdownDrains
<1>10. RunInv'
  BY <1>1, <1>2 DEF IInv, RunInv
<1>11. ClaimInv'
  <2>1. ASSUME NEW s \in Relay, relay'[s].pc = "claiming"
        PROVE  s # r /\ relay'[s] = relay[s] /\ o \notin relay[s].batch
    BY <1>2, <2>1 DEF Locked
  <2>2. ASSUME NEW s \in Relay, relay'[s].pc = "claiming", NEW p \in relay'[s].batch
        PROVE  row'[p] = row[p]
    BY <1>1, <1>3, <2>1, <2>2 DEF TypeOK, Run
  <2> QED
    BY <2>1, <2>2 DEF IInv, ClaimInv
<1>12. DueInv'
  BY <1>3, <1>4 DEF IInv, DueInv
<1>13. JobInv'
  <2>1. \A p \in Outbox : Registered(p) => Registered(p)'
    BY <1>3 DEF Registered
  <2>2. \A s \in Relay : \A p \in relay'[s].batch : Registered(p)'
    BY <1>1, <1>2, <2>1 DEF IInv, JobInv, TypeOK, Run
  <2>3. \A s \in Relay, p \in Outbox :
          relay'[s].pc = "marking" /\ Current(s, p)' => job'[p] # "absent"
    BY <1>2 DEF IInv, JobInv, Current
  <2>4. \A p \in Outbox :
          /\ job'[p] # "absent" => Registered(p)'
          /\ mails'[p] = IF job'[p] = "completed" THEN 1 ELSE 0
    BY <2>1 DEF IInv, JobInv
  <2> QED
    BY <2>2, <2>3, <2>4 DEF JobInv
<1> QED
  BY <1>6, <1>7, <1>8, <1>9, <1>10, <1>11, <1>12, <1>13 DEF IInv

\* A run that moves to its next await, having added a job or not.
LEMMA AddedJob ==
  ASSUME IInv, NEW r \in Relay, NEW o \in Outbox, relay[r].pc = "adding",
         Current(r, o), job' = job \/ Enqueue(o),
         \/ relay' = [relay EXCEPT ![r].pc = "marking"] /\ job'[o] # "absent"
         \/ relay' = [relay EXCEPT ![r].pc = "releasing"],
         UNCHANGED <<row, mails, app, calm>>
  PROVE  IInv'
<1>1. /\ TypeOK /\ relay[r].lease # NoLease
      /\ app[r] \notin {"closed", "down"}
      /\ o \in relay[r].batch /\ Registered(o)
  BY DEF IInv, RunInv, ShutdownDrains, Current, JobInv
<1>2. /\ relay' \in [Relay -> Run]
      /\ \A s \in Relay \ {r} : relay'[s] = relay[s]
      /\ relay'[r].batch = relay[r].batch
      /\ relay'[r].lease = relay[r].lease
      /\ relay'[r].pc \in {"marking", "releasing"}
      /\ relay'[r].pc = "marking" => job'[o] # "absent"
  <2>1. CASE relay' = [relay EXCEPT ![r].pc = "marking"] /\ job'[o] # "absent"
    BY <1>1, <2>1, MovedRun
  <2>2. CASE relay' = [relay EXCEPT ![r].pc = "releasing"]
    BY <1>1, <2>2, MovedRun
  <2> QED
    BY <2>1, <2>2
<1>3. /\ job' \in [Outbox -> {"absent", "waiting", "completed"}]
      /\ \A p \in Outbox \ {o} : job'[p] = job[p]
      /\ job[o] # "absent" => job'[o] = job[o]
      /\ job'[o] = "completed" <=> job[o] = "completed"
  BY <1>1 DEF Enqueue, TypeOK
<1>4. TypeOK'
  BY <1>1, <1>2, <1>3 DEF TypeOK
<1>5. RowConsistent'
  BY DEF IInv, RowConsistent
<1>6. DispatchedIsQueued'
  BY <1>3 DEF IInv, DispatchedIsQueued
<1>7. ShutdownDrains'
  BY <1>1, <1>2 DEF IInv, ShutdownDrains
<1>8. RunInv'
  BY <1>1, <1>2 DEF IInv, RunInv
<1>9. ClaimInv'
  BY <1>2 DEF IInv, ClaimInv
<1>10. DueInv'
  BY DEF IInv, DueInv
<1>11. JobInv'
  <2>1. \A p \in Outbox : Current(r, p) => p = o
    BY OutboxAssumption DEF Current
  <2>2. \A s \in Relay, p \in Outbox :
          relay'[s].pc = "marking" /\ Current(s, p)' => job'[p] # "absent"
    BY <1>2, <1>3, <2>1 DEF IInv, JobInv, Current
  <2> QED
    BY <1>1, <1>2, <1>3, <2>2 DEF IInv, JobInv, Registered
<1> QED
  BY <1>4, <1>5, <1>6, <1>7, <1>8, <1>9, <1>10, <1>11 DEF IInv

\* A step of one row's clock, and a registration.
LEMMA TimedRow ==
  ASSUME IInv, NEW o \in Outbox,
         LeaseExpires(o) \/ BecomesAvailable(o) \/ Register(o)
  PROVE  IInv'
<1>1. /\ row' \in [Outbox -> Row]
      /\ \A p \in Outbox \ {o} : row'[p] = row[p]
      /\ row'[o].owner = row[o].owner
      /\ row'[o].dispatched = row[o].dispatched
      /\ row[o].available => row'[o].available
      /\ row'[o].expires # "future" \/ row'[o].expires = row[o].expires
      /\ row'[o].expires = "null" <=> row[o].expires = "null"
      /\ \/ row'[o].status = row[o].status
         \/ row[o].status = "absent" /\ row'[o].status = "pending"
      /\ UNCHANGED <<job, mails, relay, app, calm>>
  <2>1. CASE LeaseExpires(o)
    BY <2>1 DEF LeaseExpires, IInv, TypeOK, Row
  <2>2. CASE BecomesAvailable(o)
    BY <2>2 DEF BecomesAvailable, IInv, TypeOK, Row
  <2>3. CASE Register(o)
    BY <2>3 DEF Register, Registered, NoRow, IInv, TypeOK, Row, RowConsistent
  <2> QED
    BY <2>1, <2>2, <2>3
<1>2. TypeOK'
  BY <1>1 DEF IInv, TypeOK
<1>3. RowConsistent'
  BY <1>1 DEF IInv, RowConsistent
<1>4. DispatchedIsQueued'
  BY <1>1 DEF IInv, DispatchedIsQueued
<1>5. ShutdownDrains' /\ RunInv'
  BY <1>1 DEF IInv, ShutdownDrains, RunInv
<1>6. ClaimInv'
  BY <1>1 DEF IInv, ClaimInv, TypeOK, Run
<1>7. DueInv'
  BY <1>1 DEF IInv, DueInv
<1>8. JobInv'
  <2>1. \A p \in Outbox : Registered(p) => Registered(p)'
    BY <1>1 DEF Registered
  <2> QED
    BY <1>1, <2>1 DEF IInv, JobInv, Current, TypeOK, Run
<1> QED
  BY <1>2, <1>3, <1>4, <1>5, <1>6, <1>7, <1>8 DEF IInv

\* The SELECT of a claim: only r's run changes, and it locks ready rows that
\* nobody had locked.
LEMMA SelectedRows ==
  ASSUME IInv, NEW r \in Relay, Claim(r)
  PROVE  IInv'
<1>1. PICK B \in SUBSET {o \in Outbox : Ready(o) /\ ~Locked(o)}, l \in Lease :
        /\ FreshLease(l)
        /\ relay' = [relay EXCEPT ![r] =
                       [pc |-> "claiming", batch |-> B, lease |-> l]]
  BY DEF Claim, Oldest
<1>2. /\ TypeOK /\ app[r] = "up" /\ UNCHANGED <<row, job, mails, app, calm>>
  BY DEF Claim, IInv
<1>3. /\ relay' \in [Relay -> Run]
      /\ relay'[r].pc = "claiming"
      /\ relay'[r].batch = B
      /\ relay'[r].lease = l
      /\ \A s \in Relay \ {r} : relay'[s] = relay[s]
  BY <1>1, <1>2 DEF TypeOK, Run
<1>4. TypeOK'
  BY <1>2, <1>3 DEF TypeOK
<1>5. RowConsistent' /\ DispatchedIsQueued' /\ DueInv'
  BY <1>2 DEF IInv, RowConsistent, DispatchedIsQueued, DueInv
<1>6. ShutdownDrains'
  BY <1>2, <1>3 DEF IInv, ShutdownDrains
<1>7. RunInv'
  BY <1>1, <1>3, NoLeaseAssumption DEF IInv, RunInv, FreshLease
<1>8. ClaimInv'
  <2>1. \A o \in B : /\ ~row[o].dispatched
                    /\ row[o].expires # "future"
                    /\ row[o].available
    BY <1>1 DEF Ready
  <2>2. \A s \in Relay \ {r} : relay[s].pc = "claiming" => relay[s].batch \cap B = {}
    BY <1>1 DEF Locked
  <2> QED
    BY <1>2, <1>3, <2>1, <2>2 DEF IInv, ClaimInv
<1>9. JobInv'
  BY <1>1, <1>2, <1>3 DEF IInv, JobInv, Current, Ready, Registered
<1> QED
  BY <1>4, <1>5, <1>6, <1>7, <1>8, <1>9 DEF IInv

\* Steps of the life cycle that leave the run alone.
LEMMA LifeCycleStep ==
  ASSUME IInv, NEW r \in Relay, Start(r) \/ Shutdown(r) \/ CloseQueue(r) \/ Exit(r)
  PROVE  IInv'
<1>1. /\ app' \in [Relay -> App]
      /\ \A s \in Relay \ {r} : app'[s] = app[s]
      /\ app'[r] \in {"closed", "down"} => relay[r].pc = "idle"
      /\ UNCHANGED <<row, job, mails, relay, calm>>
  BY DEF Start, Shutdown, CloseQueue, Exit, IInv, TypeOK, App, ShutdownDrains
<1>2. TypeOK' /\ ShutdownDrains'
  BY <1>1 DEF IInv, TypeOK, ShutdownDrains
<1>3. RowConsistent' /\ DispatchedIsQueued' /\ RunInv' /\ ClaimInv' /\ DueInv' /\ JobInv'
  BY <1>1 DEF IInv, RowConsistent, DispatchedIsQueued, RunInv, ClaimInv, DueInv, JobInv,
              Current, Registered
<1> QED
  BY <1>2, <1>3 DEF IInv

\* The consumer completes a job.
LEMMA CompletedJob ==
  ASSUME IInv, NEW o \in Outbox, CompleteJob(o)
  PROVE  IInv'
<1>1. /\ job' = [job EXCEPT ![o] = "completed"] /\ job[o] = "waiting"
      /\ mails' = [mails EXCEPT ![o] = @ + 1]
      /\ UNCHANGED <<row, relay, app, calm>>
  BY DEF CompleteJob
<1>2. /\ \A p \in Outbox : job'[p] = "absent" <=> job[p] = "absent"
      /\ mails[o] = 0
      /\ \A p \in Outbox : mails'[p] = IF job'[p] = "completed" THEN 1 ELSE 0
  BY <1>1 DEF IInv, TypeOK, JobInv
<1>3. TypeOK' /\ RunInv' /\ ShutdownDrains'
  BY <1>1 DEF IInv, TypeOK, RunInv, ShutdownDrains
<1>4. RowConsistent' /\ DispatchedIsQueued' /\ ClaimInv' /\ DueInv'
  BY <1>1, <1>2 DEF IInv, RowConsistent, DispatchedIsQueued, ClaimInv, DueInv
<1>5. JobInv'
  BY <1>1, <1>2 DEF IInv, JobInv, Current, Registered
<1> QED
  BY <1>3, <1>4, <1>5 DEF IInv

-----------------------------------------------------------------------------
(* The invariant *)

LEMMA InitIInv == Init => IInv
<1> SUFFICES ASSUME Init PROVE IInv
  OBVIOUS
<1>1. TypeOK
  BY DEF Init, TypeOK, Row, NoRow, Run, IdleRun, App
<1>2. RowConsistent /\ DispatchedIsQueued /\ ShutdownDrains
  BY DEF Init, RowConsistent, DispatchedIsQueued, ShutdownDrains, NoRow, IdleRun
<1>3. RunInv /\ ClaimInv /\ DueInv /\ JobInv
  BY DEF Init, RunInv, ClaimInv, DueInv, JobInv, NoRow, IdleRun, Current
<1> QED
  BY <1>1, <1>2, <1>3 DEF IInv

LEMMA StepIInv == IInv /\ [Next]_vars => IInv'
<1> SUFFICES ASSUME IInv, [Next]_vars PROVE IInv'
  OBVIOUS
<1>0. TypeOK
  BY DEF IInv
<1>1. ASSUME NEW r \in Relay, Claim(r) PROVE IInv'
  BY <1>1, SelectedRows
<1>2. ASSUME NEW r \in Relay, CommitClaim(r) PROVE IInv'
  BY <1>2, CommittedClaim DEF CommitClaim
<1>3. ASSUME NEW r \in Relay, ClaimFails(r) PROVE IInv'
  <2>1. CASE row' = row
    BY <1>0, <1>3, <2>1, EndRun DEF ClaimFails, TypeOK
  <2>2. CASE WriteClaim(r)
    BY <1>3, <2>2, CommittedClaim DEF ClaimFails
  <2> QED
    BY <1>3, <2>1, <2>2 DEF ClaimFails
<1>4. ASSUME NEW r \in Relay, NEW o \in Outbox, AddJob(r, o) PROVE IInv'
  <2>1. job'[o] # "absent"
    BY <1>0, <1>4 DEF AddJob, Enqueue, TypeOK
  <2> QED
    BY <1>4, <2>1, AddedJob DEF AddJob
<1>5. ASSUME NEW r \in Relay, NEW o \in Outbox, AddFails(r, o) PROVE IInv'
  BY <1>5, AddedJob DEF AddFails
<1>6. ASSUME NEW r \in Relay, NEW o \in Outbox, Release(r, o) PROVE IInv'
  <2>1. PICK due \in BOOLEAN :
          UpdateLeased(o, relay[r].lease, Released(row[o], due))
    BY <1>6 DEF Release
  <2>2. row[o] \in Row
    BY <1>0 DEF TypeOK
  <2> DEFINE new == Released(row[o], due)
  <2>3. /\ new \in Row /\ new.owner = NoLease /\ new.expires = "null"
        /\ new.status = "pending" /\ new.dispatched = row[o].dispatched
    BY <2>2, ReleasedRow
  <2> HIDE DEF new
  <2>4. UpdateLeased(o, relay[r].lease, new)
    BY <2>1 DEF new
  <2> QED
    BY <1>6, <2>3, <2>4, UpdatedRow DEF Release
<1>7. ASSUME NEW r \in Relay, NEW o \in Outbox,
             relay[r].pc = "marking", Current(r, o), ~Locked(o),
             UpdateLeased(o, relay[r].lease, Dispatched(row[o])),
             UNCHANGED <<job, mails, app, calm>>,
             \/ Abandon(r)
             \/ relay' = [relay EXCEPT ![r].pc = "adding", ![r].batch = @ \ {o}]
      PROVE  IInv'
  <2>1. row[o] \in Row
    BY <1>0 DEF TypeOK
  <2> DEFINE new == Dispatched(row[o])
  <2>2. /\ new \in Row /\ new.owner = NoLease /\ new.expires = "null"
        /\ new.status = "dispatched" /\ new.dispatched
        /\ new.available = row[o].available
    BY <2>1, DispatchedRow
  <2> HIDE DEF new
  <2>3. UpdateLeased(o, relay[r].lease, new)
    BY <1>7 DEF new
  <2> QED
    BY <1>7, <2>2, <2>3, UpdatedRow
<1>8. ASSUME NEW r \in Relay, NEW o \in Outbox, MarkDispatched(r, o) PROVE IInv'
  BY <1>7, <1>8 DEF MarkDispatched
<1>9. ASSUME NEW r \in Relay, NEW o \in Outbox, MarkFails(r, o) PROVE IInv'
  <2>1. CASE row' = row
    BY <1>0, <1>9, <2>1, EndRun DEF MarkFails, TypeOK
  <2>2. CASE ~Locked(o) /\ UpdateLeased(o, relay[r].lease, Dispatched(row[o]))
    BY <1>7, <1>9, <2>2 DEF MarkFails
  <2> QED
    BY <1>9, <2>1, <2>2 DEF MarkFails
<1>10. ASSUME NEW r \in Relay, ReleaseFails(r) PROVE IInv'
  BY <1>0, <1>10, EndRun DEF ReleaseFails, TypeOK
<1>11. ASSUME NEW r \in Relay, Crash(r) PROVE IInv'
  <2>1. app' \in [Relay -> App] /\ \A s \in Relay \ {r} : app'[s] = app[s]
    BY <1>0, <1>11 DEF Crash, TypeOK, App
  <2> QED
    BY <1>11, <2>1, EndRun DEF Crash
<1>12. ASSUME NEW r \in Relay, Start(r) \/ Shutdown(r) \/ CloseQueue(r) \/ Exit(r)
       PROVE  IInv'
  BY <1>12, LifeCycleStep
<1>13. ASSUME NEW o \in Outbox, Register(o) \/ LeaseExpires(o) \/ BecomesAvailable(o)
       PROVE  IInv'
  BY <1>13, TimedRow
<1>14. ASSUME NEW o \in Outbox, CompleteJob(o) PROVE IInv'
  BY <1>14, CompletedJob
<1>15. CASE Calm \/ UNCHANGED vars
  <2>1. UNCHANGED <<row, job, mails, relay, app>> /\ calm' \in BOOLEAN
    BY <1>0, <1>15 DEF Calm, vars, TypeOK
  <2> QED
    BY <2>1 DEF IInv, TypeOK, RowConsistent, DispatchedIsQueued, ShutdownDrains,
                RunInv, ClaimInv, DueInv, JobInv, Current, Registered
<1> QED
  BY <1>1, <1>2, <1>3, <1>4, <1>5, <1>6, <1>8, <1>9, <1>10, <1>11, <1>12, <1>13,
     <1>14, <1>15 DEF Next, RunProgress, RunFailure, LifeCycle, Environment

\* IInv holds in every reachable state.
THEOREM Invariance == Spec => []IInv
  BY InitIInv, StepIInv, PTL DEF Spec

\* Every variable keeps its type.
THEOREM TypeCorrect == Spec => []TypeOK
<1>1. IInv => TypeOK
  BY DEF IInv
<1> QED
  BY <1>1, Invariance, PTL

\* A row is marked dispatched only when its job is in the queue: whatever fails
\* or expires between queue.add and markDispatched, no mail is lost.
THEOREM NoLostMail == Spec => []DispatchedIsQueued
<1>1. IInv => DispatchedIsQueued
  BY DEF IInv
<1> QED
  BY <1>1, Invariance, PTL

\* However often a row is redelivered, one mail is sent.
THEOREM NoDuplicateMail == Spec => []AtMostOneMail
<1>1. IInv => AtMostOneMail
  BY DEF IInv, JobInv, AtMostOneMail
<1> QED
  BY <1>1, Invariance, PTL

\* The columns of every row agree.
THEOREM RowsConsistent == Spec => []RowConsistent
<1>1. IInv => RowConsistent
  BY DEF IInv
<1> QED
  BY <1>1, Invariance, PTL

\* A graceful shutdown closes the queue only between runs.
THEOREM GracefulShutdown == Spec => []ShutdownDrains
<1>1. IInv => ShutdownDrains
  BY DEF IInv
<1> QED
  BY <1>1, Invariance, PTL

\* A row's lease has one holder.
THEOREM LeaseHasOneHolder == Spec => []OneHolder
<1>1. IInv => OneHolder
  BY DEF IInv, RunInv, OneHolder
<1> QED
  BY <1>1, Invariance, PTL

-----------------------------------------------------------------------------
(* What a step may never do *)

\* How a step can change a row: not at all; a registration; a passing lease or
\* date; the claim of a run that has the row locked; the UPDATE of a run that
\* is at the row and holds its lease.
LEMMA RowSteps ==
  ASSUME IInv, [Next]_vars, NEW o \in Outbox
  PROVE  \/ row'[o] = row[o]
         \/ Register(o) \/ LeaseExpires(o) \/ BecomesAvailable(o)
         \/ \E r \in Relay : relay[r].pc = "claiming" /\ o \in relay[r].batch
         \/ \E r \in Relay : /\ Current(r, o)
                             /\ relay[r].lease = row[o].owner
                             /\ relay[r].pc \in {"marking", "releasing"}
<1>0. TypeOK
  BY DEF IInv
<1>1. ASSUME NEW r \in Relay, CommitClaim(r) \/ ClaimFails(r), row'[o] # row[o]
      PROVE  relay[r].pc = "claiming" /\ o \in relay[r].batch
  BY <1>1 DEF CommitClaim, ClaimFails, WriteClaim
<1>2. ASSUME NEW r \in Relay, NEW p \in Outbox,
             MarkDispatched(r, p) \/ MarkFails(r, p) \/ Release(r, p), row'[o] # row[o]
      PROVE  /\ Current(r, o)
             /\ relay[r].lease = row[o].owner
             /\ relay[r].pc \in {"marking", "releasing"}
  <2>1. PICK new : UpdateLeased(p, relay[r].lease, new)
    BY <1>2 DEF MarkDispatched, MarkFails, Release
  <2>2. p = o /\ row[o].owner = relay[r].lease
    BY <1>0, <1>2, <2>1 DEF UpdateLeased, TypeOK
  <2> QED
    BY <1>2, <2>2 DEF MarkDispatched, MarkFails, Release
<1>3. ASSUME NEW p \in Outbox, Register(p) \/ LeaseExpires(p) \/ BecomesAvailable(p)
      PROVE  row'[o] = row[o] \/ p = o
  BY <1>0, <1>3 DEF Register, LeaseExpires, BecomesAvailable, TypeOK
<1>4. ASSUME UNCHANGED row PROVE row'[o] = row[o]
  BY <1>4
<1>5. ASSUME NEW r \in Relay, NEW p \in Outbox,
             \/ Claim(r) \/ AddJob(r, p) \/ AddFails(r, p) \/ ReleaseFails(r)
             \/ LifeCycle(r) \/ CompleteJob(p)
      PROVE  UNCHANGED row
  BY <1>5 DEF Claim, AddJob, AddFails, ReleaseFails, LifeCycle, Start, Shutdown,
              CloseQueue, Exit, Crash, CompleteJob
<1>6. CASE \E r \in Relay : RunProgress(r)
  BY <1>1, <1>2, <1>4, <1>6 DEF RunProgress, Claim, AddJob
<1>7. CASE \E r \in Relay : RunFailure(r)
  BY <1>1, <1>2, <1>4, <1>7 DEF RunFailure, AddFails, ReleaseFails
<1>8. CASE \E r \in Relay : LifeCycle(r)
  BY <1>4, <1>5, <1>8
<1>9. CASE Environment
  BY <1>3, <1>4, <1>9 DEF Environment, Calm, CompleteJob
<1>10. CASE UNCHANGED vars
  BY <1>4, <1>10 DEF vars
<1> QED
  BY <1>6, <1>7, <1>8, <1>9, <1>10 DEF Next

\* A lease that has not expired is ended only by the run that holds it.
THEOREM LeasesAreFenced == Spec => LeaseFencing
<1>1. ASSUME IInv, [Next]_vars, NEW o \in Outbox,
             row[o].expires = "future", row'[o].owner # row[o].owner
      PROVE  \E r \in Relay : /\ Current(r, o)
                             /\ relay[r].lease = row[o].owner
                             /\ relay[r].pc \in {"marking", "releasing"}
  <2>1. row[o].status # "absent" /\ o \in DOMAIN row /\ row[o] \in Row
    BY <1>1 DEF IInv, RowConsistent, TypeOK
  <2>2. ~Register(o)
    BY <2>1 DEF Register, Registered
  <2>3. ~LeaseExpires(o) /\ ~BecomesAvailable(o)
    BY <1>1, <2>1 DEF LeaseExpires, BecomesAvailable, IInv, TypeOK, Row
  <2>4. ~\E r \in Relay : relay[r].pc = "claiming" /\ o \in relay[r].batch
    BY <1>1 DEF IInv, ClaimInv
  <2> QED
    BY <1>1, <2>2, <2>3, <2>4, RowSteps
<1>2. ASSUME IInv, [Next]_vars
      PROVE  \A o \in Outbox :
               row[o].expires = "future" /\ row'[o].owner # row[o].owner =>
                 \E r \in Relay : /\ Current(r, o)
                                  /\ relay[r].lease = row[o].owner
                                  /\ relay[r].pc \in {"marking", "releasing"}
  BY <1>1, <1>2
<1> QED
  BY <1>2, Invariance, PTL DEF Spec, LeaseFencing

\* A dispatched row never changes again.
THEOREM DispatchedForGood == Spec => DispatchIsFinal
<1>1. ASSUME IInv, [Next]_vars, NEW o \in Outbox, row[o].dispatched
      PROVE  row'[o] = row[o]
  <2>1. /\ row[o].status # "absent" /\ row[o].owner = NoLease
        /\ row[o].expires = "null" /\ row[o].available
    BY <1>1 DEF IInv, RowConsistent, DueInv
  <2>2. ~Register(o) /\ ~LeaseExpires(o) /\ ~BecomesAvailable(o)
    BY <2>1 DEF Register, LeaseExpires, BecomesAvailable, Registered
  <2>3. ~\E r \in Relay : relay[r].pc = "claiming" /\ o \in relay[r].batch
    BY <1>1 DEF IInv, ClaimInv
  <2>4. ~\E r \in Relay : /\ relay[r].lease = row[o].owner
                         /\ relay[r].pc \in {"marking", "releasing"}
    BY <1>1, <2>1 DEF IInv, RunInv
  <2> QED
    BY <1>1, <2>2, <2>3, <2>4, RowSteps
<1>2. ASSUME IInv, [Next]_vars
      PROVE  \A o \in Outbox : row[o].dispatched => row'[o] = row[o]
  BY <1>1, <1>2
<1> QED
  BY <1>2, Invariance, PTL DEF Spec, DispatchIsFinal

-----------------------------------------------------------------------------
(* The outbox implements WelcomeMailDelivery *)

\* A step that registers nobody, dispatches no row and leaves the queue alone
\* is a stutter of the abstract specification.
LEMMA Stutter ==
  ASSUME \A o \in Outbox : /\ Registered(o)' <=> Registered(o)
                           /\ row'[o].dispatched <=> row[o].dispatched,
         UNCHANGED <<job, mails>>
  PROVE  UNCHANGED Delivery!vars
<1>1. UNCHANGED {o \in Outbox : Registered(o)}
  BY Zenon
<1>2. UNCHANGED {o \in Outbox : row[o].dispatched}
  BY Zenon
<1>3. /\ UNCHANGED {o \in Outbox : job[o] # "absent"}
      /\ UNCHANGED {o \in Outbox : mails[o] > 0}
  BY Zenon
<1> QED
  BY <1>1, <1>2, <1>3 DEF Delivery!vars

\* Registration owes a mail.
LEMMA RegisterOwes ==
  ASSUME IInv, NEW p \in Outbox, Register(p)
  PROVE  Delivery!Owe(p)
<1>1. /\ row'[p].status = "pending" /\ row'[p].dispatched = FALSE
      /\ \A o \in Outbox \ {p} : row'[o] = row[o]
      /\ row[p].status = "absent" /\ ~row[p].dispatched
      /\ UNCHANGED <<job, mails>>
  BY DEF IInv, TypeOK, RowConsistent, Register, Registered, NoRow
<1>2. {o \in Outbox : Registered(o)}' = {o \in Outbox : Registered(o)} \cup {p}
  BY <1>1 DEF Registered
<1>3. UNCHANGED {o \in Outbox : row[o].dispatched}
  BY <1>1
<1> QED
  BY <1>1, <1>2, <1>3 DEF Delivery!Owe, Registered

\* An enqueue of a row of the batch queues its mail, or finds it there.
LEMMA EnqueueQueues ==
  ASSUME IInv, NEW p \in Outbox, Registered(p), Enqueue(p) \/ job' = job,
         UNCHANGED <<row, mails>>
  PROVE  Delivery!Queue(p) \/ UNCHANGED Delivery!vars
<1>1. CASE job' = job
  BY <1>1, Stutter DEF Registered
<1>2. CASE Enqueue(p) /\ job' # job
  <2>1. /\ job[p] = "absent" /\ job'[p] = "waiting"
        /\ \A o \in Outbox \ {p} : job'[o] = job[o]
    BY <1>2 DEF Enqueue, IInv, TypeOK
  <2>2. {o \in Outbox : job[o] # "absent"}' = {o \in Outbox : job[o] # "absent"} \cup {p}
    BY <2>1
  <2>3. UNCHANGED {o \in Outbox : Registered(o)}
    BY DEF Registered
  <2> QED
    BY <2>1, <2>2, <2>3 DEF Delivery!Queue
<1> QED
  BY <1>1, <1>2

\* A markDispatched settles a queued mail, or finds the lease gone.
LEMMA MarkSettles ==
  ASSUME IInv, NEW r \in Relay, NEW p \in Outbox,
         relay[r].pc = "marking", Current(r, p),
         row' = row \/ UpdateLeased(p, relay[r].lease, Dispatched(row[p])),
         UNCHANGED <<job, mails>>
  PROVE  Delivery!Settle(p) \/ UNCHANGED Delivery!vars
<1>1. CASE row' = row
  BY <1>1, Stutter DEF Registered
<1>2. CASE UpdateLeased(p, relay[r].lease, Dispatched(row[p])) /\ row' # row
  <2>1. /\ row[p].owner = relay[r].lease /\ relay[r].lease # NoLease
        /\ row[p] \in Row /\ row'[p] = Dispatched(row[p])
        /\ \A o \in Outbox \ {p} : row'[o] = row[o]
    BY <1>2 DEF UpdateLeased, IInv, TypeOK, RunInv
  <2>2. /\ row[p].status = "dispatching" /\ ~row[p].dispatched
        /\ row'[p].status = "dispatched" /\ row'[p].dispatched
    BY <2>1, DispatchedRow DEF IInv, RowConsistent
  <2>3. job[p] # "absent"
    BY DEF IInv, JobInv
  <2>4. UNCHANGED {o \in Outbox : Registered(o)}
    BY <2>1, <2>2 DEF Registered
  <2>5. {o \in Outbox : row[o].dispatched}' = {o \in Outbox : row[o].dispatched} \cup {p}
    BY <2>1, <2>2
  <2> QED
    BY <2>2, <2>3, <2>4, <2>5 DEF Delivery!Settle
<1> QED
  BY <1>1, <1>2

\* The consumer sends a mail of the queue that it has not sent.
LEMMA CompleteSends ==
  ASSUME IInv, NEW p \in Outbox, CompleteJob(p)
  PROVE  Delivery!Send(p)
<1>1. /\ job[p] = "waiting" /\ job'[p] = "completed" /\ mails[p] = 0
      /\ mails'[p] = 1
      /\ \A o \in Outbox \ {p} : job'[o] = job[o] /\ mails'[o] = mails[o]
      /\ UNCHANGED row
  BY DEF IInv, TypeOK, JobInv, CompleteJob
<1>2. UNCHANGED {o \in Outbox : job[o] # "absent"}
  BY <1>1
<1>3. {o \in Outbox : mails[o] > 0}' = {o \in Outbox : mails[o] > 0} \cup {p}
  BY <1>1
<1>4. UNCHANGED {o \in Outbox : Registered(o)}
  BY <1>1 DEF Registered
<1> QED
  BY <1>1, <1>2, <1>3, <1>4 DEF Delivery!Send

\* A claim changes nothing that the abstract specification sees.
LEMMA ClaimHidden ==
  ASSUME IInv, NEW r \in Relay, CommitClaim(r) \/ ClaimFails(r)
  PROVE  UNCHANGED Delivery!vars
<1>1. UNCHANGED <<job, mails>> /\ (row' = row \/ WriteClaim(r))
  BY DEF CommitClaim, ClaimFails
<1>2. relay[r].lease \in Lease
  BY DEF IInv, TypeOK, Run, RunInv, CommitClaim, ClaimFails
<1>3. \A o \in relay[r].batch : Registered(o) /\ row[o] \in Row
  BY DEF IInv, JobInv, TypeOK, Run
<1>4. \A o \in relay[r].batch : /\ Registered(o)
                               /\ Claimed(row[o], relay[r].lease).status # "absent"
                               /\ Claimed(row[o], relay[r].lease).dispatched
                                    = row[o].dispatched
  BY <1>2, <1>3, ClaimedRow
<1> QED
  BY <1>1, <1>4, Stutter DEF WriteClaim, Registered

\* Neither does a release.
LEMMA ReleaseHidden ==
  ASSUME IInv, NEW r \in Relay, NEW p \in Outbox, Release(r, p)
  PROVE  UNCHANGED Delivery!vars
<1>1. PICK due \in BOOLEAN : UpdateLeased(p, relay[r].lease, Released(row[p], due))
  BY DEF Release
<1>2. /\ row \in [Outbox -> Row]
      /\ Released(row[p], due) \in Row
      /\ Released(row[p], due).status = "pending"
      /\ Released(row[p], due).dispatched = row[p].dispatched
  BY ReleasedRow DEF IInv, TypeOK
<1>3. Registered(p) /\ UNCHANGED <<job, mails>>
  BY DEF Release, Current, IInv, JobInv
<1>4. /\ \A o \in Outbox \ {p} : row'[o] = row[o]
      /\ row'[p] = row[p] \/ row'[p] = Released(row[p], due)
  BY <1>1, <1>2, UpdateLeasedRow
<1> QED
  BY <1>2, <1>3, <1>4, Stutter DEF Registered

\* Nor does the passing of time.
LEMMA TimeHidden ==
  ASSUME IInv, NEW p \in Outbox, LeaseExpires(p) \/ BecomesAvailable(p)
  PROVE  UNCHANGED Delivery!vars
<1>1. \A o \in Outbox : /\ row'[o].status = row[o].status
                        /\ row'[o].dispatched = row[o].dispatched
  BY DEF LeaseExpires, BecomesAvailable, IInv, TypeOK, Row
<1> QED
  BY <1>1, Stutter DEF LeaseExpires, BecomesAvailable, Registered

\* The rows, the queue and the mails, seen as debts: every step of every
\* instance, whatever fails, is one of WelcomeMailDelivery's or hidden from it.
THEOREM Implements == Spec => ImplementsDelivery
<1>1. Init => Delivery!Init
  BY DEF Init, NoRow, Registered, Delivery!Init
<1>2. ASSUME IInv, [Next]_vars PROVE [Delivery!Next]_Delivery!vars
  <2>1. ASSUME NEW r \in Relay, NEW p \in Outbox, AddJob(r, p) \/ AddFails(r, p)
        PROVE  Delivery!Queue(p) \/ UNCHANGED Delivery!vars
    <3>1. Registered(p) /\ (Enqueue(p) \/ job' = job) /\ UNCHANGED <<row, mails>>
      BY <1>2, <2>1 DEF AddJob, AddFails, Current, IInv, JobInv
    <3> QED
      BY <1>2, <3>1, EnqueueQueues
  <2>2. ASSUME NEW r \in Relay, NEW p \in Outbox, MarkDispatched(r, p) \/ MarkFails(r, p)
        PROVE  Delivery!Settle(p) \/ UNCHANGED Delivery!vars
    BY <1>2, <2>2, MarkSettles DEF MarkDispatched, MarkFails
  <2>3. ASSUME NEW r \in Relay, Claim(r) \/ ReleaseFails(r) \/ LifeCycle(r)
        PROVE  UNCHANGED Delivery!vars
    <3>1. UNCHANGED <<row, job, mails>>
      BY <2>3 DEF Claim, ReleaseFails, LifeCycle, Start, Shutdown, CloseQueue, Exit, Crash
    <3> QED
      BY <3>1, Stutter DEF Registered
  <2>4. CASE \E r \in Relay : RunProgress(r)
    BY <1>2, <2>1, <2>2, <2>3, <2>4, ClaimHidden, ReleaseHidden
       DEF RunProgress, Delivery!Next
  <2>5. CASE \E r \in Relay : RunFailure(r)
    BY <1>2, <2>1, <2>2, <2>3, <2>5, ClaimHidden DEF RunFailure, Delivery!Next
  <2>6. CASE \E r \in Relay : LifeCycle(r)
    BY <2>3, <2>6
  <2>7. CASE Environment
    <3>1. CASE Calm
      BY <3>1, Stutter DEF Calm, Registered
    <3>2. CASE \E p \in Outbox : Register(p) \/ CompleteJob(p)
      BY <1>2, <3>2, RegisterOwes, CompleteSends DEF Delivery!Next
    <3>3. CASE \E p \in Outbox : LeaseExpires(p) \/ BecomesAvailable(p)
      BY <1>2, <3>3, TimeHidden
    <3> QED
      BY <2>7, <3>1, <3>2, <3>3 DEF Environment
  <2>8. CASE UNCHANGED vars
    BY <2>8, Stutter DEF vars, Registered
  <2> QED
    BY <1>2, <2>4, <2>5, <2>6, <2>7, <2>8 DEF Next
<1> QED
  BY <1>1, <1>2, Invariance, PTL DEF Spec, ImplementsDelivery, Delivery!Spec

=============================================================================
