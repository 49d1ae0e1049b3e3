---------------------------- MODULE DatabaseReset ----------------------------
(* The guarded reset of the test database (pnpm db:migration:reset): which    *)
(* database a run of it is willing to drop (src/config/database-config.ts,    *)
(* src/database/database-reset-config.ts, reset-database-runner.ts) and what  *)
(* runs that overlap, fail or are killed leave behind (reset-database.ts,     *)
(* data-source.ts).  PostgreSQL and its driver are external.                  *)
EXTENDS Naturals, Sequences, Functions, SequencesExt

CONSTANTS
  Run,       \* runs of the script
  Url,       \* connection URLs, see UrlOK
  Loopback,  \* the host names that mean this machine
  Unset, Empty, Missing  \* no such variable, the empty string, no .env file

VARIABLES
  dotenv,   \* the settings in .env, or Missing
  caller,   \* the settings a run was started with
  env,      \* the settings it works with, once it has read .env
  pc, failed, target, executed,
  tables,   \* "old" (of an earlier day), "empty" or "migrated", of each database
  dropped   \* every <<run, database>> that was dropped

vars == <<dotenv, caller, env, pc, failed, target, executed, tables, dropped>>

\* A URL: is it PostgreSQL's, its authority, its host and port parameters (each
\* value a list), its path.  A host is a name in some spelling (upper case, a
\* final dot); the name "" is a blank part and the port 0 one that is no port.
HostName == [name : STRING, dot : BOOLEAN]
UrlOK(u) ==
  u \in [postgres : BOOLEAN, host : HostName, port : Nat, hosts : Seq(Seq(HostName)),
         ports : Seq(Seq(Nat)), name : STRING]
ResetAssumption == \A u \in Url : UrlOK(u)

Value == Url \cup {Unset, Empty}
IsSet(v) == v \notin {Unset, Empty}

\* A version that does not drop a final dot.
NormalizedDotted(h) ==
  IF h.name \in Loopback /\ ~h.dot THEN "loopback" ELSE h.name
\* normalizeDatabaseHost
Normalized(h) == IF h.name \in Loopback THEN "loopback" ELSE h.name

\* hasAmbiguousTargetOverrides
Ambiguous(u) ==
  \/ Len(u.hosts) > 1 \/ Len(u.ports) > 1
  \/ \E i \in DOMAIN u.hosts : \E h \in Range(u.hosts[i]) : h.name = ""
  \/ \E i \in DOMAIN u.ports : 0 \in Range(u.ports[i])

\* connectionHosts and connectionPorts: the first parameter, else the authority.
ConnectionHosts(u) ==
  {Normalized(h) : h \in IF u.hosts = <<>> THEN {u.host} ELSE Range(Head(u.hosts))}
ConnectionPorts(u) == IF u.ports = <<>> THEN {u.port} ELSE Range(Head(u.ports))

\* sameDatabaseTarget
SameDatabaseTarget(u, v) ==
  /\ ConnectionHosts(u) \cap ConnectionHosts(v) # {}
  /\ ConnectionPorts(u) \cap ConnectionPorts(v) # {}
  /\ u.name = v.name

\* getTestDatabaseConfig: does it return, and not throw?
Accepted(test, app) ==
  /\ IsSet(test) /\ test.postgres /\ ~Ambiguous(test)
  /\ IsSet(app) => /\ app.postgres /\ ~Ambiguous(app)
                   /\ ~SameDatabaseTarget(test, app)

\* External: the databases the driver may connect to.  Of repeated parameters
\* it takes the last, of an empty one the authority; every spelling of a name
\* is the same machine.
Given(values, blank, authority) ==
  IF values = <<>> \/ blank \in Range(Last(values)) THEN {authority} ELSE Range(Last(values))
Machine(h) == IF h.name \in Loopback THEN "loopback" ELSE h.name
Reached(u) ==
  [host : {Machine(h) : h \in Given(u.hosts, [name |-> "", dot |-> FALSE], u.host)},
   port : Given(u.ports, 0, u.port), name : {u.name}]
Database == UNION {Reached(u) : u \in Url}
ReachedBy(v) == IF IsSet(v) THEN Reached(v) ELSE {}

Live == {"start", "connect", "drop", "read", "migrate", "close"}
Dead == {"done", "killed"}
Settings == [test : Value, app : Value, confirmed : BOOLEAN]
Nowhere == [host |-> "", port |-> 0, name |-> ""]

TypeOK ==
  /\ dotenv \in Settings \cup {Missing}
  /\ caller \in [Run -> Settings] /\ env \in [Run -> Settings]
  /\ pc \in [Run -> Live \cup Dead]
  /\ failed \in [Run -> BOOLEAN] /\ executed \in [Run -> BOOLEAN]
  /\ target \in [Run -> Database \cup {Nowhere}]
  /\ tables \in [Database -> {"old", "empty", "migrated"}]
  /\ dropped \subseteq Run \X Database

Init ==
  /\ dotenv \in Settings \cup {Missing}
  /\ caller \in [Run -> Settings] /\ env = caller
  /\ pc = [r \in Run |-> "start"]
  /\ failed = [r \in Run |-> FALSE] /\ executed = [r \in Run |-> FALSE]
  /\ target = [r \in Run |-> Nowhere]
  /\ tables = [d \in Database |-> "old"] /\ dropped = {}

Goto(r, l) == pc' = [pc EXCEPT ![r] = l]
Fails(r, b) == failed' = [failed EXCEPT ![r] = b]

\* process.loadEnvFile: it sets what is not set yet.
Over(own, file) == IF own = Unset THEN file ELSE own

\* getResetEnvironment: .env is read only for a missing TEST_DATABASE_URL, and
\* the confirmation is the caller's whatever the file says.
ResetEnvironment(c) ==
  IF IsSet(c.test) THEN c
  ELSE [test |-> Over(c.test, dotenv.test), app |-> Over(c.app, dotenv.app),
        confirmed |-> c.confirmed]

\* runDatabaseResetRunner up to runDatabaseReset; getDatabaseResetConfig.
Configure(r) ==
  /\ pc[r] = "start"
  /\ IF dotenv = Missing /\ ~IsSet(caller[r].test)
     THEN env' = env /\ Goto(r, "done") /\ Fails(r, TRUE)
     ELSE LET e == ResetEnvironment(caller[r])
              ok == e.confirmed /\ Accepted(e.test, e.app)
          IN /\ env' = [env EXCEPT ![r] = e]
             /\ Goto(r, IF ok THEN "connect" ELSE "done") /\ Fails(r, ~ok)
  /\ UNCHANGED <<dotenv, caller, target, executed, tables, dropped>>

\* initialize: without a connection there is none to destroy.
Initialize(r) ==
  /\ pc[r] = "connect"
  /\ \/ /\ \E d \in Reached(env[r].test) : target' = [target EXCEPT ![r] = d]
        /\ Goto(r, "drop") /\ UNCHANGED failed
     \/ Goto(r, "done") /\ Fails(r, TRUE) /\ UNCHANGED target
  /\ UNCHANGED <<dotenv, caller, env, executed, tables, dropped>>

\* A run that swallows the failure of a statement.
Swallow(r, l) ==
  /\ pc[r] = l /\ Goto(r, "close")
  /\ UNCHANGED <<dotenv, caller, env, failed, target, executed, tables, dropped>>

\* A statement of the try block fails: the finally block is next.
Throw(r, l) ==
  /\ pc[r] = l /\ Goto(r, "close") /\ Fails(r, TRUE)
  /\ UNCHANGED <<dotenv, caller, env, target, executed, tables, dropped>>

\* dropDatabase, in one transaction.
Drop(r) ==
  /\ pc[r] = "drop" /\ Goto(r, "read")
  /\ tables' = [tables EXCEPT ![target[r]] = "empty"]
  /\ dropped' = dropped \cup {<<r, target[r]>>}
  /\ UNCHANGED <<dotenv, caller, env, failed, target, executed>>

\* runMigrations reads which migrations were executed ...
ReadExecuted(r) ==
  /\ pc[r] = "read" /\ Goto(r, "migrate")
  /\ executed' = [executed EXCEPT ![r] = tables[target[r]] = "migrated"]
  /\ UNCHANGED <<dotenv, caller, env, failed, target, tables, dropped>>

\* ... and runs the others in one transaction: they fail where their tables are.
RunMigrations(r) ==
  LET clash == ~executed[r] /\ tables[target[r]] # "empty" IN
  /\ pc[r] = "migrate" /\ Goto(r, "close") /\ Fails(r, clash)
  /\ tables' = IF executed[r] \/ clash THEN tables
               ELSE [tables EXCEPT ![target[r]] = "migrated"]
  /\ UNCHANGED <<dotenv, caller, env, target, executed, dropped>>

\* destroy, which may fail as well; then the process exits, with 1 if it failed.
Destroy(r) ==
  /\ pc[r] = "close" /\ Goto(r, "done")
  /\ \E b \in BOOLEAN : Fails(r, failed[r] \/ b)
  /\ UNCHANGED <<dotenv, caller, env, target, executed, tables, dropped>>

\* The process is killed; PostgreSQL rolls its transaction back.
Kill(r) ==
  /\ pc[r] \in Live /\ Goto(r, "killed") /\ Fails(r, TRUE)
  /\ UNCHANGED <<dotenv, caller, env, target, executed, tables, dropped>>

Step(r) ==
  \/ Configure(r) \/ Initialize(r) \/ Drop(r) \/ ReadExecuted(r) \/ RunMigrations(r)
  \/ \E l \in {"drop", "read", "migrate"} : Throw(r, l)
  \/ Destroy(r)
Next == \E r \in Run : Step(r) \/ Kill(r)
Spec == Init /\ [][Next]_vars

\* The database a run may drop is never the one DATABASE_URL names in the
\* settings it works with, in whatever spelling and through whichever of the
\* driver's parameters (getTestDatabaseConfig).  The database DATABASE_URL names
\* in .env is dropped only by a run given TEST_DATABASE_URL (it never reads .env)
\* or another DATABASE_URL by its caller; and a run drops with its caller's word.
ApplicationSafe ==
  \A r \in Run, d \in Database : <<r, d>> \in dropped =>
    /\ d \notin ReachedBy(env[r].app)
    /\ dotenv # Missing /\ d \in ReachedBy(dotenv.app) =>
         IsSet(caller[r].test) \/ caller[r].app # Unset
    /\ caller[r].confirmed

\* When every run is over and all that dropped a database report success, its
\* schema is migrated, however they overlapped (runDatabaseReset).
SuccessIsMigrated ==
  \A d \in {x[2] : x \in dropped} :
    (\A r \in Run : pc[r] \in Dead /\ (<<r, d>> \in dropped => ~failed[r])) =>
      tables[d] = "migrated"
=============================================================================
