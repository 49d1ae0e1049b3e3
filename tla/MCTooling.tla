------------------------------ MODULE MCTooling ------------------------------
(* Instances for TLC of what runs beside the server: the reset of the test    *)
(* database and the files the coding hooks share.  They have no variable in   *)
(* common: a behaviour is one of them, chosen at the start, and the variables *)
(* of the others keep a value that means nothing.                             *)
EXTENDS HookSession, FiniteSets

CONSTANTS Run, Url, Loopback, Unset, Empty, Missing, LogEntry, MaxLines, TruncateTo, Broken,
          Query, MaxTree, CacheTTL, Agent, Turn, MaxArchives,
          Throttler, ThrottleKey, k1, k2, Window, Threshold, Stale, ThrottleTime,
          Capturer, Session, Home, MinTurns, MaxTurns, Length, MaxClock,
          Event, Stop, Sweeper, MaxEvents, OrphanAge, BufferTime,
          Refresher, Interval, MaxUsage, Timeout, UsageTime

VARIABLES
  side,
  dotenv, caller, env, rpc, failed, target, executed, tables, dropped,
  log, cut, loglock, lat, tail, all, unlocked, skipped,
  clock, tree, cache, tmp, qat, data, qfile, answer, asked, edited,
  sclock, latest, archive, sat, view, recorded, overlapped,
  kind, tclock, stamp, tmtime, tat, key, tbegan, go, planned, acted, stamped, disturbed,
  mclock, turns, capture, queue, mat, text, graph, scanned, folded, first, late,
  eclock, buffer, ecut, emtime, eat, opened, taken, received, written, lost, left, together,
  uclock, usage, until, ucache, utmp, uat, ubegan, udata

rvars == <<dotenv, caller, env, rpc, failed, target, executed, tables, dropped>>
lvars == <<log, cut, loglock, lat, tail, all, unlocked, skipped>>
gvars == <<clock, tree, cache, tmp, qat, data, qfile, answer, asked, edited>>
svars == <<sclock, latest, archive, sat, view, recorded, overlapped>>
tvars == <<kind, tclock, stamp, tmtime, tat, key, tbegan, go, planned, acted, stamped, disturbed>>
mvars == <<mclock, turns, capture, queue, mat, text, graph, scanned, folded, first, late>>
evars == <<eclock, buffer, ecut, emtime, eat, opened, taken, received, written, lost, left, together>>
uvars == <<uclock, usage, until, ucache, utmp, uat, ubegan, udata>>
MCvars == <<side, vars, rvars, lvars, gvars, svars, tvars, mvars, evars, uvars>>

\* URLs: the application's database in several spellings, some of which the
\* driver reads otherwise than the check, the test database, and no PostgreSQL.
Host(n) == [name |-> n, dot |-> FALSE]
App == [postgres |-> TRUE, host |-> Host("localhost"), port |-> 5432, hosts |-> <<>>,
        ports |-> <<>>, name |-> "app"]
Test == [App EXCEPT !.name = "test"]
MCUrl == {
  App, Test,
  [App EXCEPT !.host.dot = TRUE],
  [App EXCEPT !.host = Host("127.0.0.1")],
  [App EXCEPT !.host = Host("db"), !.hosts = <<<<Host("localhost")>>>>],
  [App EXCEPT !.host = Host("db"), !.hosts = <<<<Host("db")>>, <<Host("localhost")>>>>],
  [App EXCEPT !.hosts = <<<<Host("")>>>>],
  [App EXCEPT !.port = 1, !.ports = <<<<5432>>>>],
  [App EXCEPT !.ports = <<<<5433, 0>>>>],
  [App EXCEPT !.host = Host("db")],
  [App EXCEPT !.postgres = FALSE]}
MCLoopback == {"localhost", "127.0.0.1"}
MCHome == [h \in Capturer |-> CHOOSE s \in Session : TRUE]
MCInterval == [prompt |-> 1, tool |-> 3]

R == INSTANCE DatabaseReset WITH pc <- rpc
L == INSTANCE HookLog WITH Entry <- LogEntry, lock <- loglock, at <- lat
G == INSTANCE GitInfoCache WITH at <- qat, file <- qfile
S == INSTANCE SessionSnapshot WITH clock <- sclock, at <- sat
T == INSTANCE HookThrottle WITH Hook <- Throttler, Key <- ThrottleKey, MaxTime <- ThrottleTime,
       clock <- tclock, file <- stamp, mtime <- tmtime, at <- tat, began <- tbegan
M == INSTANCE MemoryQueue WITH Stop <- Capturer, clock <- mclock, tmp <- capture, at <- mat
E == INSTANCE Telemetry WITH MaxTime <- BufferTime, clock <- eclock, cut <- ecut, mtime <- emtime,
       at <- eat, read <- taken, overlapped <- together
U == INSTANCE UsageCache WITH Hook <- Refresher, MaxTime <- UsageTime, clock <- uclock,
       cache <- ucache, tmp <- utmp, at <- uat, began <- ubegan, data <- udata

ASSUME ResetUrls == R!ResetAssumption
ASSUME LogLengths == L!LogAssumption
ASSUME GitNumbers == G!GitAssumption
ASSUME SnapshotFiles == S!SnapshotAssumption
ASSUME ThrottleTimes == T!ThrottleAssumption
ASSUME QueueFiles == M!QueueAssumption
ASSUME TelemetryHooks == E!TelemetryAssumption
ASSUME UsageNumbers == U!UsageAssumption

\* One run of the reset with any settings beside one that does nothing, or two
\* of the test database.
Set(t, a, c) == [test |-> t, app |-> a, confirmed |-> c]
MCDotenv ==
  {Missing} \cup [test : {Test, App, Unset}, app : {App, [App EXCEPT !.host.dot = TRUE], Unset},
                  confirmed : BOOLEAN]
MCCaller ==
  {<<s, Set(Unset, Unset, FALSE)>> : s \in R!Settings} \cup
  {<<Set(Test, Unset, TRUE), Set(Test, App, TRUE)>>}

\* A prompt beside another and a milestone, or beside a milestone and a start.
Plays(k) == [kind |-> k, scope |-> 1]
MCRole == {Plays("prompt"), Plays("milestone"), Plays("start")}
MCHooks == {<<Plays("prompt"), Plays("prompt"), Plays("milestone")>>,
            <<Plays("prompt"), Plays("milestone"), Plays("start")>>}

ResetOff ==
  /\ dotenv = None /\ caller = None /\ env = None /\ rpc = None /\ failed = None
  /\ target = None /\ executed = None /\ tables = None /\ dropped = None
LogOff ==
  /\ log = None /\ loglock = None /\ lat = None /\ tail = None /\ all = None
  /\ unlocked = None /\ cut = None /\ skipped = None
GitOff ==
  /\ clock = None /\ tree = None /\ cache = None /\ tmp = None /\ qat = None
  /\ data = None /\ qfile = None /\ answer = None /\ asked = None
  /\ edited = None
SnapshotOff ==
  /\ sclock = None /\ latest = None /\ archive = None /\ sat = None
  /\ view = None /\ recorded = None /\ overlapped = None

ThrottleOff ==
  /\ kind = None /\ tclock = None /\ stamp = None /\ tmtime = None /\ tat = None /\ key = None
  /\ tbegan = None /\ go = None /\ planned = None /\ acted = None /\ stamped = None /\ disturbed = None
QueueOff ==
  /\ mclock = None /\ turns = None /\ capture = None /\ queue = None /\ mat = None /\ text = None
  /\ graph = None /\ scanned = None /\ folded = None /\ first = None /\ late = None
TelemetryOff ==
  /\ eclock = None /\ buffer = None /\ emtime = None /\ eat = None /\ opened = None /\ taken = None
  /\ received = None /\ written = None /\ lost = None /\ together = None
  /\ ecut = None /\ left = None
UsageOff ==
  /\ uclock = None /\ usage = None /\ until = None /\ ucache = None /\ utmp = None /\ uat = None
  /\ ubegan = None /\ udata = None

\* Three hooks about one key, or two keys; which hook is which does not matter.
ThrottleInit ==
  /\ kind \in {"marker", "stamp", "count", "prompt", "error"} /\ T!Init
  /\ key \in {<<k1, k1, k1>>, <<k1, k1, k2>>}

MCInit ==
  /\ side \in {"session", "reset", "log", "git", "snapshot", "throttle", "queue", "telemetry", "usage"}
  /\ role \in (IF side = "session" THEN MCHooks ELSE {[h \in Hook |-> Plays("start")]})
  /\ Init
  /\ IF side = "reset" THEN dotenv \in MCDotenv /\ caller \in MCCaller /\ R!Init ELSE ResetOff
  /\ IF side = "log" THEN L!Init ELSE LogOff
  /\ IF side = "git" THEN G!Init ELSE GitOff
  /\ IF side = "snapshot" THEN S!Init ELSE SnapshotOff
  /\ IF side = "throttle" THEN ThrottleInit ELSE ThrottleOff
  /\ IF side = "queue" THEN M!Init ELSE QueueOff
  /\ IF side = "telemetry" THEN E!Init ELSE TelemetryOff
  /\ IF side = "usage" THEN U!Init ELSE UsageOff

MCNext ==
  \/ side = "session" /\ Next /\ UNCHANGED <<side, rvars, lvars, gvars, svars, tvars, mvars, evars, uvars>>
  \/ side = "reset" /\ R!Next /\ UNCHANGED <<side, vars, lvars, gvars, svars, tvars, mvars, evars, uvars>>
  \/ side = "log" /\ L!Next /\ UNCHANGED <<side, vars, rvars, gvars, svars, tvars, mvars, evars, uvars>>
  \/ side = "git" /\ G!Next /\ UNCHANGED <<side, vars, rvars, lvars, svars, tvars, mvars, evars, uvars>>
  \/ side = "snapshot" /\ S!Next /\ UNCHANGED <<side, vars, rvars, lvars, gvars, tvars, mvars, evars, uvars>>
  \/ side = "throttle" /\ T!Next /\ UNCHANGED <<side, vars, rvars, lvars, gvars, svars, mvars, evars, uvars>>
  \/ side = "queue" /\ M!Next /\ UNCHANGED <<side, vars, rvars, lvars, gvars, svars, tvars, evars, uvars>>
  \/ side = "telemetry" /\ E!Next /\ UNCHANGED <<side, vars, rvars, lvars, gvars, svars, tvars, mvars, uvars>>
  \/ side = "usage" /\ U!Next /\ UNCHANGED <<side, vars, rvars, lvars, gvars, svars, tvars, mvars, evars>>
MCSpec == MCInit /\ [][MCNext]_MCvars

\* The session's instance is bounded: one hook is killed at most, and nothing
\* is said of what follows a fault.
Bounded == ~fault /\ Cardinality({h \in Hook : pc[h] = "dead"}) <= 1


\* Each instance keeps the types of its variables and the property of its
\* module.  A milestone outlives the hooks that write beside it, see HookSession.
MilestoneStays == side = "session" => TypeOK /\ MilestoneKept
\* The database DATABASE_URL names is not dropped, see DatabaseReset.
ApplicationSafe == side = "reset" => R!TypeOK /\ R!ApplicationSafe
\* What a reset that succeeded leaves is migrated, see DatabaseReset.
SuccessIsMigrated == side = "reset" => R!SuccessIsMigrated
\* A rotation of the hooks' log that ends its write loses only old lines, see
\* HookLog.
LogIsRecent == side = "log" => L!TypeOK /\ L!LogIsRecent
\* The cache of the git status does not outlive an edit, see GitInfoCache.
FreshAfterEdit == side = "git" => G!TypeOK /\ G!FreshAfterEdit
\* The snapshot keeps the sections of the subagents, see SessionSnapshot.
SectionsKept == side = "snapshot" => S!TypeOK /\ S!SectionsKept
\* A capture of a session is whole, final and pending until it is in the graph,
\* see MemoryQueue.
CapturesKept == side = "queue" => M!TypeOK /\ M!CapturesKept
\* No event is lost or posted twice but as the code accepts, see Telemetry.
EventsKept == side = "telemetry" => E!TypeOK /\ E!EventsKept
\* The stamp of the usage cache is no lie, see UsageCache.
StampIsHonest == side = "usage" => U!TypeOK /\ U!StampIsHonest
\* Hooks hold themselves back for the window, and for nothing else, see
\* HookThrottle.
ThrottleIsHonest == [][side = "throttle" =>
  T!TypeOK' /\ T!Honest]_<<side, tvars>>
=============================================================================
