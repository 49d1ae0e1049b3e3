\* Three hooks on one session file, one of them killed at most; two runs of the
\* reset; five log entries; two queries; two subagents and two turns; three
\* hooks that throttle each other; two captures of one session; two events, two
\* Stops and a sweep; two refreshes of the usage.
CONSTANTS
  Hook = {1, 2, 3}
  Scope = {1}
  Role <- MCRole
  PendingTTL = 1
  RecentTTL = 2
  MaxTime = 2
  Suspends = FALSE
  None = None
  Run = {1, 2}
  Url <- MCUrl
  Loopback <- MCLoopback
  Unset = Unset
  Empty = Empty
  Missing = Missing
  LogEntry = {1, 2, 3, 4, 5}
  MaxLines = 3
  TruncateTo = 2
  Broken = Broken
  Query = {1, 2}
  MaxTree = 2
  CacheTTL = 1
  Agent = {a1, a2}
  Turn = {t1, t2}
  MaxArchives = 1
  Throttler = {1, 2, 3}
  ThrottleKey = {k1, k2}
  k1 = k1
  k2 = k2
  Window = 1
  Threshold = 2
  Stale = 1
  ThrottleTime = 2
  Capturer = {1, 2}
  Session = {1}
  Home <- MCHome
  MinTurns = 1
  MaxTurns = 2
  Length = 3
  MaxClock = 6
  Event = {e1, e2}
  Stop = {s1, s2}
  Sweeper = {w1}
  MaxEvents = 1
  OrphanAge = 1
  BufferTime = 3
  Refresher = {1, 2}
  Interval <- MCInterval
  MaxUsage = 2
  Timeout = 1
  UsageTime = 4
SPECIFICATION MCSpec
CONSTRAINT Bounded
INVARIANTS MilestoneStays ApplicationSafe SuccessIsMigrated LogIsRecent FreshAfterEdit SectionsKept
INVARIANTS CapturesKept EventsKept StampIsHonest
PROPERTIES OneInjection ThrottleIsHonest
CHECK_DEADLOCK FALSE
