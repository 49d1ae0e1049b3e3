------------------------------ MODULE UsageCache ------------------------------
(* The cache of the usage quota (.codex/hooks/usage-quota-cache-refresh.cjs,  *)
(* lib/usage-limits-cache.cjs), which hooks of all sessions share: a hook     *)
(* that finds it old fetches the usage, within a time-out, and replaces it,   *)
(* with the time of its writing.  Hooks may overlap, and their answers come   *)
(* and are written in any order.                                              *)
EXTENDS Integers, Functions

CONSTANTS
  Hook, MaxUsage, MaxTime,
  Interval,   \* of each kind of event: how old the cache may be
  Timeout,    \* of a fetch
  None

\* Times and answers are numbers.
UsageAssumption == MaxUsage \in Nat /\ MaxTime \in Nat /\ Timeout \in Nat

VARIABLES
  clock,
  usage,      \* what the service would answer; it only grows
  until,      \* of each usage: when it ended
  cache, tmp, \* the file and each hook's temporary one: None, or see File
  at, began, data  \* of each hook: where it is, when it asked, what it was answered

vars == <<clock, usage, until, cache, tmp, at, began, data>>

\* A file: its time stamp and what was answered, None for "unavailable".
File == [stamp : 0..MaxTime, data : 0..MaxUsage \cup {None}]

TypeOK ==
  /\ clock \in 0..MaxTime /\ usage \in 0..MaxUsage
  /\ until \in [0..MaxUsage -> 0..MaxTime \cup {None}]
  /\ cache \in File \cup {None} /\ tmp \in [Hook -> File \cup {None}]
  /\ at \in [Hook -> {"idle", "fetch", "body", "write", "rename", "end"}]
  /\ began \in [Hook -> 0..MaxTime] /\ data \in [Hook -> 0..MaxUsage \cup {None}]

Init ==
  /\ clock = 0 /\ usage = 0 /\ until = [u \in 0..MaxUsage |-> None]
  /\ cache = None /\ tmp = [h \in Hook |-> None]
  /\ at = [h \in Hook |-> "idle"] /\ began = [h \in Hook |-> 0]
  /\ data = [h \in Hook |-> None]

Goto(h, l) == at' = [at EXCEPT ![h] = l]

\* shouldFetch, getCacheAgeMs: no cache is older than any.
ShouldFetch(e) == cache = None \/ clock - cache.stamp >= Interval[e]

\* The hook runs; resolveQuotaDisplayEligibility may find no credentials.
Begin(h) == \E e \in DOMAIN Interval :
  /\ at[h] = "idle" /\ began' = [began EXCEPT ![h] = clock]
  /\ IF ShouldFetch(e) THEN \E l \in {"fetch", "write"} : Goto(h, l) ELSE Goto(h, "end")
  /\ UNCHANGED <<clock, usage, until, cache, tmp, data>>

\* The service reads the usage and answers, within the time-out or too late ...
Serve(h) ==
  /\ at[h] = "fetch" /\ Goto(h, "body") /\ data' = [data EXCEPT ![h] = usage]
  /\ UNCHANGED <<clock, usage, until, cache, tmp, began>>

\* ... fetchUsageLimits has the answer, or another status, an invalid body, a
\* failure, or the time-out: the cache becomes "unavailable" ...
Receive(h) ==
  /\ at[h] \in {"fetch", "body"}
  /\ \/ at[h] = "body" /\ UNCHANGED data
     \/ data' = [data EXCEPT ![h] = None]
  /\ tmp' = [tmp EXCEPT ![h] = [stamp |-> clock, data |-> data'[h]]]
  /\ Goto(h, "rename") /\ UNCHANGED <<clock, usage, until, cache, began>>

\* ... as it does without credentials.  writeUsageCache takes the time ...
Write(h) ==
  /\ at[h] = "write" /\ Goto(h, "rename")
  /\ tmp' = [tmp EXCEPT ![h] = [stamp |-> clock, data |-> None]]
  /\ UNCHANGED <<clock, usage, until, cache, began, data>>

\* ... and renames its file, if nothing fails.
Rename(h) ==
  /\ at[h] = "rename" /\ Goto(h, "end")
  /\ cache' \in {cache, tmp[h]} /\ tmp' = [tmp EXCEPT ![h] = None]
  /\ UNCHANGED <<clock, usage, until, began, data>>

\* The hook is killed.
Kill(h) ==
  /\ at[h] \notin {"idle", "end"} /\ Goto(h, "end")
  /\ UNCHANGED <<clock, usage, until, cache, tmp, began, data>>

Use ==
  /\ usage < MaxUsage /\ usage' = usage + 1 /\ until' = [until EXCEPT ![usage] = clock]
  /\ UNCHANGED <<clock, cache, tmp, at, began, data>>

\* A version without an AbortController.
DueNever(h) == FALSE
\* The abort of a fetch is due.
Due(h) == at[h] \in {"fetch", "body"} /\ clock - began[h] >= Timeout

Tick ==
  /\ clock < MaxTime /\ clock' = clock + 1 /\ \A h \in Hook : ~Due(h)
  /\ UNCHANGED <<usage, until, cache, tmp, at, began, data>>

Next ==
  \/ \E h \in Hook : Begin(h) \/ Serve(h) \/ Receive(h) \/ Write(h) \/ Rename(h) \/ Kill(h)
  \/ Use \/ Tick
Spec == Init /\ [][Next]_vars

\* Whatever overlaps, fails or comes late: the usage in the cache was the usage
\* at most one time-out before the time it is stamped with, by which readers
\* judge its age (writeUsageCache, fetchUsageLimits).
StampIsHonest ==
  cache # None /\ cache.data # None =>
    until[cache.data] = None \/ cache.stamp - until[cache.data] <= Timeout
===============================================================================
