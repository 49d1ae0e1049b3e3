----------------------------- MODULE GitInfoCache -----------------------------
(* The cache of a directory's git status (.codex/hooks/lib/                   *)
(* git-info-cache.cjs): processes that render the status read it, and fetch   *)
(* and replace it when it is old; the hook after an edit                      *)
(* (post-edit-simplify-reminder.cjs) removes it.  All writers use one         *)
(* temporary file, which a writer may find renamed or removed by another.     *)
EXTENDS Integers

CONSTANTS Query, MaxTree, MaxTime, CacheTTL, None

\* Times and versions are numbers.
GitAssumption == MaxTree \in Nat /\ MaxTime \in Nat

VARIABLES
  clock,
  tree,      \* the version of the working tree
  cache,     \* None or a file, see File
  tmp,       \* the temporary file, likewise
  at, data, file,  \* of each query: where it is, what it fetched, the file it writes
  answer,    \* what getGitInfo returned
  asked,     \* the value of edited when it began
  edited     \* the tree at the last invalidation that no fetch was under way at

vars == <<clock, tree, cache, tmp, at, data, file, answer, asked, edited>>

\* A file: is its content whole, from which tree, of when.
File == [whole : BOOLEAN, data : 0..MaxTree, stamp : 0..MaxTime]
Writing == {"fetch", "open", "write", "rename", "unlink"}

TypeOK ==
  /\ clock \in 0..MaxTime /\ tree \in 0..MaxTree /\ edited \in 0..MaxTree
  /\ cache \in File \cup {None} /\ tmp \in File \cup {None}
  /\ at \in [Query -> {"idle", "end"} \cup Writing]
  /\ data \in [Query -> File] /\ file \in [Query -> {"tmp", "cache", "gone"}]
  /\ answer \in [Query -> (0..MaxTree) \cup {None}] /\ asked \in [Query -> 0..MaxTree]

Init ==
  /\ clock = 0 /\ tree = 0 /\ cache = None /\ tmp = None /\ edited = 0
  /\ at = [q \in Query |-> "idle"]
  /\ data = [q \in Query |-> [whole |-> TRUE, data |-> 0, stamp |-> 0]]
  /\ file = [q \in Query |-> "gone"]
  /\ answer = [q \in Query |-> None] /\ asked = [q \in Query |-> 0]

Goto(q, l) == at' = [at EXCEPT ![q] = l]
Answer(q, v) == answer' = [answer EXCEPT ![q] = v] /\ Goto(q, "end")

\* readCache: what cannot be parsed is a miss.
Hit(allowStale) ==
  /\ cache # None
  /\ cache.whole /\ (allowStale \/ clock - cache.stamp < CacheTTL)

\* getGitInfo begins.
Ask(q) ==
  /\ at[q] = "idle" /\ asked' = [asked EXCEPT ![q] = edited]
  /\ IF Hit(FALSE) THEN Answer(q, cache.data) ELSE Goto(q, "fetch") /\ UNCHANGED answer
  /\ UNCHANGED <<clock, tree, cache, tmp, data, file, edited>>

\* fetchGitInfo runs git; the tree may change before the result is written.
Fetch(q) ==
  /\ at[q] = "fetch" /\ Goto(q, "open")
  /\ data' = [data EXCEPT ![q].data = tree]
  /\ UNCHANGED <<clock, tree, cache, tmp, file, answer, asked, edited>>

\* git timed out: a stale value is better than none.
TimedOut(q) ==
  /\ at[q] = "fetch" /\ Answer(q, IF Hit(TRUE) THEN cache.data ELSE None)
  /\ UNCHANGED <<clock, tree, cache, tmp, data, file, asked, edited>>

\* writeCache opens the temporary file, which empties it ...
Open(q) ==
  /\ at[q] = "open" /\ Goto(q, "write")
  /\ data' = [data EXCEPT ![q].stamp = clock]
  /\ tmp' = [data'[q] EXCEPT !.whole = FALSE] /\ file' = [file EXCEPT ![q] = "tmp"]
  /\ UNCHANGED <<clock, tree, cache, answer, asked, edited>>

\* ... writes it, wherever it is by now; two writers may spoil it ...
Write(q) ==
  LET others == \E o \in Query \ {q} : at[o] \in {"write", "rename"} /\ file[o] = file[q] IN
  /\ at[q] = "write" /\ Goto(q, "rename")
  /\ \E w \in {TRUE} \cup {~others} :
       /\ tmp' = IF file[q] = "tmp" THEN [data[q] EXCEPT !.whole = w] ELSE tmp
       /\ cache' = IF file[q] = "cache" THEN [data[q] EXCEPT !.whole = w] ELSE cache
  /\ UNCHANGED <<clock, tree, data, file, answer, asked, edited>>

\* Every writer's file moves with the name.
Moved(from, to) ==
  [o \in Query |-> IF file[o] = from THEN to ELSE IF file[o] = to THEN "gone" ELSE file[o]]

\* ... and renames it; if another has, that fails ...
Rename(q) ==
  /\ at[q] = "rename"
  /\ IF tmp = None THEN Goto(q, "unlink") /\ UNCHANGED <<cache, tmp, file, answer>>
     ELSE /\ cache' = tmp /\ tmp' = None /\ file' = Moved("tmp", "cache")
          /\ Answer(q, data[q].data)
  /\ UNCHANGED <<clock, tree, data, asked, edited>>

\* ... as does a write, and the temporary file is removed, whose ever it is.
Unlink(q) ==
  /\ at[q] \in {"write", "unlink"} /\ Answer(q, data[q].data)
  /\ tmp' = None /\ file' = Moved("tmp", "gone")
  /\ UNCHANGED <<clock, tree, cache, data, asked, edited>>

\* The process is killed: the temporary file stays.
Kill(q) ==
  /\ at[q] \in Writing /\ Goto(q, "end")
  /\ UNCHANGED <<clock, tree, cache, tmp, data, file, answer, asked, edited>>

Edit == tree < MaxTree /\ tree' = tree + 1 /\ UNCHANGED <<clock, cache, tmp, at, data, file, answer, asked, edited>>
Tick == clock < MaxTime /\ clock' = clock + 1 /\ UNCHANGED <<tree, cache, tmp, at, data, file, answer, asked, edited>>

\* A version that leaves the file.
NotRemoved == cache
\* unlinkSync in invalidateCache
Removed == None

\* The hook after an edit: invalidateCache.
Invalidate ==
  /\ cache' = Removed
  /\ file' = [o \in Query |-> IF file[o] = "cache" THEN "gone" ELSE file[o]]
  /\ edited' = IF \E q \in Query : at[q] \in Writing THEN edited ELSE tree
  /\ UNCHANGED <<clock, tree, tmp, at, data, answer, asked>>

Next ==
  \/ \E q \in Query : Ask(q) \/ Fetch(q) \/ TimedOut(q) \/ Open(q) \/ Write(q) \/ Rename(q) \/ Unlink(q)
                       \/ Kill(q)
  \/ Edit \/ Tick \/ Invalidate
Spec == Init /\ [][Next]_vars

\* After an edit whose hook removed the cache while no fetch was under way, no
\* query that begins later is answered with a tree from before it, whatever the
\* writers do to each other's files (invalidateCache, writeCache).
FreshAfterEdit ==
  \A q \in Query : answer[q] # None => answer[q] >= asked[q]
=============================================================================
