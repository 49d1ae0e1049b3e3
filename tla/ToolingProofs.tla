---------------------------- MODULE ToolingProofs ----------------------------
(***************************************************************************)
(* What runs beside the server, for any runs, queries, lengths and times:  *)
(* the reset of the test database, and of the hooks' files those that one  *)
(* invariant each explains: the usage cache, the git status, the snapshot  *)
(* and the log.                                                            *)
(***************************************************************************)
EXTENDS MCTooling, Sequences, TLAPS

\* A behaviour is one of the instances, from its first state to its last.
LEMMA OneSide ==
  ASSUME [MCNext]_MCvars
  PROVE  /\ side' = side
         /\ side = "reset" => [R!Next]_rvars
         /\ side = "log" => [L!Next]_lvars
         /\ side = "git" => [G!Next]_gvars
         /\ side = "snapshot" => [S!Next]_svars
         /\ side = "usage" => [U!Next]_uvars
  <1>1. CASE UNCHANGED MCvars
    BY <1>1 DEF MCvars
  <1>2. CASE MCNext
    <2>. HIDE DEF Next, R!Next, L!Next, G!Next, S!Next, T!Next, M!Next, E!Next, U!Next
    <2>. QED  BY <1>2, Zenon DEF MCNext
  <1>. QED  BY <1>1, <1>2

-----------------------------------------------------------------------------
(* The usage cache *)

\* The usage in a file was the usage at most Timeout before its time stamp.
UsageFileOK(f) ==
  f # None /\ f.data # None =>
    /\ f.stamp <= uclock
    /\ until[f.data] = None \/ f.stamp - until[f.data] <= Timeout

\* An answer that is not received yet: it was the usage when the hook asked or
\* later, and the hook asked at most Timeout ago.
AnswerOK(h) ==
  /\ uat[h] \in {"fetch", "body"} => ubegan[h] <= uclock /\ uclock - ubegan[h] <= Timeout
  /\ uat[h] = "body" =>
       /\ udata[h] \in 0..usage
       /\ until[udata[h]] = None \/ until[udata[h]] >= ubegan[h]

UsageInv ==
  /\ \A u \in 0..MaxUsage : u >= usage => until[u] = None
  /\ UsageFileOK(ucache)
  /\ \A h \in Refresher : UsageFileOK(utmp[h]) /\ AnswerOK(h)

LEMMA UsageInit ==
  ASSUME U!Init
  PROVE  U!TypeOK /\ UsageInv
  BY UsageNumbers DEF U!Init, U!TypeOK, U!UsageAssumption, UsageInv, UsageFileOK, AnswerOK

LEMMA UsageStep ==
  ASSUME U!TypeOK, UsageInv, [U!Next]_uvars
  PROVE  U!TypeOK' /\ UsageInv'
  <1>. USE UsageNumbers DEF U!UsageAssumption, U!TypeOK, U!File, UsageInv, UsageFileOK, AnswerOK
  <1>1. ASSUME NEW h \in Refresher, U!Begin(h)
        PROVE  U!TypeOK' /\ UsageInv'
    BY <1>1 DEF U!Begin, U!Goto
  <1>2. ASSUME NEW h \in Refresher, U!Serve(h)
        PROVE  U!TypeOK' /\ UsageInv'
    BY <1>2 DEF U!Serve, U!Goto
  <1>3. ASSUME NEW h \in Refresher, U!Receive(h)
        PROVE  U!TypeOK' /\ UsageInv'
    <2>. DEFINE f == [stamp |-> uclock, data |-> udata'[h]]
    <2>1. utmp' = [utmp EXCEPT ![h] = f] /\ uat' = [uat EXCEPT ![h] = "rename"]
      BY <1>3, Zenon DEF U!Receive, U!Goto
    <2>2. UNCHANGED <<uclock, usage, until, ucache, ubegan>>
      BY <1>3, Zenon DEF U!Receive
    <2>3. udata' \in [Refresher -> 0..MaxUsage \cup {None}]
      BY <1>3 DEF U!Receive
    <2>4. \A g \in Refresher \ {h} : udata'[g] = udata[g]
      BY <1>3 DEF U!Receive
    <2>5. f \in U!File
      BY <2>3
    <2>6. UsageFileOK(f)
      BY <1>3 DEF U!Receive
    <2>7. U!TypeOK'
      BY <2>1, <2>2, <2>3, <2>5
    <2>. QED  BY <2>1, <2>2, <2>3, <2>4, <2>6, <2>7
  <1>4. ASSUME NEW h \in Refresher, U!Write(h)
        PROVE  U!TypeOK' /\ UsageInv'
    BY <1>4 DEF U!Write, U!Goto
  <1>5. ASSUME NEW h \in Refresher, U!Rename(h)
        PROVE  U!TypeOK' /\ UsageInv'
    BY <1>5 DEF U!Rename, U!Goto
  <1>6. ASSUME NEW h \in Refresher, U!Kill(h)
        PROVE  U!TypeOK' /\ UsageInv'
    BY <1>6 DEF U!Kill, U!Goto
  <1>7. CASE U!Use
    BY <1>7 DEF U!Use
  <1>8. CASE U!Tick
    BY <1>8 DEF U!Tick, U!Due
  <1>9. CASE UNCHANGED uvars
    BY <1>9 DEF uvars
  <1>. QED  BY <1>1, <1>2, <1>3, <1>4, <1>5, <1>6, <1>7, <1>8, <1>9 DEF U!Next

\* The stamp of the usage cache is no lie: whatever overlaps, fails or comes
\* late, the usage in it was the usage at most one time-out before the time it is
\* stamped with (writeUsageCache, fetchUsageLimits).
THEOREM TheStampIsHonest == MCSpec => []StampIsHonest
  <1>. DEFINE Inv == side = "usage" => U!TypeOK /\ UsageInv
  <1>1. MCInit => Inv
    BY UsageInit, Zenon DEF MCInit
  <1>2. Inv /\ [MCNext]_MCvars => Inv'
    BY OneSide, UsageStep, Zenon
  <1>3. Inv => StampIsHonest
    BY DEF StampIsHonest, UsageInv, UsageFileOK, U!StampIsHonest
  <1>. QED  BY <1>1, <1>2, <1>3, PTL DEF MCSpec

-----------------------------------------------------------------------------
(* The git status cache *)

\* A query that has fetched, and the files it may write to or rename, hold a tree
\* that is no older than the last invalidation that no fetch was under way at.
GitInv ==
  /\ edited <= tree
  /\ cache # None => cache.data >= edited
  /\ \A q \in Query :
       /\ asked[q] <= edited
       /\ qat[q] \in {"open", "write", "rename", "unlink"} => data[q].data >= edited
       /\ qat[q] \in {"write", "rename"} => tmp = None \/ tmp.data >= edited
       /\ qat[q] # "end" => answer[q] = None
       /\ answer[q] # None => answer[q] >= asked[q]

LEMMA GitInit ==
  ASSUME G!Init
  PROVE  G!TypeOK /\ GitInv
  BY GitNumbers DEF G!Init, G!TypeOK, G!File, G!GitAssumption, GitInv

\* The files of the writers move and go without a change to their types.
LEMMA GitMoved ==
  ASSUME G!TypeOK, NEW from \in {"tmp", "cache"}, NEW to \in {"tmp", "cache", "gone"}
  PROVE  G!Moved(from, to) \in [Query -> {"tmp", "cache", "gone"}]
  BY DEF G!TypeOK, G!Moved

LEMMA GitStep ==
  ASSUME G!TypeOK, GitInv, [G!Next]_gvars
  PROVE  G!TypeOK' /\ GitInv'
  <1>. USE GitNumbers DEF G!GitAssumption, G!TypeOK, G!File, G!Writing, G!Goto, G!Answer, GitInv
  <1>1. ASSUME NEW q \in Query, G!Ask(q)
        PROVE  G!TypeOK' /\ GitInv'
    BY <1>1 DEF G!Ask, G!Hit
  <1>2. ASSUME NEW q \in Query, G!Fetch(q)
        PROVE  G!TypeOK' /\ GitInv'
    BY <1>2 DEF G!Fetch
  <1>3. ASSUME NEW q \in Query, G!TimedOut(q)
        PROVE  G!TypeOK' /\ GitInv'
    BY <1>3 DEF G!TimedOut, G!Hit
  <1>4. ASSUME NEW q \in Query, G!Open(q)
        PROVE  G!TypeOK' /\ GitInv'
    BY <1>4 DEF G!Open
  <1>5. ASSUME NEW q \in Query, G!Write(q)
        PROVE  G!TypeOK' /\ GitInv'
    BY <1>5 DEF G!Write
  <1>6. ASSUME NEW q \in Query, G!Rename(q)
        PROVE  G!TypeOK' /\ GitInv'
    BY <1>6, GitMoved DEF G!Rename
  <1>7. ASSUME NEW q \in Query, G!Unlink(q)
        PROVE  G!TypeOK' /\ GitInv'
    BY <1>7, GitMoved DEF G!Unlink
  <1>8. ASSUME NEW q \in Query, G!Kill(q)
        PROVE  G!TypeOK' /\ GitInv'
    BY <1>8 DEF G!Kill
  <1>9. CASE G!Edit \/ G!Tick
    BY <1>9 DEF G!Edit, G!Tick
  <1>10. CASE G!Invalidate
    BY <1>10 DEF G!Invalidate, G!Removed
  <1>11. CASE UNCHANGED gvars
    BY <1>11 DEF gvars
  <1>. QED
    BY <1>1, <1>2, <1>3, <1>4, <1>5, <1>6, <1>7, <1>8, <1>9, <1>10, <1>11 DEF G!Next

\* After an edit whose hook removed the cache while no fetch was under way, no
\* query that begins later is answered with a tree from before it, whatever the
\* writers do to each other's files (invalidateCache, writeCache).
THEOREM NoAnswerFromBeforeTheEdit == MCSpec => []FreshAfterEdit
  <1>. DEFINE Inv == side = "git" => G!TypeOK /\ GitInv
  <1>1. MCInit => Inv
    BY GitInit, Zenon DEF MCInit
  <1>2. Inv /\ [MCNext]_MCvars => Inv'
    BY OneSide, GitStep, Zenon
  <1>3. Inv => FreshAfterEdit
    BY DEF FreshAfterEdit, GitInv, G!FreshAfterEdit
  <1>. QED  BY <1>1, <1>2, <1>3, PTL DEF MCSpec

-----------------------------------------------------------------------------
(* The session snapshot *)

\* Unless hooks overlapped, the file has the sections that were recorded; a turn
\* that copies it finds one.
SnapshotInv ==
  /\ overlapped \/ recorded = S!Sections(latest)
  /\ \A h \in S!Hooks : sat[h] = "copy" => latest # None

LEMMA SnapshotInit ==
  ASSUME S!Init
  PROVE  S!TypeOK /\ SnapshotInv
  <1>1. S!Range(archive) = {} /\ DOMAIN archive = {}
    BY DEF S!Init, S!Range
  <1>2. DOMAIN archive \subseteq 0..MaxTime /\ S!Range(archive) \subseteq S!Snapshot
    BY <1>1
  <1>3. /\ sclock \in 0..MaxTime /\ latest \in S!Snapshot \cup {None}
        /\ sat \in [S!Hooks -> {"idle", "write", "copy", "prune", "end"}]
        /\ view \in [S!Hooks -> S!Snapshot \cup {None}]
        /\ recorded \subseteq Agent /\ overlapped \in BOOLEAN
    <2>1. /\ sclock = 0 /\ latest = None /\ recorded = {} /\ overlapped = FALSE
          /\ sat = [h \in S!Hooks |-> "idle"] /\ view = [h \in S!Hooks |-> None]
      BY Zenon DEF S!Init
    <2>2. sclock \in 0..MaxTime
      BY <2>1, SnapshotFiles DEF S!SnapshotAssumption
    <2>. QED  BY <2>1, <2>2, Zenon
  <1>4. SnapshotInv
    BY DEF S!Init, SnapshotInv, S!Sections
  <1>. QED  BY <1>2, <1>3, <1>4, Zenon DEF S!TypeOK

\* Copying adds one snapshot to the archive, and pruning takes some away.
LEMMA ArchiveTypes ==
  ASSUME S!TypeOK, NEW t \in Turn, (S!Copy(t) /\ latest # None) \/ S!Prune(t)
  PROVE  DOMAIN archive' \subseteq 0..MaxTime /\ S!Range(archive') \subseteq S!Snapshot
  <1>1. CASE S!Copy(t) /\ latest # None
    BY <1>1 DEF S!TypeOK, S!Copy, S!Range
  <1>2. CASE S!Prune(t)
    <2>1. S!Pruned(DOMAIN archive) \subseteq DOMAIN archive
      BY DEF S!Pruned
    <2>2. archive' = S!Restrict(archive, S!Pruned(DOMAIN archive))
      BY <1>2 DEF S!Prune
    <2>. QED  BY <2>1, <2>2 DEF S!TypeOK, S!Restrict, S!Range
  <1>. QED  BY <1>1, <1>2

LEMMA SnapshotStep ==
  ASSUME S!TypeOK, SnapshotInv, [S!Next]_svars
  PROVE  S!TypeOK' /\ SnapshotInv'
  <1>. USE SnapshotFiles
       DEF S!SnapshotAssumption, S!TypeOK, S!Snapshot, S!Hooks, S!Goto, SnapshotInv, S!Sections
  <1>1. ASSUME NEW h \in S!Hooks, S!Read(h)
        PROVE  S!TypeOK' /\ SnapshotInv'
    BY <1>1 DEF S!Read
  <1>2. ASSUME NEW a \in S!Hooks, S!WriteSection(a)
        PROVE  S!TypeOK' /\ SnapshotInv'
    <2>. DEFINE s == [generated |-> IF view[a] = None THEN sclock ELSE view[a].generated,
                      sections |-> S!Sections(view[a]) \cup {a}]
    <2>1. latest' = s /\ s \in S!Snapshot
      BY <1>2 DEF S!WriteSection, S!Replace
    <2>2. overlapped' = (overlapped \/ latest # view[a]) /\ overlapped' \in BOOLEAN
      BY <1>2, Zenon DEF S!WriteSection, S!Replace
    <2>3. overlapped' \/ recorded' = S!Sections(latest)'
      BY <1>2, <2>1, <2>2 DEF S!WriteSection
    <2>4. latest' # None
      BY <2>1
    <2>. QED  BY <1>2, <2>1, <2>2, <2>3, <2>4 DEF S!WriteSection, S!Replace
  <1>3. ASSUME NEW t \in S!Hooks, S!WriteTurn(t)
        PROVE  S!TypeOK' /\ SnapshotInv'
    <2>. DEFINE s == [generated |-> sclock, sections |-> S!Sections(view[t])]
    <2>1. latest' = s /\ s \in S!Snapshot
      BY <1>3 DEF S!WriteTurn, S!Replace
    <2>2. overlapped' = (overlapped \/ latest # view[t]) /\ overlapped' \in BOOLEAN
      BY <1>3, Zenon DEF S!WriteTurn, S!Replace
    <2>3. overlapped' \/ recorded' = S!Sections(latest)'
      BY <1>3, <2>1, <2>2 DEF S!WriteTurn
    <2>4. latest' # None
      BY <2>1
    <2>. QED  BY <1>3, <2>1, <2>2, <2>3, <2>4 DEF S!WriteTurn, S!Replace
  <1>4. ASSUME NEW h \in S!Hooks, S!Fail(h)
        PROVE  S!TypeOK' /\ SnapshotInv'
    BY <1>4 DEF S!Fail
  <1>5. ASSUME NEW t \in Turn, S!Copy(t)
        PROVE  S!TypeOK' /\ SnapshotInv'
    <2>1. latest # None
      BY <1>5 DEF S!Copy
    <2>. QED  BY <1>5, <2>1, ArchiveTypes DEF S!Copy
  <1>6. ASSUME NEW t \in Turn, S!Prune(t)
        PROVE  S!TypeOK' /\ SnapshotInv'
    BY <1>6, ArchiveTypes DEF S!Prune
  <1>7. CASE S!Tick
    BY <1>7 DEF S!Tick
  <1>8. CASE UNCHANGED svars
    BY <1>8 DEF svars
  <1>. QED  BY <1>1, <1>2, <1>3, <1>4, <1>5, <1>6, <1>7, <1>8 DEF S!Next

\* Unless hooks overlapped, the snapshot has every section that was recorded,
\* whatever failed in between (persistState).
THEOREM EverySectionIsKept == MCSpec => []SectionsKept
  <1>. DEFINE Inv == side = "snapshot" => S!TypeOK /\ SnapshotInv
  <1>1. MCInit => Inv
    BY SnapshotInit, Zenon DEF MCInit
  <1>2. Inv /\ [MCNext]_MCvars => Inv'
    BY OneSide, SnapshotStep, Zenon
  <1>3. Inv => SectionsKept
    BY DEF SectionsKept, SnapshotInv, S!SectionsKept, S!Sections
  <1>. QED  BY <1>1, <1>2, <1>3, PTL DEF MCSpec

-----------------------------------------------------------------------------
(* The hook log *)

\* IsSuffix, element by element.
EndsWith(t, s) ==
  /\ Len(s) <= Len(t)
  /\ \A i \in 1..Len(s) : s[i] = t[Len(t) - Len(s) + i]

LEMMA EndsWithIsSuffix ==
  ASSUME NEW s \in Seq(L!Line), NEW t \in Seq(L!Line), EndsWith(t, s)
  PROVE  L!IsSuffix(s, t)
  <1>. DEFINE rs == [i \in 1..Len(s) |-> s[(Len(s) - i) + 1]]
              rt == [i \in 1..Len(t) |-> t[(Len(t) - i) + 1]]
  <1>1. rs \in Seq(L!Line) /\ rt \in Seq(L!Line) /\ Len(rs) = Len(s) /\ Len(rt) = Len(t)
    BY DEF EndsWith
  <1>2. \A i \in 1..Len(s) : rs[i] = rt[i]
    BY DEF EndsWith
  <1>3. SubSeq(rs, 1, Len(rs)) = SubSeq(rt, 1, Len(rs))
    <2>. HIDE DEF rs, rt
    <2>. QED  BY <1>1, <1>2 DEF EndsWith
  <1>4. L!Reverse(s) = rs /\ L!Reverse(t) = rt
    BY DEF L!Reverse
  <1>5. L!IsPrefix(rs, rt)
    <2>. HIDE DEF rs, rt
    <2>. QED  BY <1>1, <1>3 DEF L!IsPrefix, EndsWith
  <1>. QED  BY <1>4, <1>5, Zenon DEF L!IsSuffix

\* Appending to both, and dropping the first ones of the suffix, keeps a suffix.
LEMMA EndsWithAppend ==
  ASSUME NEW s \in Seq(L!Line), NEW t \in Seq(L!Line), NEW e \in L!Line, EndsWith(t, s)
  PROVE  EndsWith(Append(t, e), Append(s, e))
  BY DEF EndsWith

LEMMA EndsWithTruncated ==
  ASSUME NEW s \in Seq(L!Line), NEW t \in Seq(L!Line), EndsWith(t, s), Len(s) >= MaxLines
  PROVE  /\ L!Truncated(s) \in Seq(L!Line) /\ Len(L!Truncated(s)) = TruncateTo
         /\ EndsWith(t, L!Truncated(s))
  <1>. DEFINE n == Len(s) - TruncateTo
  <1>1. n \in Nat /\ n + 1 \in 1..Len(s) + 1 /\ Len(s) - n = TruncateTo /\ TruncateTo \in Nat
    BY LogLengths DEF L!LogAssumption
  <1>2. \A i \in (n + 1)..Len(s) : s[i] \in L!Line
    BY <1>1
  <1>. DEFINE tr == SubSeq(s, n + 1, Len(s))
  <1>3. tr \in Seq(L!Line) /\ Len(tr) = TruncateTo /\ \A i \in 1..TruncateTo : tr[i] = s[n + i]
    <2>. HIDE DEF n
    <2>. QED  BY <1>1, <1>2
  <1>4. EndsWith(t, tr)
    <2>. HIDE DEF n, tr
    <2>1. ASSUME NEW i \in 1..TruncateTo
          PROVE  tr[i] = t[Len(t) - TruncateTo + i]
      <3>1. n + i \in 1..Len(s) /\ tr[i] = s[n + i]
        BY <1>1, <1>3
      <3>2. s[n + i] = t[Len(t) - Len(s) + (n + i)]
        BY <3>1 DEF EndsWith
      <3>3. Len(t) - Len(s) + (n + i) = Len(t) - TruncateTo + i
        BY <1>1
      <3>. QED  BY <3>1, <3>2, <3>3
    <2>. QED  BY <1>1, <1>3, <2>1 DEF EndsWith
  <1>. QED  BY <1>3, <1>4 DEF L!Truncated

\* The owner of the lock is alone, at every place it has in the code.
LogLockInv ==
  \A e \in LogEntry :
    lat[e] \in {"append", "read", "truncate", "fill", "unlock"} => loglock = e

\* A line more than this starts a rotation, but an unfinished one does not.
Below == Len(log) < MaxLines + skipped \/ (cut /\ Len(log) <= MaxLines + skipped)

\* The log is what was appended, but for old lines.
LogFine ==
  /\ EndsWith(all, log)
  /\ Len(log) >= TruncateTo \/ log = all
  /\ Len(log) <= MaxLines + skipped

\* What the process knows of the log at each place; while a rotation fills it,
\* what is to be written is the end of what was appended.
Knows(e) ==
  /\ lat[e] \in {"append", "unlock"} => Below
  /\ lat[e] = "truncate" => Len(log) >= MaxLines /\ tail[e] = L!Truncated(log)
  /\ lat[e] = "fill" => log = <<>> /\ Len(tail[e]) = TruncateTo /\ EndsWith(all, tail[e])

LogInv == unlocked \/
  /\ (\A e \in LogEntry : lat[e] # "fill") => LogFine
  /\ loglock = None => Below
  /\ \A e \in LogEntry : Knows(e)

LEMMA LogInit ==
  ASSUME L!Init
  PROVE  L!TypeOK /\ LogLockInv /\ LogInv
  <1>1. /\ loglock = None /\ unlocked = FALSE /\ cut = FALSE /\ skipped = 0
        /\ lat = [e \in LogEntry |-> "wait"] /\ tail = [e \in LogEntry |-> <<>>]
    BY Zenon DEF L!Init
  <1>2. /\ log = all /\ Len(log) = 0 /\ log \in Seq(L!Line)
    BY DEF L!Init
  <1>3. <<>> \in Seq(L!Line) /\ skipped \in Nat
    BY <1>1
  <1>4. L!TypeOK
    BY <1>1, <1>2, <1>3, Zenon DEF L!TypeOK
  <1>5. EndsWith(all, log)
    BY <1>2 DEF EndsWith
  <1>. QED
    BY <1>1, <1>2, <1>4, <1>5, LogLengths DEF L!LogAssumption, LogLockInv, LogInv, LogFine, Knows, Below

\* What an append does to the log.
LEMMA LineAppended ==
  ASSUME L!TypeOK, NEW l \in L!Line, NEW s \in Seq(L!Line)
  PROVE  /\ L!WithLine(s, l) \in Seq(L!Line)
         /\ Len(L!WithLine(s, l)) = IF cut THEN Len(s) ELSE Len(s) + 1
         /\ \A t \in Seq(L!Line) :
              EndsWith(t, s) => EndsWith(L!WithLine(t, l), L!WithLine(s, l))
  BY EndsWithAppend DEF L!WithLine, L!TypeOK

\* What a rotation writes into an empty log, to its end or not.
LEMMA LogFilled ==
  ASSUME L!TypeOK, NEW q \in Seq(L!Line), NEW c \in BOOLEAN, L!Filled(q, c)
  PROVE  /\ log' \in Seq(L!Line) /\ cut' \in BOOLEAN
         /\ log = <<>> => log' = q
  <1>. DEFINE rest == SubSeq(log, Len(q) + 1, Len(log))
  <1>1. log' = q \o rest /\ cut' \in {c, cut}
    BY Zenon DEF L!Filled
  <1>2. log \in Seq(L!Line) /\ cut \in BOOLEAN
    BY DEF L!TypeOK
  <1>3. rest \in Seq(L!Line)
    BY <1>2
  <1>4. log = <<>> => rest = <<>>
    OBVIOUS
  <1>. HIDE DEF rest
  <1>5. q \o rest \in Seq(L!Line) /\ q \o <<>> = q
    BY <1>3
  <1>. QED  BY <1>1, <1>2, <1>4, <1>5

LEMMA LogCutShort ==
  ASSUME L!TypeOK, NEW e \in LogEntry, L!CutShort(e)
  PROVE  /\ log' \in Seq(L!Line) /\ cut' \in BOOLEAN /\ all' = log'
         /\ log = <<>> => Len(log') <= Len(tail[e])
  <1>1. PICK n \in 0..(Len(tail[e]) - 1), c \in BOOLEAN :
          LET q == SubSeq(tail[e], 1, n) IN L!Filled(IF c THEN Append(q, Broken) ELSE q, c)
    BY Zenon DEF L!CutShort
  <1>2. tail[e] \in Seq(L!Line) /\ Broken \in L!Line
    BY DEF L!TypeOK, L!Line
  <1>. DEFINE p == SubSeq(tail[e], 1, n)
              w == IF c THEN Append(p, Broken) ELSE p
  <1>3. p \in Seq(L!Line) /\ Len(p) = n
    BY <1>2
  <1>4. w \in Seq(L!Line) /\ Len(w) <= n + 1 /\ n + 1 <= Len(tail[e])
    <2>. HIDE DEF p
    <2>. QED  BY <1>2, <1>3
  <1>5. L!Filled(w, c)
    BY <1>1, Zenon
  <1>. HIDE DEF w
  <1>6. all' = log'
    BY Zenon DEF L!CutShort
  <1>7. Len(tail[e]) \in Nat
    BY <1>2
  <1>. QED  BY <1>4, <1>5, <1>6, <1>7, LogFilled

\* An append, or half of one, of whoever may.
LEMMA LineStep ==
  ASSUME L!TypeOK, NEW e \in LogEntry, L!Appended(e) \/ L!Halved
  PROVE  /\ log' \in Seq(L!Line) /\ all' \in Seq(L!Line) /\ cut' \in BOOLEAN
         /\ Len(log') = IF cut THEN Len(log) ELSE Len(log) + 1
         /\ EndsWith(all, log) => EndsWith(all', log')
         /\ log = all => log' = all'
         /\ L!Halved => cut'
  <1>1. e \in L!Line /\ Broken \in L!Line /\ log \in Seq(L!Line) /\ all \in Seq(L!Line)
    BY DEF L!Line, L!TypeOK
  <1>2. PICK l \in L!Line : log' = L!WithLine(log, l) /\ all' = L!WithLine(all, l)
    BY <1>1 DEF L!Appended, L!Halved
  <1>3. cut' \in BOOLEAN /\ (L!Halved => cut')
    BY DEF L!Appended, L!Halved
  <1>4. EndsWith(all, log) => EndsWith(all', log')
    <2>1. EndsWith(all, log) => EndsWith(L!WithLine(all, l), L!WithLine(log, l))
      BY <1>1, LineAppended
    <2>. QED  BY <1>2, <2>1, Zenon
  <1>. QED  BY <1>1, <1>2, <1>3, <1>4, LineAppended

LEMMA LogTypes ==
  ASSUME L!TypeOK, LogLockInv, [L!Next]_lvars
  PROVE  L!TypeOK' /\ LogLockInv'
  <1>1. <<>> \in Seq(L!Line)
    OBVIOUS
  <1>. USE DEF L!Goto
  <1>2. ASSUME NEW e \in LogEntry, L!Lock(e) \/ L!Unlock(e)
        PROVE  L!TypeOK' /\ LogLockInv'
    BY <1>2, LogLengths DEF L!Lock, L!Unlock, L!TypeOK, LogLockInv, L!LogAssumption
  <1>3. ASSUME NEW e \in LogEntry, L!AppendUnlocked(e) \/ L!AppendLocked(e)
        PROVE  L!TypeOK' /\ LogLockInv'
    <2>1. log' \in Seq(L!Line) /\ all' \in Seq(L!Line) /\ cut' \in BOOLEAN
      <3>1. L!Appended(e) \/ L!Halved \/ L!Nothing
        BY <1>3, Zenon DEF L!AppendUnlocked, L!AppendLocked
      <3>2. CASE L!Nothing
        BY <3>2 DEF L!Nothing, L!TypeOK
      <3>. QED  BY <3>1, <3>2, LineStep
    <2>2. /\ UNCHANGED <<tail, loglock, skipped>> /\ unlocked' \in {unlocked, TRUE}
          /\ \E l \in {"end", "read", "unlock"} : lat' = [lat EXCEPT ![e] = l]
          /\ lat'[e] \in {"read", "unlock"} => lat[e] = "append"
      BY <1>3 DEF L!AppendUnlocked, L!AppendLocked, L!TypeOK
    <2>. QED  BY <2>1, <2>2 DEF L!TypeOK, LogLockInv
  <1>4. ASSUME NEW e \in LogEntry, L!ReadLog(e) \/ L!Truncate(e)
        PROVE  L!TypeOK' /\ LogLockInv'
    <2>1. Len(log) >= MaxLines => L!Truncated(log) \in Seq(L!Line)
      BY LogLengths DEF L!Truncated, L!TypeOK, L!LogAssumption
    <2>2. /\ UNCHANGED <<loglock, all, unlocked>> /\ lat[e] \in {"read", "truncate"}
          /\ \E l \in {"truncate", "fill", "unlock"} : lat' = [lat EXCEPT ![e] = l]
          /\ \/ tail' = tail
             \/ tail' = [tail EXCEPT ![e] = <<>>]
             \/ Len(log) >= MaxLines /\ tail' = [tail EXCEPT ![e] = L!Truncated(log)]
          /\ skipped' \in {0, skipped, skipped + 1}
          /\ (log' = log /\ cut' = cut) \/ (log' = <<>> /\ cut' = FALSE)
      BY <1>4, Zenon DEF L!ReadLog, L!Truncate, L!Skip
    <2>3. tail' \in [LogEntry -> Seq(L!Line)]
      BY <1>1, <2>1, <2>2 DEF L!TypeOK
    <2>4. lat' \in [LogEntry -> {"wait", "append", "read", "truncate", "fill", "unlock", "end"}]
      BY <2>2 DEF L!TypeOK
    <2>5. log' \in Seq(L!Line) /\ cut' \in BOOLEAN /\ skipped' \in Nat
      <3>1. log \in Seq(L!Line) /\ cut \in BOOLEAN /\ skipped \in Nat
        BY DEF L!TypeOK
      <3>2. log' \in Seq(L!Line) /\ cut' \in BOOLEAN
        BY <1>1, <2>2, <3>1, Zenon
      <3>. QED  BY <2>2, <3>1, <3>2
    <2>6. LogLockInv'
      BY <2>2 DEF LogLockInv, L!TypeOK
    <2>. QED  BY <2>2, <2>3, <2>4, <2>5, <2>6 DEF L!TypeOK
  <1>5. ASSUME NEW e \in LogEntry, L!Fill(e) \/ L!Kill(e)
        PROVE  L!TypeOK' /\ LogLockInv'
    <2>1. /\ UNCHANGED <<loglock, unlocked, skipped>>
          /\ tail' = [tail EXCEPT ![e] = <<>>] /\ lat[e] \notin {"wait", "end"}
          /\ \E l \in {"end", "unlock"} : lat' = [lat EXCEPT ![e] = l]
          /\ \/ L!Filled(tail[e], FALSE) /\ UNCHANGED all
             \/ L!CutShort(e) \/ L!Halved \/ L!Nothing
      BY <1>5 DEF L!Fill, L!Kill
    <2>2. log' \in Seq(L!Line) /\ all' \in Seq(L!Line) /\ cut' \in BOOLEAN
      <3>1. CASE L!Filled(tail[e], FALSE) /\ UNCHANGED all
        <4>1. tail[e] \in Seq(L!Line) /\ all \in Seq(L!Line)
          BY DEF L!TypeOK
        <4>. QED  BY <3>1, <4>1, LogFilled
      <3>2. CASE L!CutShort(e)
        BY <3>2, LogCutShort
      <3>3. CASE L!Nothing
        BY <3>3 DEF L!Nothing, L!TypeOK
      <3>. QED  BY <2>1, <3>1, <3>2, <3>3, LineStep
    <2>. QED  BY <1>1, <2>1, <2>2 DEF L!TypeOK, LogLockInv
  <1>6. CASE UNCHANGED lvars
    BY <1>6 DEF lvars, L!TypeOK, LogLockInv
  <1>. QED  BY <1>2, <1>3, <1>4, <1>5, <1>6 DEF L!Next

\* After a step of the owner of the lock nobody else is at work.
LEMMA OwnerStep ==
  ASSUME LogLockInv', NEW e \in LogEntry, loglock' \in {e, None},
         lat'[e] # "fill" => LogFine', Knows(e)', loglock' = None => Below'
  PROVE  LogInv'
  <1>1. \A o \in LogEntry : o # e =>
          lat'[o] \notin {"append", "read", "truncate", "fill", "unlock"}
    BY LogLengths DEF LogLockInv, L!LogAssumption
  <1>2. \A o \in LogEntry : o # e => Knows(o)'
    BY <1>1 DEF Knows
  <1>3. \A o \in LogEntry : Knows(o)'
    <2>. HIDE DEF Knows
    <2>. QED  BY <1>2
  <1>. HIDE DEF Knows, LogFine, Below
  <1>. QED  BY <1>3 DEF LogInv

LEMMA LogStep ==
  ASSUME L!TypeOK, L!TypeOK', LogLockInv, LogLockInv', LogInv, ~unlocked', [L!Next]_lvars
  PROVE  LogInv'
  <1>. USE DEF L!Goto
  <1>0. /\ MaxLines \in Nat /\ TruncateTo \in Nat /\ TruncateTo < MaxLines
        /\ skipped \in Nat /\ skipped' \in Nat /\ None \notin LogEntry
        /\ log \in Seq(L!Line) /\ all \in Seq(L!Line) /\ Len(log) \in Nat
        /\ log' \in Seq(L!Line) /\ all' \in Seq(L!Line) /\ Len(log') \in Nat
        /\ cut \in BOOLEAN /\ unlocked \in BOOLEAN /\ DOMAIN lat = LogEntry /\ DOMAIN tail = LogEntry
    BY LogLengths DEF L!LogAssumption, L!TypeOK
  \* Nothing has moved but the place of one who was and is not at work.
  <1>1. ASSUME UNCHANGED <<log, cut, tail, all, unlocked, skipped, loglock>>,
               \/ lat' = lat
               \/ \E e \in LogEntry : lat[e] = "wait" /\ lat' = [lat EXCEPT ![e] = "end"]
        PROVE  LogInv'
    <2>1. Below' = Below /\ LogFine' = LogFine
      BY <1>1 DEF Below, LogFine, EndsWith
    <2>2. \A o \in LogEntry : lat'[o] = lat[o] \/ (lat[o] = "wait" /\ lat'[o] = "end")
      BY <1>0, <1>1
    <2>3. \A o \in LogEntry : Knows(o) => Knows(o)'
      BY <1>1, <2>1, <2>2 DEF Knows, EndsWith, L!Truncated
    <2>4. ~unlocked
      BY <1>1
    <2>. HIDE DEF Below, LogFine, Knows
    <2>. QED  BY <1>1, <2>1, <2>2, <2>3, <2>4 DEF LogInv
  <1>2. ASSUME NEW e \in LogEntry, L!Lock(e) \/ L!Unlock(e)
        PROVE  LogInv'
    <2>1. /\ UNCHANGED <<log, cut, tail, all, unlocked, skipped>>
          /\ \/ lat[e] = "wait" /\ loglock = None /\ lat'[e] = "append" /\ loglock' = e
             \/ lat[e] = "unlock" /\ lat'[e] = "end" /\ loglock' = None
      BY <1>0, <1>2 DEF L!Lock, L!Unlock
    <2>2. Below' = Below /\ LogFine' = LogFine
      BY <2>1 DEF Below, LogFine, EndsWith
    <2>3. Below
      BY <2>1 DEF LogInv, Knows
    <2>4. \A o \in LogEntry : lat[o] # "fill"
      BY <1>0, <2>1 DEF LogLockInv
    <2>5. LogFine
      BY <2>1, <2>4 DEF LogInv
    <2>6. Knows(e)'
      BY <2>1, <2>2, <2>3 DEF Knows
    <2>. HIDE DEF Below, LogFine, Knows
    <2>. QED  BY <2>1, <2>2, <2>3, <2>5, <2>6, OwnerStep
  <1>3. ASSUME NEW e \in LogEntry, L!AppendUnlocked(e)
        PROVE  LogInv'
    BY <1>1, <1>3 DEF L!AppendUnlocked, L!Nothing
  \* The owner of the lock finds a log that is as it should be, unless it fills it.
  <1>4. ASSUME NEW e \in LogEntry, lat[e] \in {"append", "read", "truncate", "unlock"}, ~unlocked
        PROVE  LogFine /\ loglock = e
    BY <1>4 DEF LogInv, LogLockInv
  \* An append, whole or half, of the owner.
  <1>5. ASSUME NEW e \in LogEntry, lat[e] = "append", ~unlocked, skipped' = skipped,
               L!Appended(e) \/ L!Halved
        PROVE  LogFine' /\ (L!Halved => Below')
    <2>1. LogFine /\ Below
      BY <1>4, <1>5 DEF LogInv, Knows
    <2>2. /\ Len(log') = IF cut THEN Len(log) ELSE Len(log) + 1
          /\ EndsWith(all, log) => EndsWith(all', log')
          /\ log = all => log' = all'
          /\ L!Halved => cut'
      BY <1>5, LineStep
    <2>3. Len(log') <= MaxLines + skipped' /\ Len(log') >= Len(log)
      BY <1>0, <1>5, <2>1, <2>2 DEF Below, LogFine
    <2>4. LogFine'
      BY <1>0, <2>1, <2>2, <2>3 DEF LogFine
    <2>. QED  BY <2>2, <2>3, <2>4 DEF Below
  <1>6. ASSUME NEW e \in LogEntry, L!AppendLocked(e)
        PROVE  LogInv'
    <2>1. /\ lat[e] = "append" /\ ~unlocked /\ loglock = e /\ loglock' = e /\ skipped' = skipped
          /\ \/ L!Appended(e) /\ lat'[e] = "read"
             \/ (L!Halved \/ L!Nothing) /\ lat'[e] = "unlock"
      BY <1>0, <1>6 DEF L!AppendLocked, LogLockInv
    <2>2. LogFine /\ Below
      BY <1>4, <2>1 DEF LogInv, Knows
    <2>3. CASE L!Appended(e) /\ lat'[e] = "read"
      <3>1. LogFine' /\ Knows(e)'
        BY <1>5, <2>1, <2>3 DEF Knows
      <3>. QED  BY <1>0, <2>1, <3>1, OwnerStep
    <2>4. CASE L!Halved /\ lat'[e] = "unlock"
      <3>1. LogFine' /\ Knows(e)'
        BY <1>5, <2>1, <2>4 DEF Knows
      <3>. QED  BY <1>0, <2>1, <3>1, OwnerStep
    <2>5. CASE L!Nothing /\ lat'[e] = "unlock"
      <3>1. LogFine' /\ Below'
        BY <2>1, <2>2, <2>5 DEF LogFine, Below, EndsWith, L!Nothing
      <3>2. Knows(e)'
        BY <2>5, <3>1 DEF Knows
      <3>. QED  BY <1>0, <2>1, <3>1, <3>2, OwnerStep
    <2>. QED  BY <2>1, <2>3, <2>4, <2>5
  \* A rotation that fails before it wrote.
  <1>7. ASSUME NEW e \in LogEntry, lat[e] \in {"read", "truncate"}, ~unlocked,
               L!Skip(e), UNCHANGED <<loglock, all>>
        PROVE  LogInv'
    <2>1. LogFine /\ loglock' = e /\ lat'[e] = "unlock" /\ skipped' = skipped + 1
          /\ UNCHANGED <<log, cut, all>>
      BY <1>0, <1>4, <1>7 DEF L!Skip
    <2>2. LogFine' /\ Below'
      BY <1>0, <2>1 DEF LogFine, Below, EndsWith
    <2>3. Knows(e)'
      BY <2>1, <2>2 DEF Knows
    <2>. QED  BY <1>0, <2>1, <2>2, <2>3, OwnerStep
  <1>8. ASSUME NEW e \in LogEntry, L!ReadLog(e)
        PROVE  LogInv'
    <2>1. lat[e] = "read" /\ ~unlocked /\ UNCHANGED <<loglock, all, unlocked>>
      BY <1>8 DEF L!ReadLog
    <2>2. LogFine /\ loglock' = e
      BY <1>4, <2>1
    <2>3. CASE L!Skip(e)
      BY <1>7, <2>1, <2>3
    <2>4. CASE ~L!Skip(e)
      <3>1. /\ UNCHANGED <<log, cut, skipped>>
            /\ \/ Len(log) >= MaxLines /\ lat'[e] = "truncate" /\ tail'[e] = L!Truncated(log)
               \/ Len(log) < MaxLines /\ lat'[e] = "unlock"
        BY <1>0, <1>8, <2>4 DEF L!ReadLog
      <3>2. LogFine' /\ L!Truncated(log)' = L!Truncated(log)
        BY <2>1, <2>2, <3>1 DEF LogFine, EndsWith, L!Truncated
      <3>3. Knows(e)'
        BY <1>0, <3>1, <3>2 DEF Knows, Below
      <3>. QED  BY <1>0, <2>2, <3>2, <3>3, OwnerStep
    <2>. QED  BY <2>3, <2>4
  <1>9. ASSUME NEW e \in LogEntry, L!Truncate(e)
        PROVE  LogInv'
    <2>1. lat[e] = "truncate" /\ ~unlocked /\ UNCHANGED <<loglock, all, unlocked>>
      BY <1>9 DEF L!Truncate
    <2>2. LogFine /\ loglock' = e /\ Len(log) >= MaxLines /\ tail[e] = L!Truncated(log)
      BY <1>4, <2>1 DEF LogInv, Knows
    <2>3. CASE L!Skip(e)
      BY <1>7, <2>1, <2>3
    <2>4. CASE ~L!Skip(e)
      <3>1. log' = <<>> /\ lat'[e] = "fill" /\ tail' = tail
        BY <1>0, <1>9, <2>4 DEF L!Truncate
      <3>2. Len(tail[e]) = TruncateTo /\ EndsWith(all, tail[e])
        BY <1>0, <2>2, EndsWithTruncated DEF LogFine
      <3>3. EndsWith(all, tail[e])'
        BY <2>1, <3>1, <3>2 DEF EndsWith
      <3>4. Knows(e)'
        BY <3>1, <3>2, <3>3 DEF Knows
      <3>. QED  BY <1>0, <2>2, <3>1, <3>4, OwnerStep
    <2>. QED  BY <2>3, <2>4
  \* What a rotation leaves when its write ends, or ends too soon.
  <1>10. ASSUME NEW e \in LogEntry, lat[e] = "fill", ~unlocked, skipped' = skipped,
                (L!Filled(tail[e], FALSE) /\ UNCHANGED all) \/ L!CutShort(e)
         PROVE  LogFine' /\ Below' /\ loglock = e
    <2>1. log = <<>> /\ Len(tail[e]) = TruncateTo /\ EndsWith(all, tail[e]) /\ loglock = e
      BY <1>10 DEF LogInv, Knows, LogLockInv
    <2>2. tail[e] \in Seq(L!Line)
      BY DEF L!TypeOK
    <2>3. CASE L!Filled(tail[e], FALSE) /\ UNCHANGED all
      <3>1. log' = tail[e]
        BY <2>1, <2>2, <2>3, LogFilled
      <3>2. EndsWith(all, log)'
        BY <2>1, <2>3, <3>1 DEF EndsWith
      <3>. QED  BY <1>0, <1>10, <2>1, <3>1, <3>2 DEF LogFine, Below
    <2>4. CASE L!CutShort(e)
      <3>1. all' = log' /\ Len(log') <= TruncateTo
        BY <2>1, <2>4, LogCutShort
      <3>2. EndsWith(all, log)'
        BY <1>0, <3>1 DEF EndsWith
      <3>. QED  BY <1>0, <1>10, <2>1, <3>1, <3>2 DEF LogFine, Below
    <2>. QED  BY <1>10, <2>3, <2>4
  <1>11. ASSUME NEW e \in LogEntry, L!Fill(e)
         PROVE  LogInv'
    <2>1. /\ lat[e] = "fill" /\ lat'[e] = "unlock" /\ ~unlocked
          /\ loglock' = loglock /\ skipped' = skipped
          /\ (L!Filled(tail[e], FALSE) /\ UNCHANGED all) \/ L!CutShort(e)
      BY <1>0, <1>11 DEF L!Fill
    <2>2. LogFine' /\ Below' /\ loglock = e
      BY <1>10, <2>1
    <2>3. Knows(e)'
      BY <2>1, <2>2 DEF Knows
    <2>. QED  BY <1>0, <2>1, <2>2, <2>3, OwnerStep
  <1>12. ASSUME NEW e \in LogEntry, L!Kill(e)
         PROVE  LogInv'
    <2>1. /\ lat[e] \notin {"wait", "end"} /\ lat'[e] = "end" /\ ~unlocked
          /\ loglock' = loglock /\ skipped' = skipped
          /\ \/ lat[e] # "fill" /\ L!Nothing
             \/ lat[e] = "append" /\ L!Halved
             \/ lat[e] = "fill" /\ L!CutShort(e)
      BY <1>0, <1>12 DEF L!Kill
    <2>2. lat[e] \in {"append", "read", "truncate", "fill", "unlock"} /\ loglock = e
      BY <2>1 DEF L!TypeOK, LogLockInv
    <2>3. LogFine'
      <3>1. CASE lat[e] # "fill" /\ L!Nothing
        <4>1. LogFine
          BY <1>4, <2>1, <2>2, <3>1
        <4>. QED  BY <2>1, <3>1, <4>1 DEF LogFine, EndsWith, L!Nothing
      <3>2. CASE lat[e] = "append" /\ L!Halved
        BY <1>5, <2>1, <3>2
      <3>3. CASE lat[e] = "fill" /\ L!CutShort(e)
        BY <1>10, <2>1, <3>3
      <3>. QED  BY <2>1, <3>1, <3>2, <3>3
    <2>4. Knows(e)'
      BY <2>1 DEF Knows
    <2>. QED  BY <1>0, <2>1, <2>2, <2>3, <2>4, OwnerStep
  <1>13. CASE UNCHANGED lvars
    BY <1>1, <1>13 DEF lvars
  <1>. QED
    BY <1>2, <1>3, <1>6, <1>8, <1>9, <1>11, <1>12, <1>13 DEF L!Next

\* As long as nobody appended without the lock, the log, or what the rotation
\* that has emptied it is about to write, has the newest lines in order, since the
\* last rotation that was cut short, and at most one more than MaxLines for each
\* rotation in a row that failed (rotateIfNeeded).
THEOREM OnlyOldEntriesAreLost == MCSpec => []LogIsRecent
  <1>. DEFINE Inv == side = "log" => L!TypeOK /\ LogLockInv /\ LogInv
  <1>1. MCInit => Inv
    BY LogInit, Zenon DEF MCInit
  <1>2. Inv /\ [MCNext]_MCvars => Inv'
    <2>1. L!TypeOK /\ LogLockInv /\ LogInv /\ [L!Next]_lvars
            => L!TypeOK' /\ LogLockInv' /\ LogInv'
      BY LogTypes, LogStep DEF LogInv
    <2>. QED  BY <2>1, OneSide, Zenon
  <1>3. Inv => LogIsRecent
    <2>1. ASSUME L!TypeOK, LogFine
          PROVE  L!Recent(log)
      BY <2>1, EndsWithIsSuffix DEF LogFine, L!Recent, L!TypeOK
    <2>2. ASSUME L!TypeOK, LogInv, ~unlocked, NEW e \in LogEntry, lat[e] = "fill"
          PROVE  L!Recent(tail[e])
      BY <2>2, EndsWithIsSuffix, LogLengths DEF LogInv, Knows, L!Recent, L!TypeOK, L!LogAssumption
    <2>. QED  BY <2>1, <2>2 DEF LogIsRecent, LogInv, L!LogIsRecent
  <1>. QED  BY <1>1, <1>2, <1>3, PTL DEF MCSpec

-----------------------------------------------------------------------------
(* The reset of the test database *)

\* A list of one value at most: its first is its last.
LEMMA OneValue ==
  ASSUME NEW X, NEW q \in Seq(X), Len(q) <= 1
  PROVE  q = <<>> \/ (1 \in DOMAIN q /\ Head(q) = q[1] /\ R!Last(q) = q[1])
  <1>1. CASE Len(q) = 0
    BY <1>1
  <1>2. CASE Len(q) = 1
    <2>1. R!Last(q) = q[1]
      BY <1>2, Zenon DEF R!Last
    <2>. QED  BY <1>2, <2>1
  <1>. Len(q) \in Nat
    OBVIOUS
  <1>. QED  BY <1>1, <1>2

\* Where a URL that is accepted leads is what the check compared: with one value
\* of each parameter and no blank in it, the driver has no choice the check does
\* not see.
LEMMA ReachedIsCompared ==
  ASSUME NEW u \in Url, ~R!Ambiguous(u), NEW d \in R!Reached(u)
  PROVE  /\ d.host \in R!ConnectionHosts(u) /\ d.port \in R!ConnectionPorts(u)
         /\ d.name = u.name
  <1>. DEFINE blank == [name |-> "", dot |-> FALSE]
              hosts == R!Given(u.hosts, blank, u.host)
              ports == R!Given(u.ports, 0, u.port)
  <1>1. /\ u.hosts \in Seq(Seq(R!HostName)) /\ u.ports \in Seq(Seq(Nat))
        /\ Len(u.hosts) <= 1 /\ Len(u.ports) <= 1
    <2>1. R!UrlOK(u)
      BY ResetUrls DEF R!ResetAssumption
    <2>2. u.hosts \in Seq(Seq(R!HostName)) /\ u.ports \in Seq(Seq(Nat))
      BY <2>1 DEF R!UrlOK
    <2>3. ~(Len(u.hosts) > 1) /\ ~(Len(u.ports) > 1)
      BY Zenon DEF R!Ambiguous
    <2>. QED  BY <2>2, <2>3
  <1>2. \/ u.hosts = <<>>
        \/ 1 \in DOMAIN u.hosts /\ Head(u.hosts) = u.hosts[1] /\ R!Last(u.hosts) = u.hosts[1]
    BY <1>1, OneValue, Zenon
  <1>3. \/ u.ports = <<>>
        \/ 1 \in DOMAIN u.ports /\ Head(u.ports) = u.ports[1] /\ R!Last(u.ports) = u.ports[1]
    BY <1>1, OneValue, Zenon
  <1>4. ASSUME 1 \in DOMAIN u.hosts
        PROVE  blank \notin R!Range(u.hosts[1])
    <2>. blank.name = ""
      OBVIOUS
    <2>. QED  BY <1>4, Zenon DEF R!Ambiguous
  <1>5. 1 \in DOMAIN u.ports => 0 \notin R!Range(u.ports[1])
    BY Zenon DEF R!Ambiguous
  <1>6. hosts = IF u.hosts = <<>> THEN {u.host} ELSE R!Range(Head(u.hosts))
    BY <1>2, <1>4, Zenon DEF R!Given
  <1>7. ports = R!ConnectionPorts(u)
    BY <1>3, <1>5, Zenon DEF R!Given, R!ConnectionPorts
  <1>8. d.host \in {R!Machine(h) : h \in hosts} /\ d.port \in ports /\ d.name = u.name
    BY DEF R!Reached
  <1>9. {R!Machine(h) : h \in hosts} = R!ConnectionHosts(u)
    BY <1>6, Zenon DEF R!ConnectionHosts, R!Normalized, R!Machine
  <1>. QED  BY <1>7, <1>8, <1>9, Zenon

\* What a run may drop is not what DATABASE_URL names.
LEMMA AcceptedIsSafe ==
  ASSUME NEW test \in R!Value, NEW app \in R!Value, R!Accepted(test, app),
         NEW d \in R!Reached(test)
  PROVE  d \notin R!ReachedBy(app)
  <1>1. CASE R!IsSet(app)
    <2>1. test \in Url /\ app \in Url /\ ~R!Ambiguous(test) /\ ~R!Ambiguous(app)
      BY <1>1 DEF R!Accepted, R!Value, R!IsSet
    <2>2. ~R!SameDatabaseTarget(test, app)
      BY <1>1 DEF R!Accepted
    <2>3. SUFFICES ASSUME d \in R!Reached(app) PROVE FALSE
      BY DEF R!ReachedBy
    <2>. QED  BY <2>1, <2>2, <2>3, ReachedIsCompared DEF R!SameDatabaseTarget
  <1>2. CASE ~R!IsSet(app)
    BY <1>2 DEF R!ReachedBy
  <1>. QED  BY <1>1, <1>2

\* A run that connects has read its settings, was told to by its caller and
\* accepted them.
Chosen(r) ==
  /\ env[r] = R!ResetEnvironment(caller[r]) /\ caller[r].confirmed
  /\ R!Accepted(env[r].test, env[r].app)

ResetInv ==
  /\ \A r \in Run :
       /\ rpc[r] \in {"connect", "drop", "read", "migrate", "close"} => Chosen(r)
       /\ rpc[r] \in {"drop", "read", "migrate"} => target[r] \in R!Reached(env[r].test)
       /\ rpc[r] \in {"start", "connect", "drop", "read", "migrate"} => ~failed[r]
  /\ \A r \in Run, d \in R!Database : <<r, d>> \in dropped =>
       rpc[r] \notin {"start", "connect", "drop"} /\ Chosen(r) /\ d \in R!Reached(env[r].test)

\* An empty schema is still to be migrated by a run that dropped it, or such a
\* run failed.
Owes(r, d) ==
  /\ <<r, d>> \in dropped
  /\ \/ failed[r]
     \/ target[r] = d /\ rpc[r] = "read"
     \/ target[r] = d /\ rpc[r] = "migrate" /\ ~executed[r]

SchemaInv ==
  /\ \A r \in Run, d \in R!Database : <<r, d>> \in dropped => tables[d] # "old"
  /\ \A d \in R!Database : tables[d] = "empty" => \E r \in Run : Owes(r, d)

LEMMA ResetInit ==
  ASSUME R!Init
  PROVE  R!TypeOK /\ ResetInv /\ SchemaInv
  BY DEF R!Init, R!TypeOK, R!Live, R!Dead, ResetInv, SchemaInv

\* What was chosen stays, as long as a run keeps its settings.
LEMMA ChosenStays ==
  ASSUME NEW r \in Run, UNCHANGED <<dotenv, caller>>, env'[r] = env[r]
  PROVE  Chosen(r)' <=> Chosen(r)
  BY DEF Chosen, R!ResetEnvironment, R!Over

\* The settings a run works with are settings.
LEMMA EnvironmentIsOK ==
  ASSUME R!TypeOK, NEW r \in Run, dotenv # Missing \/ R!IsSet(caller[r].test)
  PROVE  R!ResetEnvironment(caller[r]) \in R!Settings
  BY DEF R!TypeOK, R!ResetEnvironment, R!Over, R!Settings

\* A run connects to a database of an URL.
LEMMA ReachedIsDatabase ==
  ASSUME R!TypeOK, NEW r \in Run, R!Accepted(env[r].test, env[r].app)
  PROVE  R!Reached(env[r].test) \subseteq R!Database
  <1>1. env[r].test \in Url
    BY DEF R!TypeOK, R!Settings, R!Accepted, R!IsSet, R!Value
  <1>. QED  BY <1>1 DEF R!Database

LEMMA ConfigureStep ==
  ASSUME R!TypeOK, ResetInv, SchemaInv, NEW r \in Run, R!Configure(r)
  PROVE  R!TypeOK' /\ ResetInv' /\ SchemaInv'
  <1>. DEFINE e == R!ResetEnvironment(caller[r])
              ok == e.confirmed /\ R!Accepted(e.test, e.app)
  <1>1. /\ rpc[r] = "start"
        /\ UNCHANGED <<dotenv, caller, target, executed, tables, dropped>>
    BY DEF R!Configure
  <1>2. CASE dotenv = Missing /\ ~R!IsSet(caller[r].test)
    <2>1. UNCHANGED env /\ rpc' = [rpc EXCEPT ![r] = "done"] /\ failed' = [failed EXCEPT ![r] = TRUE]
      BY <1>2 DEF R!Configure, R!Goto, R!Fails
    <2>2. R!TypeOK'
      BY <1>1, <2>1 DEF R!TypeOK, R!Live, R!Dead
    <2>3. \A q \in Run : Chosen(q)' <=> Chosen(q)
      BY <1>1, <2>1, ChosenStays
    <2>4. ResetInv'
      BY <1>1, <2>1, <2>3 DEF R!TypeOK, ResetInv
    <2>5. SchemaInv'
      BY <1>1, <2>1 DEF R!TypeOK, ResetInv, SchemaInv, Owes
    <2>. QED  BY <2>2, <2>4, <2>5
  <1>3. CASE ~(dotenv = Missing /\ ~R!IsSet(caller[r].test))
    <2>1. /\ env' = [env EXCEPT ![r] = e]
          /\ rpc' = [rpc EXCEPT ![r] = IF ok THEN "connect" ELSE "done"]
          /\ failed' = [failed EXCEPT ![r] = ~ok]
      BY <1>3, Zenon DEF R!Configure, R!Goto, R!Fails
    <2>2. e \in R!Settings
      BY <1>3, EnvironmentIsOK
    <2>3. ok \in BOOLEAN
      BY <2>2 DEF R!Accepted, R!Settings
    <2>. HIDE DEF ok
    <2>4. R!TypeOK'
      BY <1>1, <2>1, <2>2, <2>3 DEF R!TypeOK, R!Live, R!Dead
    <2>5. \A q \in Run \ {r} : env'[q] = env[q] /\ (Chosen(q)' <=> Chosen(q))
      BY <1>1, <2>1, ChosenStays DEF R!TypeOK
    <2>6. env'[r] = e /\ (ok => Chosen(r)')
      <3>1. env'[r] = e
        BY <2>1 DEF R!TypeOK
      <3>2. e = R!ResetEnvironment(caller[r])'
        BY <1>1 DEF R!ResetEnvironment, R!Over
      <3>3. e.confirmed = caller[r].confirmed
        BY DEF R!ResetEnvironment
      <3>. QED  BY <1>1, <3>1, <3>2, <3>3, Zenon DEF Chosen, ok
    <2>7. ResetInv'
      BY <1>1, <2>1, <2>3, <2>5, <2>6 DEF R!TypeOK, ResetInv
    <2>8. SchemaInv'
      BY <1>1, <2>1 DEF R!TypeOK, ResetInv, SchemaInv, Owes
    <2>. QED  BY <2>4, <2>7, <2>8
  <1>. QED  BY <1>2, <1>3

\* After its settings, what a run does to the database it chose.
LEMMA ResetStep ==
  ASSUME R!TypeOK, ResetInv, SchemaInv, [R!Next]_rvars
  PROVE  R!TypeOK' /\ ResetInv' /\ SchemaInv'
  <1>. DEFINE Inv == R!TypeOK /\ ResetInv /\ SchemaInv
  <1>. USE DEF R!Goto, R!Fails
  <1>1. ASSUME UNCHANGED <<dotenv, caller, env>>
        PROVE  \A q \in Run : Chosen(q)' <=> Chosen(q)
    BY <1>1, ChosenStays
  <1>2. ASSUME NEW r \in Run, R!Initialize(r)
        PROVE  Inv'
    <2>1. /\ rpc[r] = "connect" /\ Chosen(r)
          /\ UNCHANGED <<dotenv, caller, env, executed, tables, dropped>>
      BY <1>2 DEF R!Initialize, ResetInv
    <2>2. R!Reached(env[r].test) \subseteq R!Database
      BY <2>1, ReachedIsDatabase DEF Chosen
    <2>3. CASE /\ rpc' = [rpc EXCEPT ![r] = "drop"] /\ UNCHANGED failed
               /\ \E d \in R!Reached(env[r].test) : target' = [target EXCEPT ![r] = d]
      <3>1. R!TypeOK'
        BY <2>1, <2>2, <2>3 DEF R!TypeOK, R!Live, R!Dead
      <3>2. ResetInv'
        BY <1>1, <2>1, <2>3 DEF R!TypeOK, ResetInv
      <3>3. SchemaInv'
        BY <2>1, <2>3 DEF R!TypeOK, SchemaInv, Owes
      <3>. QED  BY <3>1, <3>2, <3>3
    <2>4. CASE rpc' = [rpc EXCEPT ![r] = "done"] /\ failed' = [failed EXCEPT ![r] = TRUE] /\ UNCHANGED target
      BY <1>1, <2>1, <2>4 DEF R!TypeOK, R!Live, R!Dead, ResetInv, SchemaInv, Owes
    <2>. QED  BY <1>2, <2>3, <2>4 DEF R!Initialize
  <1>3. ASSUME NEW r \in Run, R!Drop(r)
        PROVE  Inv'
    <2>1. /\ rpc[r] = "drop" /\ Chosen(r) /\ target[r] \in R!Reached(env[r].test)
          /\ UNCHANGED <<dotenv, caller, env, failed, target, executed>>
          /\ rpc' = [rpc EXCEPT ![r] = "read"]
      BY <1>3 DEF R!Drop, ResetInv
    <2>2. /\ tables' = [tables EXCEPT ![target[r]] = "empty"]
          /\ dropped' = dropped \cup {<<r, target[r]>>}
      BY <1>3 DEF R!Drop
    <2>3. target[r] \in R!Database
      BY <2>1, ReachedIsDatabase DEF Chosen
    <2>4. R!TypeOK'
      BY <2>1, <2>2, <2>3 DEF R!TypeOK, R!Live, R!Dead
    <2>5. ResetInv'
      BY <1>1, <2>1, <2>2 DEF R!TypeOK, ResetInv
    <2>6. SchemaInv'
      BY <2>1, <2>2, <2>3 DEF R!TypeOK, SchemaInv, Owes
    <2>. QED  BY <2>4, <2>5, <2>6
  <1>4. ASSUME NEW r \in Run, R!ReadExecuted(r)
        PROVE  Inv'
    <2>1. R!TypeOK'
      BY <1>4 DEF R!ReadExecuted, R!TypeOK, R!Live, R!Dead
    <2>2. ResetInv'
      BY <1>1, <1>4 DEF R!ReadExecuted, R!TypeOK, ResetInv
    <2>3. SchemaInv'
      <3>1. executed' = [executed EXCEPT ![r] = (tables[target[r]] = "migrated")]
        BY <1>4 DEF R!ReadExecuted
      <3>2. \A q \in Run, d \in R!Database : tables[d] = "empty" /\ Owes(q, d) => Owes(q, d)'
        BY <1>4, <3>1 DEF R!ReadExecuted, R!TypeOK, Owes
      <3>3. UNCHANGED <<tables, dropped>>
        BY <1>4 DEF R!ReadExecuted
      <3>. QED  BY <3>2, <3>3 DEF SchemaInv
    <2>. QED  BY <2>1, <2>2, <2>3
  <1>5. ASSUME NEW r \in Run, R!RunMigrations(r)
        PROVE  Inv'
    <2>. DEFINE clash == ~executed[r] /\ tables[target[r]] # "empty"
    <2>1. /\ rpc[r] = "migrate" /\ rpc' = [rpc EXCEPT ![r] = "close"]
          /\ failed' = [failed EXCEPT ![r] = clash]
          /\ tables' = IF executed[r] \/ clash THEN tables ELSE [tables EXCEPT ![target[r]] = "migrated"]
          /\ UNCHANGED <<dotenv, caller, env, target, executed, dropped>>
      BY <1>5, Zenon DEF R!RunMigrations
    <2>2. clash \in BOOLEAN
      BY DEF R!TypeOK
    <2>3. \A d \in R!Database : tables'[d] \in {tables[d], "migrated"}
      BY <2>1 DEF R!TypeOK
    <2>4. \A q \in Run, d \in R!Database : tables'[d] = "empty" /\ Owes(q, d) => Owes(q, d)'
      BY <2>1 DEF R!TypeOK, ResetInv, Owes
    <2>. HIDE DEF clash
    <2>5. R!TypeOK'
      BY <2>1, <2>2 DEF R!TypeOK, R!Live, R!Dead
    <2>6. ResetInv'
      BY <1>1, <2>1, <2>2 DEF R!TypeOK, ResetInv
    <2>7. SchemaInv'
      BY <2>1, <2>3, <2>4 DEF R!TypeOK, SchemaInv
    <2>. QED  BY <2>5, <2>6, <2>7
  <1>6. ASSUME NEW r \in Run, NEW l \in {"drop", "read", "migrate"}, R!Throw(r, l)
        PROVE  Inv'
    BY <1>1, <1>6 DEF R!Throw, R!TypeOK, R!Live, R!Dead, ResetInv, SchemaInv, Owes
  <1>7. ASSUME NEW r \in Run, R!Destroy(r)
        PROVE  Inv'
    <2>1. \E v \in BOOLEAN : (failed[r] => v) /\ failed' = [failed EXCEPT ![r] = v]
      BY <1>7, Zenon DEF R!Destroy
    <2>2. PICK v \in BOOLEAN : (failed[r] => v) /\ failed' = [failed EXCEPT ![r] = v]
      BY <2>1
    <2>3. /\ rpc[r] = "close" /\ rpc' = [rpc EXCEPT ![r] = "done"]
          /\ UNCHANGED <<dotenv, caller, env, target, executed, tables, dropped>>
      BY <1>7, Zenon DEF R!Destroy
    <2>4. R!TypeOK'
      BY <2>2, <2>3 DEF R!TypeOK, R!Live, R!Dead
    <2>5. ResetInv'
      BY <1>1, <2>2, <2>3 DEF R!TypeOK, ResetInv
    <2>6. SchemaInv'
      BY <2>2, <2>3 DEF R!TypeOK, SchemaInv, Owes
    <2>. QED  BY <2>4, <2>5, <2>6
  <1>8. ASSUME NEW r \in Run, R!Kill(r)
        PROVE  Inv'
    BY <1>1, <1>8 DEF R!Kill, R!TypeOK, R!Live, R!Dead, ResetInv, SchemaInv, Owes
  <1>9. CASE UNCHANGED rvars
    BY <1>1, <1>9 DEF rvars, R!TypeOK, R!Live, R!Dead, ResetInv, SchemaInv, Owes
  <1>. QED
    BY <1>2, <1>3, <1>4, <1>5, <1>6, <1>7, <1>8, <1>9, ConfigureStep, Zenon DEF R!Next, R!Step

\* The database a run may drop is never the one DATABASE_URL names in the
\* settings it works with, in whatever spelling and through whichever of the
\* driver's parameters; the one DATABASE_URL names in .env is dropped only by a
\* run given another by its caller; and a run drops with its caller's word
\* (getTestDatabaseConfig, getResetEnvironment).
THEOREM TheApplicationIsSafe == MCSpec => []ApplicationSafe
  <1>. DEFINE Inv == side = "reset" => R!TypeOK /\ ResetInv /\ SchemaInv
  <1>1. MCInit => Inv
    BY ResetInit, Zenon DEF MCInit
  <1>2. Inv /\ [MCNext]_MCvars => Inv'
    BY OneSide, ResetStep, Zenon
  <1>3. Inv => ApplicationSafe
    <2>. SUFFICES ASSUME side = "reset", R!TypeOK, ResetInv, NEW r \in Run, NEW d \in R!Database,
                         <<r, d>> \in dropped
                  PROVE  /\ d \notin R!ReachedBy(env[r].app)
                         /\ dotenv # Missing /\ d \in R!ReachedBy(dotenv.app) =>
                              R!IsSet(caller[r].test) \/ caller[r].app # Unset
                         /\ caller[r].confirmed
      BY Zenon DEF ApplicationSafe, R!ApplicationSafe
    <2>1. Chosen(r) /\ d \in R!Reached(env[r].test)
      BY DEF ResetInv
    <2>2. env[r].test \in R!Value /\ env[r].app \in R!Value
      BY DEF R!TypeOK, R!Settings
    <2>3. d \notin R!ReachedBy(env[r].app)
      BY <2>1, <2>2, AcceptedIsSafe, Zenon DEF Chosen
    <2>4. ~R!IsSet(caller[r].test) /\ caller[r].app = Unset => env[r].app = dotenv.app
      BY <2>1 DEF Chosen, R!ResetEnvironment, R!Over
    <2>5. caller[r].confirmed
      BY <2>1, Zenon DEF Chosen
    <2>. QED  BY <2>3, <2>4, <2>5, Zenon
  <1>. QED  BY <1>1, <1>2, <1>3, PTL DEF MCSpec

\* When every run is over and all that dropped a database report success, its
\* schema is migrated, however they overlapped (runDatabaseReset).
THEOREM SuccessMeansMigrated == MCSpec => []SuccessIsMigrated
  <1>. DEFINE Inv == side = "reset" => R!TypeOK /\ ResetInv /\ SchemaInv
  <1>1. MCInit => Inv
    BY ResetInit, Zenon DEF MCInit
  <1>2. Inv /\ [MCNext]_MCvars => Inv'
    BY OneSide, ResetStep, Zenon
  <1>3. Inv => SuccessIsMigrated
    <2>. SUFFICES ASSUME side = "reset", R!TypeOK, SchemaInv, NEW x \in dropped,
                         \A r \in Run : rpc[r] \in R!Dead /\ (<<r, x[2]>> \in dropped => ~failed[r])
                  PROVE  tables[x[2]] = "migrated"
      BY DEF SuccessIsMigrated, R!SuccessIsMigrated
    <2>. DEFINE d == x[2]
    <2>1. x[1] \in Run /\ d \in R!Database /\ x = <<x[1], d>>
      BY DEF R!TypeOK
    <2>2. tables[d] \in {"old", "empty", "migrated"}
      BY <2>1 DEF R!TypeOK
    <2>3. tables[d] # "old"
      BY <2>1 DEF SchemaInv
    <2>4. tables[d] # "empty"
      BY <2>1 DEF SchemaInv, Owes, R!Dead
    <2>. QED  BY <2>2, <2>3, <2>4
  <1>. QED  BY <1>1, <1>2, <1>3, PTL DEF MCSpec
=============================================================================
