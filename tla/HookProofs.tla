------------------------------ MODULE HookProofs ------------------------------
(***************************************************************************)
(* What the hooks of the coding kit share, for any hooks, sessions and     *)
(* times: the memory queue, the session file, the telemetry buffer and the *)
(* throttles.  Where a property has an excuse (fault, together, disturbed) *)
(* the invariant has two parts: what always holds, and what holds until    *)
(* the excuse.                                                             *)
(***************************************************************************)
EXTENDS MCTooling, Sequences, FiniteSetTheorems, TLAPS

\* A behaviour is one of the instances, from its first state to its last.
LEMMA OneSide ==
  ASSUME [MCNext]_MCvars
  PROVE  /\ side' = side
         /\ side = "session" => [Next]_vars
         /\ side = "throttle" => [T!Next]_tvars
         /\ side = "queue" => [M!Next]_mvars
         /\ side = "telemetry" => [E!Next]_evars
  <1>1. CASE UNCHANGED MCvars
    BY <1>1 DEF MCvars
  <1>2. CASE MCNext
    <2>. HIDE DEF Next, R!Next, L!Next, G!Next, S!Next, T!Next, M!Next, E!Next, U!Next
    <2>. QED  BY <1>2, Zenon DEF MCNext
  <1>. QED  BY <1>1, <1>2

-----------------------------------------------------------------------------
(* The memory queue *)

\* A hook's file holds what it captured; no file is of a time to come.
CaptureInv ==
  /\ graph # None => graph <= mclock
  /\ \A h \in Capturer :
       /\ mat[h] \in {"open", "write", "link"} => text[h] \in M!Capture
       /\ mat[h] \in {"write", "link"} => capture[h] # None /\ capture[h].text = text[h]
       /\ mat[h] = "link" => capture[h].whole
       /\ capture[h] # None => capture[h].mtime <= mclock

\* A session's capture is the first that was linked, and one that the extraction
\* under way has not read was linked late or is in the graph already.
QueueInv == \A s \in Session :
  /\ first[s] = None <=> queue[s] = None
  /\ queue[s] # None =>
       /\ queue[s].whole /\ queue[s].text = first[s]
       /\ queue[s].mtime <= mclock
       /\ s \in M!Pending \cup folded \cup late
       /\ scanned # None => s \in scanned \cup folded \cup late

LEMMA QueueInit ==
  ASSUME M!Init
  PROVE  M!TypeOK /\ CaptureInv /\ QueueInv
  <1>1. M!TypeOK
    <2>1. 0 \in 0..MaxClock /\ 0 \in 0..Length
      BY QueueFiles DEF M!QueueAssumption
    <2>. QED  BY <2>1, Zenon DEF M!Init, M!TypeOK
  <1>2. CaptureInv /\ QueueInv
    BY DEF M!Init, CaptureInv, QueueInv
  <1>. QED  BY <1>1, <1>2

\* What is captured of a session that is long enough.
LEMMA CappedType ==
  ASSUME NEW n \in 0..Length, n >= MinTurns
  PROVE  M!Capped(n) \in M!Capture
  BY QueueFiles DEF M!QueueAssumption, M!Capped, M!Capture

LEMMA QueueStep ==
  ASSUME M!TypeOK, CaptureInv, QueueInv, [M!Next]_mvars
  PROVE  M!TypeOK' /\ CaptureInv' /\ QueueInv'
  <1>. DEFINE Inv == M!TypeOK /\ CaptureInv /\ QueueInv
  <1>. USE DEF M!Goto
  <1>. Home \in [Capturer -> Session] /\ None \notin M!File /\ None \notin M!Capture
    BY QueueFiles DEF M!QueueAssumption
  <1>. MaxClock \in Nat /\ Length \in Nat
    BY QueueFiles DEF M!QueueAssumption
  <1>1. ASSUME NEW s \in Session, M!AddTurn(s)
        PROVE  Inv'
    BY <1>1 DEF M!AddTurn, M!TypeOK, CaptureInv, QueueInv, M!Pending
  <1>2. ASSUME NEW h \in Capturer, M!Begin(h)
        PROVE  Inv'
    <2>1. turns[Home[h]] < MinTurns \/ M!Capped(turns[Home[h]]) \in M!Capture
      <3>1. turns[Home[h]] \in 0..Length /\ MinTurns \in Nat
        BY QueueFiles DEF M!QueueAssumption, M!TypeOK
      <3>. QED  BY <3>1, CappedType
    <2>. QED
      <3>1. M!TypeOK' /\ CaptureInv'
        BY <1>2, <2>1 DEF M!Begin, M!TypeOK, CaptureInv
      <3>2. QueueInv'
        BY <1>2 DEF M!Begin, QueueInv, M!Pending
      <3>. QED  BY <3>1, <3>2
  <1>3. ASSUME NEW h \in Capturer, M!Open(h)
        PROVE  Inv'
    <2>. DEFINE f == [text |-> text[h], whole |-> FALSE, mtime |-> mclock']
    <2>1. /\ mat[h] = "open" /\ mat' = [mat EXCEPT ![h] = "write"]
          /\ mclock' \in {mclock, mclock + 1} /\ mclock' \in 0..MaxClock
          /\ capture' = [capture EXCEPT ![h] = f]
          /\ UNCHANGED <<turns, queue, text, graph, scanned, folded, first, late>>
      BY <1>3 DEF M!Open, M!Time, M!TypeOK
    <2>2. f \in M!File /\ f.text = text[h] /\ f.mtime = mclock'
      BY <2>1 DEF M!File, CaptureInv
    <2>. HIDE DEF f
    <2>3. M!TypeOK'
      BY <2>1, <2>2 DEF M!TypeOK
    <2>4. CaptureInv'
      BY <2>1, <2>2 DEF M!TypeOK, M!File, CaptureInv
    <2>5. QueueInv'
      BY <2>1 DEF M!TypeOK, M!File, QueueInv, M!Pending
    <2>. QED  BY <2>3, <2>4, <2>5
  <1>4. ASSUME NEW h \in Capturer, M!Write(h)
        PROVE  Inv'
    <2>. DEFINE f == [capture[h] EXCEPT !.whole = TRUE, !.mtime = mclock']
    <2>4. /\ mat[h] = "write" /\ mat' = [mat EXCEPT ![h] = "link"]
          /\ mclock' \in {mclock, mclock + 1} /\ mclock' \in 0..MaxClock
          /\ UNCHANGED <<turns, queue, text, graph, scanned, folded, first, late>>
      BY <1>4 DEF M!Write, M!Time
    <2>5. capture[h] \in M!File /\ capture[h].text = text[h]
      BY <2>4 DEF M!TypeOK, CaptureInv
    <2>6. capture' = [capture EXCEPT ![h] = f]
      BY <1>4, <2>5 DEF M!Write, M!TypeOK, M!File
    <2>7. f \in M!File /\ f.text = text[h] /\ f.whole /\ f.mtime = mclock'
      BY <2>4, <2>5 DEF M!File
    <2>. HIDE DEF f
    <2>8. mclock \in Nat /\ mclock' \in Nat /\ mclock <= mclock'
      BY <2>4 DEF M!TypeOK
    <2>9. \A g \in Capturer : capture[g] # None => capture[g].mtime \in Nat
      BY DEF M!TypeOK, M!File
    <2>10. \A s \in Session : queue[s] # None => queue[s].mtime \in Nat
      BY DEF M!TypeOK, M!File
    <2>1. M!TypeOK'
      BY <2>4, <2>6, <2>7 DEF M!TypeOK
    <2>2. CaptureInv'
      BY <2>4, <2>6, <2>7, <2>8, <2>9 DEF M!TypeOK, CaptureInv
    <2>3. QueueInv'
      BY <2>4, <2>8, <2>10 DEF QueueInv, M!Pending
    <2>. QED  BY <2>1, <2>2, <2>3
  <1>5. ASSUME NEW h \in Capturer, M!Link(h)
        PROVE  Inv'
    <2>. DEFINE s == Home[h]
    <2>1. s \in Session /\ text[h] \in M!Capture /\ capture[h] \in M!File
      BY <1>5 DEF M!Link, M!TypeOK, CaptureInv
    <2>2. /\ capture[h].whole /\ capture[h].text = text[h] /\ capture[h].mtime <= mclock
      BY <1>5, <2>1 DEF M!Link, CaptureInv
    <2>3. /\ mat[h] = "link" /\ mat' = [mat EXCEPT ![h] = "unlink"]
          /\ queue' = [queue EXCEPT ![s] = IF queue[s] = None THEN capture[h] ELSE queue[s]]
          /\ first' = [first EXCEPT ![s] = IF first[s] = None THEN text[h] ELSE first[s]]
          /\ late' = IF queue[s] = None /\ M!IsLate(capture[h]) THEN late \cup {s} ELSE late
          /\ UNCHANGED <<mclock, turns, capture, text, graph, scanned, folded>>
      BY <1>5 DEF M!Link, M!Linked
    <2>4. M!TypeOK'
      BY <2>1, <2>3 DEF M!TypeOK
    <2>5. CaptureInv'
      BY <2>3 DEF M!TypeOK, CaptureInv
    <2>6. \A q \in Session \ {s} : queue'[q] = queue[q] /\ first'[q] = first[q]
      BY <2>3 DEF M!TypeOK
    <2>7. CASE queue[s] = None
      <3>1. queue'[s] = capture[h] /\ first'[s] = text[h]
        BY <2>1, <2>3, <2>7 DEF M!TypeOK, QueueInv
      <3>2. s \in late' \/ (scanned = None /\ (graph = None \/ capture[h].mtime > graph))
        <4>1. capture[h].mtime \in Int
          BY <2>1 DEF M!File
        <4>2. graph # None => graph \in Int
          BY DEF M!TypeOK
        <4>. QED  BY <2>2, <2>3, <2>7, <4>1, <4>2 DEF M!IsLate
      <3>3. QueueInv'
        BY <2>1, <2>2, <2>3, <2>6, <3>1, <3>2 DEF QueueInv, M!Pending
      <3>. QED  BY <2>4, <2>5, <3>3
    <2>8. CASE queue[s] # None
      <3>1. UNCHANGED <<queue, first, late>>
        BY <2>1, <2>3, <2>8 DEF M!TypeOK, QueueInv
      <3>. QED  BY <2>3, <2>4, <2>5, <3>1 DEF QueueInv, M!Pending
    <2>. QED  BY <2>4, <2>5, <2>7, <2>8
  <1>6. ASSUME NEW h \in Capturer, M!LinkFails(h) \/ M!Unlink(h) \/ M!Fail(h)
        PROVE  Inv'
    BY <1>6 DEF M!LinkFails, M!Unlink, M!Fail, M!TypeOK, CaptureInv, QueueInv, M!Pending
  <1>7. CASE M!Scan
    BY <1>7 DEF M!Scan, M!TypeOK, CaptureInv, QueueInv, M!Pending
  <1>8. CASE M!Extracted
    <2>1. M!TypeOK'
      BY <1>8 DEF M!Extracted, M!Time, M!TypeOK, M!File, CaptureInv
    <2>2. CaptureInv'
      BY <1>8 DEF M!Extracted, M!Time, M!TypeOK, M!File, CaptureInv
    <2>3. QueueInv'
      BY <1>8 DEF M!Extracted, M!Time, M!TypeOK, M!File, CaptureInv, QueueInv, M!Pending
    <2>. QED  BY <2>1, <2>2, <2>3
  <1>9. CASE UNCHANGED mvars
    BY <1>9 DEF mvars, M!TypeOK, CaptureInv, QueueInv, M!Pending
  <1>. QED  BY <1>1, <1>2, <1>3, <1>4, <1>5, <1>6, <1>7, <1>8, <1>9 DEF M!Next

\* However many hooks of a session race, fail or are killed, its capture is whole
\* and the first one linked, for good; and one the graph has not is counted as
\* pending, unless an extraction was under way between its writing and its
\* linking, or ended in the moment it was written (writeQueueFile, countPending).
THEOREM EveryCaptureIsKept == MCSpec => []CapturesKept
  <1>. DEFINE Inv == side = "queue" => M!TypeOK /\ CaptureInv /\ QueueInv
  <1>1. MCInit => Inv
    BY QueueInit, Zenon DEF MCInit
  <1>2. Inv /\ [MCNext]_MCvars => Inv'
    BY OneSide, QueueStep, Zenon
  <1>3. Inv => CapturesKept
    BY DEF CapturesKept, QueueInv, M!CapturesKept
  <1>. QED  BY <1>1, <1>2, <1>3, PTL DEF MCSpec

-----------------------------------------------------------------------------
(* The session file: the invariant *)

\* The entry e of a scope stands in the way of a hook that reserves it, as long
\* as a reservation of time c and a delivery of time m count at time t.
Covers(e, c, m, t) ==
  /\ c # None => \/ e.state = "pending" /\ e.at >= c
                 \/ e.state = "recent" /\ e.at + RecentTTL >= c + PendingTTL
                 \/ t - c >= PendingTTL
  /\ m # None => \/ e.state = "recent" /\ e.at >= m
                 \/ t - m >= RecentTTL

EntryOf(f, g) == f.scopes[role[g].scope]

\* A hook that takes a reservation back has one.
HookInv(h) ==
  /\ since[h] <= now
  /\ pc[h] = "idle" => step[h] # "clear"
  /\ pc[h] = "deliver" /\ reserved[h] => claimed[h] # None
  /\ pc[h] = "release" /\ step[h] = "reserve" /\ wants[h] /\ result[h] => claimed[h] # None
  /\ pc[h] \in {"open", "stat", "unlink", "read", "write"} /\ step[h] = "clear" => claimed[h] # None

\* The hook at work owns the lock.
LockInv == \A h \in Hook : pc[h] \in Section => lock # None /\ lock.owner = h

\* What happened is in the past, the file stands in the way of what counts now,
\* and reservations of one scope are PendingTTL apart.
FileInv ==
  /\ \A g \in Hook :
       /\ claimed[g] # None => claimed[g] <= now
       /\ marked[g] # None => marked[g] <= now
       /\ Covers(EntryOf(file, g), claimed[g], marked[g], now)
  /\ \A g, h \in Hook :
       g = h \/ role[g].scope # role[h].scope \/ claimed[g] = None \/ claimed[h] = None
         \/ claimed[g] - claimed[h] >= PendingTTL \/ claimed[h] - claimed[g] >= PendingTTL
  /\ milestone => file.milestone

\* A hook at work began after all that happened.
SectionInv(h) == pc[h] \in {"read", "write"} => \A g \in Hook :
  /\ claimed[g] # None => claimed[g] <= since[h]
  /\ marked[g] # None => marked[g] <= since[h]
  /\ Covers(EntryOf(file, g), claimed[g], marked[g], since[h])

\* What a write of f makes of the history of its hook, w if it wants to deliver.
AfterClaim(w, h) ==
  IF step[h] = "reserve" /\ w THEN since[h] ELSE IF step[h] = "clear" THEN None ELSE claimed[h]
AfterMark(f, h) == IF step[h] = "mark" THEN EntryOf(f, h).at ELSE marked[h]

\* A reservation may be written only when no other counts, and no delivery.
Permitted(h) == \A g \in Hook : g # h /\ role[g].scope = role[h].scope =>
  /\ claimed[g] # None => since[h] - claimed[g] >= PendingTTL
  /\ marked[g] # None => since[h] - marked[g] >= RecentTTL

\* A write of f keeps FileInv.
Writable(f, w, h) ==
  /\ file.milestone \/ step[h] = "milestone" => f.milestone
  /\ step[h] = "reserve" /\ w => Permitted(h)
  /\ step[h] = "mark" => EntryOf(f, h).at <= now
  /\ \A g \in Hook : g # h => Covers(EntryOf(f, g), claimed[g], marked[g], now)
  /\ Covers(EntryOf(f, h), AfterClaim(w, h), AfterMark(f, h), now)

WriteInv(h) == pc[h] = "write" => Writable(next[h], wants[h], h)

\* What holds as long as no rule was broken.
Sound == LockInv /\ FileInv /\ \A h \in Hook : SectionInv(h) /\ WriteInv(h)

SessionInv == (\A h \in Hook : HookInv(h)) /\ (fault \/ Sound)

-----------------------------------------------------------------------------
(* The session file: the types *)

LEMMA EvictedType ==
  ASSUME NEW scopes \in [Scope -> Entry], NEW t
  PROVE  Evicted(scopes, t) \in [Scope -> Entry]
  BY DEF Evicted, Entry, NoEntry

LEMMA RoleType ==
  ASSUME TypeOK, NEW h \in Hook
  PROVE  role[h].scope \in Scope /\ role[h].kind \in {"prompt", "start", "milestone"}
  BY HookAssumption DEF TypeOK

LEMMA NoStateType == NoState \in File
  BY DEF NoState, File, Entry, NoEntry

\* An update makes a file of a file.
LEMMA UpdatedType ==
  ASSUME TypeOK, NEW h \in Hook, NEW f \in File
  PROVE  Updated(f, h) \in File
  <1>. DEFINE s == role[h].scope
  <1>1. s \in Scope
    BY RoleType
  <1>2. f.scopes \in [Scope -> Entry] /\ f.milestone \in BOOLEAN
    BY DEF File
  <1>3. since[h] \in 0..MaxTime /\ now \in 0..MaxTime
    BY DEF TypeOK
  <1>4. ASSUME NEW g \in [Scope -> Entry]
        PROVE  [f EXCEPT !.scopes = g] \in File
    BY <1>4 DEF File
  <1>5. ASSUME NEW t, NEW e \in Entry
        PROVE  [f EXCEPT !.scopes = [Evicted(f.scopes, t) EXCEPT ![s] = e]] \in File
    BY <1>2, <1>4, EvictedType
  <1>6. Reserved(f, h) \in File
    <2>1. [state |-> IF found[h] THEN "recent" ELSE "pending", at |-> since[h]] \in Entry
      BY <1>3 DEF Entry
    <2>. QED  BY <1>5, <2>1 DEF Reserved
  <1>7. Marked(f, h) \in File
    <2>1. [state |-> "recent", at |-> now] \in Entry
      BY <1>3 DEF Entry
    <2>. QED  BY <1>5, <2>1 DEF Marked
  <1>8. Cleared(f, h) \in File
    <2>1. NoEntry \in Entry
      BY DEF Entry
    <2>. QED  BY <1>5, <2>1 DEF Cleared
  <1>9. [f EXCEPT !.milestone = TRUE] \in File
    BY DEF File
  <1>10. step[h] \in {"reserve", "mark", "clear", "start", "milestone"}
    BY DEF TypeOK
  <1>. QED  BY <1>6, <1>7, <1>8, <1>9, <1>10 DEF Updated, Started

LEMMA SessionTypes == TypeOK /\ [Next]_vars => TypeOK'
  <1>. SUFFICES ASSUME TypeOK, [Next]_vars PROVE TypeOK'
    OBVIOUS
  <1>. NoState \in File
    BY NoStateType
  <1>. USE DEF TypeOK, Goto, Begin, Harm, Forget, update, hooks, history, Section, Ended
  <1>1. ASSUME NEW h \in Hook, Start(h)
        PROVE  TypeOK'
    BY <1>1 DEF Start
  <1>2. ASSUME NEW h \in Hook, Open(h)
        PROVE  TypeOK'
    <2>1. lock' \in [owner : Hook, old : BOOLEAN]
      BY <1>2 DEF Open
    <2>. QED  BY <1>2, <2>1 DEF Open
  <1>3. ASSUME NEW h \in Hook, Busy(h) \/ Stat(h)
        PROVE  TypeOK'
    BY <1>3 DEF Busy, Stat
  <1>4. ASSUME NEW h \in Hook, Unlink(h)
        PROVE  TypeOK'
    BY <1>4 DEF Unlink, Robs
  <1>5. ASSUME NEW h \in Hook, GiveUp(h)
        PROVE  TypeOK'
    <2>1. lock' \in [owner : Hook, old : BOOLEAN] \cup {None}
      <3>1. [owner |-> h, old |-> FALSE] \in [owner : Hook, old : BOOLEAN]
        OBVIOUS
      <3>2. lock' \in {lock} \cup {[owner |-> g, old |-> FALSE] : g \in IF lock = None THEN {h} ELSE {}}
        BY <1>5, Zenon DEF GiveUp
      <3>3. lock' = lock \/ lock' = [owner |-> h, old |-> FALSE]
        BY <3>2
      <3>4. lock \in [owner : Hook, old : BOOLEAN] \cup {None}
        BY DEF TypeOK
      <3>. HIDE DEF TypeOK
      <3>. QED  BY <3>1, <3>3, <3>4, Zenon
    <2>2. /\ UNCHANGED <<now, file, role, step, since, found, history, fault>>
          /\ Return(h, FALSE)
      BY <1>5, Zenon DEF GiveUp
    <2>. QED  BY <2>1, <2>2 DEF Return
  <1>6. ASSUME NEW h \in Hook, Read(h)
        PROVE  TypeOK'
    <2>1. PICK f \in {file, NoState} : next' = [next EXCEPT ![h] = Updated(f, h)]
      BY <1>6, Zenon DEF Read
    <2>2. Updated(f, h) \in File
      BY <2>1, UpdatedType, Zenon DEF TypeOK
    <2>3. next' \in [Hook -> File]
      BY <2>1, <2>2
    <2>4. wants' \in [Hook -> BOOLEAN] /\ fault' \in BOOLEAN
      BY <1>6 DEF Read
    <2>. QED  BY <1>6, <2>3, <2>4 DEF Read
  <1>7. ASSUME NEW h \in Hook, Write(h)
        PROVE  TypeOK'
    <2>0. /\ file' = next[h] \/ file' = file
          /\ \E b \in BOOLEAN : result' = [result EXCEPT ![h] = b]
          /\ milestone' = (milestone \/ step[h] = "milestone") \/ milestone' = milestone
      BY <1>7 DEF Write, Recorded
    <2>1. file' \in File /\ result' \in [Hook -> BOOLEAN] /\ milestone' \in BOOLEAN
      <3>1. file' \in File
        BY <2>0
      <3>2. result' \in [Hook -> BOOLEAN]
        BY <2>0
      <3>3. milestone' \in BOOLEAN
        BY <2>0, Zenon
      <3>. QED  BY <3>1, <3>2, <3>3
    <2>2. claimed' \in [Hook -> (0..MaxTime) \cup {None}]
      BY <1>7 DEF Write, Recorded
    <2>3. marked' \in [Hook -> (0..MaxTime) \cup {None}]
      <3>1. EntryOf(next[h], h).at \in 0..MaxTime
        <4>1. EntryOf(next[h], h) \in Entry
          BY RoleType DEF EntryOf, File
        <4>. QED  BY <4>1, HookAssumption DEF Entry, NoEntry
      <3>. QED  BY <1>7, <3>1 DEF Write, Recorded, EntryOf
    <2>. QED  BY <1>7, <2>1, <2>2, <2>3 DEF Write, Recorded
  <1>8. ASSUME NEW h \in Hook, Release(h)
        PROVE  TypeOK'
    BY <1>8 DEF Release, Return, Robs
  <1>9. ASSUME NEW h \in Hook, Deliver(h) \/ DeliverFails(h) \/ Kill(h)
        PROVE  TypeOK'
    <2>1. CASE Deliver(h)
      BY <2>1 DEF Deliver
    <2>2. CASE DeliverFails(h)
      BY <2>2 DEF DeliverFails
    <2>3. CASE Kill(h)
      BY <2>3 DEF Kill
    <2>. QED  BY <1>9, <2>1, <2>2, <2>3
  <1>10. CASE Age
    <2>1. lock' \in [owner : Hook, old : BOOLEAN]
      BY <1>10 DEF Age
    <2>. QED  BY <1>10, <2>1 DEF Age
  <1>11. CASE Tick
    <2>1. now' \in 0..MaxTime
      BY <1>11, HookAssumption DEF Tick
    <2>. QED  BY <1>11, <2>1 DEF Tick
  <1>12. CASE UNCHANGED vars
    BY <1>12 DEF vars
  <1>. QED  BY <1>1, <1>2, <1>3, <1>4, <1>5, <1>6, <1>7, <1>8, <1>9, <1>10, <1>11, <1>12 DEF Next

-----------------------------------------------------------------------------
(* The session file: entries *)

\* What stands in the way at a time, or has expired, is no more at a later one.
LEMMA CoversLater ==
  ASSUME NEW e, NEW c \in Nat \cup {None}, NEW m \in Nat \cup {None}, NEW t \in Nat, NEW u \in Nat,
         Covers(e, c, m, t), t <= u
  PROVE  Covers(e, c, m, u)
  BY HookAssumption DEF Covers

\* An entry that expired stood in the way of nothing that counts.
LEMMA EvictedCovers ==
  ASSUME NEW scopes \in [Scope -> Entry], NEW s \in Scope, NEW t \in Nat,
         NEW c \in Nat \cup {None}, NEW m \in Nat \cup {None}, Covers(scopes[s], c, m, t)
  PROVE  Covers(Evicted(scopes, t)[s], c, m, t)
  <1>. DEFINE e == scopes[s]
  <1>1. e.at \in Nat
    BY HookAssumption DEF Entry, NoEntry
  <1>2. CASE Within(e, t)
    BY <1>2 DEF Evicted
  <1>3. CASE ~Within(e, t)
    <2>1. c # None => t - c >= PendingTTL
      BY <1>1, <1>3, HookAssumption DEF Covers, Within
    <2>2. m # None => t - m >= RecentTTL
      BY <1>1, <1>3, HookAssumption DEF Covers, Within
    <2>3. Evicted(scopes, t)[s] = NoEntry
      BY <1>3 DEF Evicted
    <2>. QED  BY <2>1, <2>2, <2>3 DEF Covers
  <1>. QED  BY <1>2, <1>3

\* Where there is no entry, nothing counts.
LEMMA NothingCounts ==
  ASSUME NEW c \in Nat \cup {None}, NEW m \in Nat \cup {None}, NEW t \in Nat, Covers(NoEntry, c, m, t)
  PROVE  (c # None => t - c >= PendingTTL) /\ (m # None => t - m >= RecentTTL)
  BY HookAssumption DEF Covers, NoEntry

-----------------------------------------------------------------------------
(* The session file: each hook keeps its reservation in mind *)

LEMMA HooksStep ==
  ASSUME TypeOK, TypeOK', \A h \in Hook : HookInv(h), [Next]_vars
  PROVE  \A h \in Hook : HookInv(h)'
  <1>. USE DEF TypeOK, HookInv, Goto, Begin, Forget, update, hooks, history, Section, Ended
  <1>1. ASSUME NEW h \in Hook, Start(h) \/ Open(h) \/ Busy(h) \/ Stat(h) \/ Unlink(h)
        PROVE  \A g \in Hook : HookInv(g)'
    BY <1>1 DEF Start, Open, Busy, Stat, Unlink
  <1>2. ASSUME NEW h \in Hook, GiveUp(h)
        PROVE  \A g \in Hook : HookInv(g)'
    BY <1>2 DEF GiveUp, Return
  <1>3. ASSUME NEW h \in Hook, Read(h)
        PROVE  \A g \in Hook : HookInv(g)'
    BY <1>3 DEF Read
  <1>4. ASSUME NEW h \in Hook, Write(h)
        PROVE  \A g \in Hook : HookInv(g)'
    BY <1>4, HookAssumption DEF Write, Recorded
  <1>5. ASSUME NEW h \in Hook, Release(h)
        PROVE  \A g \in Hook : HookInv(g)'
    BY <1>5 DEF Release, Return
  <1>6. ASSUME NEW h \in Hook, Deliver(h) \/ DeliverFails(h)
        PROVE  \A g \in Hook : HookInv(g)'
    BY <1>6 DEF Deliver, DeliverFails
  <1>7. ASSUME NEW h \in Hook, Kill(h)
        PROVE  \A g \in Hook : HookInv(g)'
    BY <1>7 DEF Kill
  <1>8. CASE Age \/ Tick
    BY <1>8, HookAssumption DEF Age, Tick
  <1>9. CASE UNCHANGED vars
    BY <1>9 DEF vars
  <1>. QED  BY <1>1, <1>2, <1>3, <1>4, <1>5, <1>6, <1>7, <1>8, <1>9 DEF Next

-----------------------------------------------------------------------------
(* The session file: what an update makes of the file may be written *)

\* The times of a hook, and its entry.
LEMMA TimeType ==
  ASSUME TypeOK, NEW g \in Hook
  PROVE  /\ now \in Nat /\ since[g] \in Nat /\ claimed[g] \in Nat \cup {None}
         /\ marked[g] \in Nat \cup {None}
         /\ None \notin Nat \/ claimed[g] \in Nat \/ claimed[g] = None
         /\ role[g].scope \in Scope /\ file.scopes \in [Scope -> Entry]
  <1>1. role[g].scope \in Scope
    BY RoleType
  <1>2. file.scopes \in [Scope -> Entry]
    BY DEF TypeOK, File
  <1>. QED  BY <1>1, <1>2, HookAssumption DEF TypeOK

\* A reservation of a scope without an entry.
LEMMA ReserveWrites ==
  ASSUME TypeOK, NEW h \in Hook, pc[h] = "read", HookInv(h), SectionInv(h), step[h] = "reserve",
         NEW w, w = (~found[h] /\ Evicted(file.scopes, since[h])[role[h].scope] = NoEntry)
  PROVE  Writable(Reserved(file, h), w, h)
  <1>. DEFINE s == role[h].scope
              kept == Evicted(file.scopes, since[h])
              t == since[h]
              new == [state |-> IF found[h] THEN "recent" ELSE "pending", at |-> t]
  <1>0. t \in Nat /\ now \in Nat /\ t <= now /\ s \in Scope
    BY TimeType DEF HookInv
  <1>1. ASSUME NEW g \in Hook
        PROVE  /\ Covers(EntryOf(file, g), claimed[g], marked[g], t)
               /\ Covers(kept[role[g].scope], claimed[g], marked[g], t)
    <2>1. Covers(EntryOf(file, g), claimed[g], marked[g], t)
      BY DEF SectionInv
    <2>. QED  BY <2>1, TimeType, EvictedCovers DEF EntryOf
  <1>2. CASE kept[s] # NoEntry
    <2>1. Reserved(file, h) = file /\ ~w
      BY <1>2 DEF Reserved
    <2>2. ASSUME NEW g \in Hook
          PROVE  Covers(EntryOf(file, g), claimed[g], marked[g], now)
      BY <1>0, <1>1, TimeType, CoversLater
    <2>. QED  BY <2>1, <2>2 DEF Writable, AfterClaim, AfterMark
  <1>3. CASE kept[s] = NoEntry
    <2>. DEFINE f == Reserved(file, h)
    <2>1. f.milestone = file.milestone /\ f.scopes = [kept EXCEPT ![s] = new]
      BY <1>3 DEF Reserved, TypeOK, File
    <2>2. ASSUME NEW g \in Hook, role[g].scope = s
          PROVE  /\ claimed[g] # None => t - claimed[g] >= PendingTTL
                 /\ marked[g] # None => t - marked[g] >= RecentTTL
      <3>1. Covers(NoEntry, claimed[g], marked[g], t)
        BY <1>1, <1>3, <2>2
      <3>. QED  BY <3>1, <1>0, TimeType, NothingCounts
    <2>3. ASSUME NEW g \in Hook
          PROVE  Covers(EntryOf(f, g), claimed[g], marked[g], t)
      <3>1. kept \in [Scope -> Entry]
        BY TimeType, EvictedType
      <3>2. CASE role[g].scope = s
        BY <2>2, <3>2 DEF Covers
      <3>3. CASE role[g].scope # s
        <4>1. EntryOf(f, g) = kept[role[g].scope]
          BY <2>1, <3>1, <3>3, TimeType DEF EntryOf
        <4>. QED  BY <4>1, <1>1
      <3>. QED  BY <3>2, <3>3
    <2>4. ASSUME NEW g \in Hook
          PROVE  Covers(EntryOf(f, g), claimed[g], marked[g], now)
      BY <1>0, <2>3, TimeType, CoversLater
    <2>5. Covers(EntryOf(f, h), AfterClaim(w, h), marked[h], now)
      <3>1. CASE w
        <4>1. kept \in [Scope -> Entry]
          BY TimeType, EvictedType
        <4>2. EntryOf(f, h) = new
          BY <2>1, <4>1, TimeType DEF EntryOf
        <4>3. new.state = "pending" /\ new.at = t
          BY <3>1
        <4>4. AfterClaim(w, h) = t
          BY <3>1 DEF AfterClaim
        <4>5. marked[h] # None => now - marked[h] >= RecentTTL
          BY <2>2, <1>0, TimeType, HookAssumption
        <4>. HIDE DEF new, f, t
        <4>. QED  BY <1>0, <4>2, <4>3, <4>4, <4>5 DEF Covers
      <3>2. CASE ~w
        BY <2>4, <3>2 DEF AfterClaim
      <3>. QED  BY <3>1, <3>2
    <2>6. Permitted(h)
      BY <2>2 DEF Permitted
    <2>. QED  BY <2>1, <2>4, <2>5, <2>6 DEF Writable, AfterMark
  <1>. QED  BY <1>2, <1>3

\* What stands in the way when a hook began still does, in what is not evicted.
LEMMA StillCovers ==
  ASSUME TypeOK, NEW h \in Hook, pc[h] = "read", HookInv(h), SectionInv(h), NEW g \in Hook
  PROVE  /\ Covers(EntryOf(file, g), claimed[g], marked[g], now)
         /\ Covers(Evicted(file.scopes, now)[role[g].scope], claimed[g], marked[g], now)
  <1>1. Covers(EntryOf(file, g), claimed[g], marked[g], since[h]) /\ since[h] <= now
    BY DEF SectionInv, HookInv
  <1>2. Covers(EntryOf(file, g), claimed[g], marked[g], now)
    BY <1>1, TimeType, CoversLater
  <1>. QED  BY <1>2, TimeType, EvictedCovers DEF EntryOf

\* The record of a delivery.
LEMMA MarkWrites ==
  ASSUME TypeOK, NEW h \in Hook, pc[h] = "read", HookInv(h), SectionInv(h), step[h] = "mark", NEW w
  PROVE  Writable(Marked(file, h), w, h)
  <1>. DEFINE s == role[h].scope
              kept == Evicted(file.scopes, now)
              new == [state |-> "recent", at |-> now]
              f == Marked(file, h)
  <1>1. f.milestone = file.milestone /\ f.scopes = [kept EXCEPT ![s] = new]
    BY DEF Marked, TypeOK, File
  <1>2. kept \in [Scope -> Entry] /\ s \in Scope
    BY TimeType, EvictedType
  <1>3. new.state = "recent" /\ new.at = now
    OBVIOUS
  <1>4. ASSUME NEW g \in Hook
        PROVE  /\ claimed[g] # None => claimed[g] <= now
               /\ marked[g] # None => marked[g] <= now
    BY TimeType DEF SectionInv, HookInv
  <1>5. ASSUME NEW g \in Hook
        PROVE  Covers(EntryOf(f, g), claimed[g], marked[g], now)
    <2>1. CASE role[g].scope = s
      <3>1. EntryOf(f, g) = new
        BY <1>1, <1>2, <2>1 DEF EntryOf
      <3>. HIDE DEF new, f
      <3>. QED  BY <1>3, <1>4, <3>1, TimeType, HookAssumption DEF Covers
    <2>2. CASE role[g].scope # s
      <3>1. EntryOf(f, g) = kept[role[g].scope]
        BY <1>1, <1>2, <2>2, TimeType DEF EntryOf
      <3>. QED  BY <3>1, StillCovers
    <2>. QED  BY <2>1, <2>2
  <1>6. EntryOf(f, h).state = "recent" /\ EntryOf(f, h).at = now
    BY <1>1, <1>2 DEF EntryOf
  <1>7. AfterClaim(w, h) = claimed[h] /\ AfterMark(f, h) = now
    BY <1>6 DEF AfterClaim, AfterMark
  <1>8. Covers(EntryOf(f, h), claimed[h], now, now)
    <2>. HIDE DEF f
    <2>. QED  BY <1>4, <1>6, TimeType, HookAssumption DEF Covers
  <1>9. now <= now
    BY TimeType
  <1>. QED  BY <1>1, <1>5, <1>6, <1>7, <1>8, <1>9 DEF Writable

\* The rollback of a reservation that has not expired.
LEMMA ClearWrites ==
  ASSUME TypeOK, NEW h \in Hook, pc[h] = "read", HookInv(h), FileInv, SectionInv(h),
         step[h] = "clear", NEW w, now - claimed[h] < PendingTTL
  PROVE  Writable(Cleared(file, h), w, h)
  <1>. DEFINE s == role[h].scope
              kept == Evicted(file.scopes, now)
              f == Cleared(file, h)
  <1>1. kept \in [Scope -> Entry] /\ s \in Scope
    BY TimeType, EvictedType
  <1>2. claimed[h] \in Nat /\ now \in Nat
    BY TimeType DEF HookInv
  <1>3. AfterClaim(w, h) = None /\ AfterMark(f, h) = marked[h]
    BY DEF AfterClaim, AfterMark
  <1>4. CASE kept[s].state # "pending"
    <2>1. f = file
      BY <1>4 DEF Cleared
    <2>2. Covers(EntryOf(f, h), None, marked[h], now)
      BY <2>1, StillCovers DEF Covers
    <2>. QED  BY <1>3, <2>1, <2>2, StillCovers DEF Writable
  <1>5. CASE kept[s].state = "pending"
    <2>1. f.milestone = file.milestone /\ f.scopes = [kept EXCEPT ![s] = NoEntry]
      BY <1>5 DEF Cleared, TypeOK, File
    <2>2. ASSUME NEW g \in Hook, role[g].scope = s
          PROVE  marked[g] # None => now - marked[g] >= RecentTTL
      <3>1. Covers(kept[s], claimed[g], marked[g], now)
        BY <2>2, StillCovers
      <3>. QED  BY <1>5, <3>1 DEF Covers
    <2>3. ASSUME NEW g \in Hook, g # h, role[g].scope = s
          PROVE  claimed[g] # None => now - claimed[g] >= PendingTTL
      <3>1. SUFFICES ASSUME claimed[g] # None PROVE now - claimed[g] >= PendingTTL
        OBVIOUS
      <3>2. claimed[g] \in Nat /\ claimed[g] <= now
        BY <3>1, TimeType DEF FileInv
      <3>3. claimed[g] - claimed[h] >= PendingTTL \/ claimed[h] - claimed[g] >= PendingTTL
        BY <2>3, <3>1 DEF FileInv, HookInv
      <3>4. claimed[h] <= now
        BY TimeType DEF FileInv, HookInv
      <3>. QED  BY <1>2, <3>2, <3>3, <3>4, HookAssumption
    <2>4. ASSUME NEW g \in Hook, g # h
          PROVE  Covers(EntryOf(f, g), claimed[g], marked[g], now)
      <3>1. CASE role[g].scope = s
        BY <2>2, <2>3, <2>4, <3>1 DEF Covers
      <3>2. CASE role[g].scope # s
        <4>1. EntryOf(f, g) = kept[role[g].scope]
          BY <1>1, <2>1, <3>2, TimeType DEF EntryOf
        <4>. QED  BY <4>1, StillCovers
      <3>. QED  BY <3>1, <3>2
    <2>5. Covers(EntryOf(f, h), None, marked[h], now)
      BY <2>2 DEF Covers
    <2>. QED  BY <1>3, <2>1, <2>4, <2>5 DEF Writable
  <1>. QED  BY <1>4, <1>5

\* The other updates leave the scopes alone.
LEMMA OtherWrites ==
  ASSUME TypeOK, NEW h \in Hook, pc[h] = "read", HookInv(h), SectionInv(h),
         step[h] \in {"start", "milestone"}, NEW w
  PROVE  Writable(Updated(file, h), w, h)
  <1>1. Updated(file, h).scopes = file.scopes
    BY DEF Updated, Started, TypeOK, File
  <1>2. file.milestone \/ step[h] = "milestone" => Updated(file, h).milestone
    BY DEF Updated, Started, TypeOK, File
  <1>3. ASSUME NEW g \in Hook
        PROVE  Covers(EntryOf(Updated(file, h), g), claimed[g], marked[g], now)
    BY <1>1, StillCovers DEF EntryOf
  <1>. QED  BY <1>2, <1>3 DEF Writable, AfterClaim, AfterMark

-----------------------------------------------------------------------------
(* The session file: every step keeps the invariant *)

\* A step that changes neither the file nor its history, and only the hook h,
\* which is not about to write after it.
LEMMA Frame ==
  ASSUME TypeOK, Sound, NEW h \in Hook, pc'[h] \notin {"read", "write"},
         UNCHANGED <<now, file, role, claimed, marked, milestone>>,
         \A g \in Hook : g # h => /\ pc'[g] = pc[g] /\ step'[g] = step[g] /\ since'[g] = since[g]
                                  /\ wants'[g] = wants[g] /\ next'[g] = next[g]
  PROVE  FileInv' /\ \A g \in Hook : SectionInv(g)' /\ WriteInv(g)'
  <1>. USE DEF Sound
  <1>1. FileInv'
    BY DEF FileInv, EntryOf
  <1>2. ASSUME NEW g \in Hook
        PROVE  SectionInv(g)'
    BY DEF SectionInv, EntryOf
  <1>3. ASSUME NEW g \in Hook
        PROVE  WriteInv(g)'
    BY DEF WriteInv, Writable, Permitted, AfterClaim, AfterMark, EntryOf
  <1>. QED  BY <1>1, <1>2, <1>3

\* Whoever is at work is alone.
LEMMA Alone ==
  ASSUME LockInv, NEW g \in Hook, NEW h \in Hook, pc[g] \in Section, pc[h] \in Section
  PROVE  g = h
  BY DEF LockInv

LEMMA SoundStep ==
  ASSUME TypeOK, TypeOK', \A h \in Hook : HookInv(h), Sound, ~fault', [Next]_vars
  PROVE  Sound'
  <1>. USE DEF Goto, Begin, Forget, update, hooks, history
  <1>1. ASSUME NEW h \in Hook, Start(h) \/ Busy(h) \/ Stat(h) \/ Deliver(h) \/ DeliverFails(h) \/ Kill(h)
        PROVE  Sound'
    <2>1. /\ UNCHANGED <<now, file, role, claimed, marked, milestone, lock>>
          /\ pc'[h] \notin Section
          /\ \A g \in Hook : g # h => /\ pc'[g] = pc[g] /\ step'[g] = step[g] /\ since'[g] = since[g]
                                      /\ wants'[g] = wants[g] /\ next'[g] = next[g]
      BY <1>1 DEF Start, Busy, Stat, Deliver, DeliverFails, Kill, TypeOK, Section
    <2>2. LockInv'
      BY <2>1 DEF LockInv, Sound
    <2>. QED  BY <2>1, <2>2, Frame DEF Sound, Section
  <1>2. ASSUME NEW h \in Hook, GiveUp(h)
        PROVE  Sound'
    <2>1. /\ UNCHANGED <<now, file, role, claimed, marked, milestone>>
          /\ pc'[h] \notin Section
          /\ \A g \in Hook : g # h => /\ pc'[g] = pc[g] /\ step'[g] = step[g] /\ since'[g] = since[g]
                                      /\ wants'[g] = wants[g] /\ next'[g] = next[g]
      BY <1>2 DEF GiveUp, Return, TypeOK, Section
    <2>2. lock' = lock \/ lock = None
      <3>1. lock' \in {lock} \cup {[owner |-> g, old |-> FALSE] : g \in IF lock = None THEN {h} ELSE {}}
        BY <1>2, Zenon DEF GiveUp
      <3>. QED  BY <3>1
    <2>3. LockInv'
      BY <2>1, <2>2 DEF LockInv, Sound
    <2>. QED  BY <2>1, <2>3, Frame DEF Sound, Section
  <1>3. ASSUME NEW h \in Hook, Open(h)
        PROVE  Sound'
    <2>1. /\ lock = None /\ now = since[h] /\ lock' = [owner |-> h, old |-> FALSE]
          /\ pc'[h] = "read" /\ UNCHANGED <<now, file, role, claimed, marked, milestone, since>>
          /\ \A g \in Hook : g # h => pc'[g] = pc[g]
      BY <1>3 DEF Open, TypeOK
    <2>2. \A g \in Hook : g # h => pc'[g] \notin Section
      BY <2>1 DEF LockInv, Sound
    <2>3. LockInv'
      <3>1. lock' \in [owner : Hook, old : BOOLEAN]
        BY <2>1
      <3>2. lock' # None /\ lock'.owner = h
        BY <2>1, <3>1, HookAssumption
      <3>. QED  BY <2>2, <3>2 DEF LockInv
    <2>4. FileInv'
      BY <2>1 DEF FileInv, EntryOf, Sound
    <2>5. ASSUME NEW g \in Hook
          PROVE  SectionInv(g)' /\ WriteInv(g)'
      BY <2>1, <2>2 DEF SectionInv, WriteInv, FileInv, Section, EntryOf, Sound
    <2>. QED  BY <2>3, <2>4, <2>5 DEF Sound
  <1>4. ASSUME NEW h \in Hook, Unlink(h) \/ Release(h)
        PROVE  Sound'
    <2>1. /\ UNCHANGED <<now, file, role, claimed, marked, milestone>>
          /\ pc'[h] \notin Section /\ ~Robs(h)
          /\ \A g \in Hook : g # h => /\ pc'[g] = pc[g] /\ step'[g] = step[g] /\ since'[g] = since[g]
                                      /\ wants'[g] = wants[g] /\ next'[g] = next[g]
      BY <1>4 DEF Unlink, Release, Return, TypeOK, Section, Harm
    <2>2. \A g \in Hook : pc'[g] \notin Section
      BY <2>1 DEF LockInv, Robs, Sound
    <2>3. LockInv'
      BY <2>2 DEF LockInv
    <2>. QED  BY <2>1, <2>3, Frame DEF Sound, Section
  <1>5. ASSUME NEW h \in Hook, Read(h)
        PROVE  Sound'
    <2>. DEFINE tooLate == step[h] = "clear" /\ claimed[h] # None /\ now - claimed[h] >= PendingTTL
    <2>1. PICK f \in {file, NoState} :
            /\ next' = [next EXCEPT ![h] = Updated(f, h)]
            /\ wants' = [wants EXCEPT ![h] =
                 step[h] = "reserve" /\ ~found[h] /\ Evicted(f.scopes, since[h])[role[h].scope] = NoEntry]
            /\ Harm(f # file \/ tooLate)
      BY <1>5, Zenon DEF Read
    <2>2. /\ pc[h] = "read" /\ pc'[h] = "write" /\ \A g \in Hook : g # h => pc'[g] = pc[g]
          /\ UNCHANGED <<now, file, lock, role, claimed, marked, milestone, step, since, found>>
      BY <1>5 DEF Read, TypeOK
    <2>3. f = file /\ ~tooLate
      BY <2>1 DEF Harm
    <2>4. /\ next'[h] = Updated(file, h)
          /\ wants'[h] = (step[h] = "reserve" /\ ~found[h]
                          /\ Evicted(file.scopes, since[h])[role[h].scope] = NoEntry)
      BY <2>1, <2>3 DEF TypeOK
    <2>. HIDE DEF tooLate
    <2>5. HookInv(h) /\ SectionInv(h)
      BY DEF Sound
    <2>6. Writable(next'[h], wants'[h], h)
      <3>1. CASE step[h] = "reserve"
        BY <2>2, <2>4, <2>5, <3>1, ReserveWrites DEF Updated
      <3>2. CASE step[h] = "mark"
        BY <2>2, <2>4, <2>5, <3>2, MarkWrites DEF Updated
      <3>3. CASE step[h] = "clear"
        <4>1. now - claimed[h] < PendingTTL
          <5>1. claimed[h] # None
            BY <2>2, <2>5, <3>3 DEF HookInv
          <5>. QED  BY <2>3, <3>3, <5>1, TimeType, HookAssumption DEF tooLate
        <4>. QED  BY <2>2, <2>4, <2>5, <3>3, <4>1, ClearWrites DEF Updated, Sound
      <3>4. CASE step[h] \in {"start", "milestone"}
        BY <2>2, <2>4, <2>5, <3>4, OtherWrites
      <3>. QED  BY <3>1, <3>2, <3>3, <3>4 DEF TypeOK
    <2>7. LockInv' /\ FileInv'
      BY <2>2 DEF LockInv, FileInv, EntryOf, Section, Sound
    <2>8. ASSUME NEW g \in Hook
          PROVE  SectionInv(g)'
      BY <2>2 DEF SectionInv, EntryOf, Sound
    <2>9. ASSUME NEW g \in Hook
          PROVE  WriteInv(g)'
      <3>1. CASE g = h
        BY <2>2, <2>6, <3>1 DEF WriteInv, Writable, Permitted, AfterClaim, AfterMark, EntryOf
      <3>2. CASE g # h
        <4>1. pc'[g] \notin Section
          BY <2>2, <3>2, Alone DEF Section, Sound
        <4>. QED  BY <4>1 DEF WriteInv, Section
      <3>. QED  BY <3>1, <3>2
    <2>. QED  BY <2>7, <2>8, <2>9 DEF Sound
  <1>6. ASSUME NEW h \in Hook, Write(h)
        PROVE  Sound'
    <2>1. /\ pc[h] = "write" /\ pc'[h] = "release" /\ \A g \in Hook : g # h => pc'[g] = pc[g]
          /\ UNCHANGED <<now, lock, role, step, since, found, wants, next>>
      BY <1>6 DEF Write, TypeOK
    <2>2. \A g \in Hook : pc'[g] \notin {"read", "write"}
      BY <2>1, Alone DEF Section, Sound
    <2>3. LockInv'
      BY <2>1 DEF LockInv, Section, Sound
    <2>4. \A g \in Hook : SectionInv(g)' /\ WriteInv(g)'
      BY <2>2 DEF SectionInv, WriteInv
    <2>5. CASE UNCHANGED <<file, history>>
      <3>1. FileInv'
        BY <2>1, <2>5 DEF FileInv, EntryOf, Sound
      <3>. QED  BY <2>3, <2>4, <3>1 DEF Sound
    <2>6. CASE file' = next[h] /\ Recorded(h)
      <3>1. Writable(next[h], wants[h], h)
        BY <2>1 DEF WriteInv, Sound
      <3>2. /\ claimed' = [claimed EXCEPT ![h] = AfterClaim(wants[h], h)]
            /\ marked' = [marked EXCEPT ![h] = AfterMark(next[h], h)]
            /\ milestone' = (milestone \/ step[h] = "milestone")
        BY <2>6 DEF Recorded, AfterClaim, AfterMark, EntryOf
      <3>3. /\ claimed'[h] = AfterClaim(wants[h], h) /\ marked'[h] = AfterMark(next[h], h)
            /\ \A g \in Hook : g # h => claimed'[g] = claimed[g] /\ marked'[g] = marked[g]
        BY <3>2 DEF TypeOK
      <3>4. ASSUME NEW g \in Hook
            PROVE  Covers(EntryOf(file', g), claimed'[g], marked'[g], now)
        BY <2>6, <3>1, <3>3 DEF Writable
      <3>5. since[h] <= now /\ since[h] \in Nat /\ now \in Nat
        BY TimeType DEF HookInv
      <3>6. ASSUME NEW g \in Hook
            PROVE  /\ claimed'[g] # None => claimed'[g] <= now
                   /\ marked'[g] # None => marked'[g] <= now
        <4>1. CASE g # h
          BY <3>3, <4>1 DEF FileInv, Sound
        <4>2. CASE g = h
          BY <3>1, <3>3, <3>5, <4>2 DEF FileInv, Sound, Writable, AfterClaim, AfterMark
        <4>. QED  BY <4>1, <4>2
      <3>7. ASSUME NEW f \in Hook, NEW g \in Hook, f # g, role[f].scope = role[g].scope,
                   claimed'[f] # None, claimed'[g] # None
            PROVE  claimed'[f] - claimed'[g] >= PendingTTL \/ claimed'[g] - claimed'[f] >= PendingTTL
        <4>1. CASE f # h /\ g # h
          BY <3>3, <3>7, <4>1 DEF FileInv, Sound
        <4>2. ASSUME NEW k \in Hook, k # h, role[k].scope = role[h].scope, claimed[k] # None,
                     claimed'[h] # None
              PROVE  claimed'[h] - claimed[k] >= PendingTTL \/ claimed[k] - claimed'[h] >= PendingTTL
          <5>1. CASE step[h] = "reserve" /\ wants[h]
            BY <3>1, <3>3, <4>2, <5>1 DEF Writable, Permitted, AfterClaim
          <5>2. CASE ~(step[h] = "reserve" /\ wants[h])
            <6>1. claimed'[h] = claimed[h]
              BY <3>3, <4>2, <5>2 DEF AfterClaim
            <6>. QED  BY <4>2, <6>1 DEF FileInv, Sound
          <5>. QED  BY <5>1, <5>2
        <4>. QED  BY <3>3, <3>7, <4>1, <4>2
      <3>8. milestone' => file'.milestone
        BY <2>6, <3>1, <3>2 DEF Writable, FileInv, Sound
      <3>9. FileInv'
        <4>1. now' = now /\ role' = role
          BY <2>1
        <4>2. \A g \in Hook : EntryOf(file, g)' = EntryOf(file', g)
          BY <4>1 DEF EntryOf
        <4>. QED  BY <3>4, <3>6, <3>7, <3>8, <4>1, <4>2 DEF FileInv
      <3>. QED  BY <2>3, <2>4, <3>9 DEF Sound
    <2>. QED  BY <1>6, <2>5, <2>6, Zenon DEF Write
  <1>7. CASE Age
    <2>1. /\ lock # None /\ lock' = [lock EXCEPT !.old = TRUE]
          /\ UNCHANGED <<now, file, role, claimed, marked, milestone, pc, step, since, wants, next>>
      BY <1>7 DEF Age
    <2>2. LockInv'
      BY <2>1, HookAssumption DEF LockInv, TypeOK, Sound
    <2>3. FileInv' /\ \A g \in Hook : SectionInv(g)' /\ WriteInv(g)'
      BY <2>1 DEF FileInv, SectionInv, WriteInv, Writable, Permitted, AfterClaim, AfterMark, EntryOf, Sound
    <2>. QED  BY <2>2, <2>3 DEF Sound
  <1>8. CASE Tick
    <2>1. /\ now' = now + 1
          /\ UNCHANGED <<file, lock, role, claimed, marked, milestone, pc, step, since, wants, next>>
      BY <1>8 DEF Tick
    <2>2. now \in Nat /\ now' \in Nat /\ now <= now'
      BY <2>1, HookAssumption DEF TypeOK
    <2>3. LockInv'
      BY <2>1 DEF LockInv, Sound
    <2>4. FileInv'
      <3>1. ASSUME NEW g \in Hook
            PROVE  Covers(EntryOf(file, g), claimed[g], marked[g], now')
        BY <2>2, TimeType, CoversLater DEF FileInv, Sound
      <3>2. ASSUME NEW g \in Hook
            PROVE  /\ claimed[g] # None => claimed[g] <= now'
                   /\ marked[g] # None => marked[g] <= now'
        BY <2>2, TimeType DEF FileInv, Sound
      <3>. QED  BY <2>1, <3>1, <3>2 DEF FileInv, EntryOf, Sound
    <2>5. ASSUME NEW h \in Hook
          PROVE  SectionInv(h)'
      BY <2>1 DEF SectionInv, EntryOf, Sound
    <2>6. ASSUME NEW h \in Hook, pc[h] = "write"
          PROVE  WriteInv(h)'
      <3>1. Writable(next[h], wants[h], h)
        BY <2>6 DEF WriteInv, Sound
      <3>2. AfterClaim(wants[h], h) \in Nat \cup {None}
        BY TimeType DEF AfterClaim
      <3>3. EntryOf(next[h], h).at \in Nat
        <4>1. EntryOf(next[h], h) \in Entry
          BY RoleType DEF EntryOf, TypeOK, File
        <4>. QED  BY <4>1, HookAssumption DEF Entry, NoEntry
      <3>4. AfterMark(next[h], h) \in Nat \cup {None}
        BY <3>3, TimeType DEF AfterMark
      <3>5. ASSUME NEW g \in Hook, g # h
            PROVE  Covers(EntryOf(next[h], g), claimed[g], marked[g], now')
        BY <2>2, <3>1, <3>5, TimeType, CoversLater DEF Writable
      <3>6. Covers(EntryOf(next[h], h), AfterClaim(wants[h], h), AfterMark(next[h], h), now')
        BY <2>2, <3>1, <3>2, <3>4, CoversLater DEF Writable
      <3>7. step[h] = "mark" => EntryOf(next[h], h).at <= now'
        BY <2>2, <3>1, <3>3 DEF Writable
      <3>. QED  BY <2>1, <3>1, <3>5, <3>6, <3>7
                DEF WriteInv, Writable, Permitted, AfterClaim, AfterMark, EntryOf
    <2>. QED  BY <2>1, <2>3, <2>4, <2>5, <2>6 DEF Sound, WriteInv
  <1>9. CASE UNCHANGED vars
    BY <1>9 DEF vars, LockInv, FileInv, SectionInv, WriteInv, Writable, Permitted, AfterClaim,
                AfterMark, EntryOf, Sound
  <1>. QED  BY <1>1, <1>2, <1>3, <1>4, <1>5, <1>6, <1>7, <1>8, <1>9 DEF Next

-----------------------------------------------------------------------------
(* The session file: what follows *)

LEMMA SessionInit == Init => TypeOK /\ SessionInv
  <1>. SUFFICES ASSUME Init PROVE TypeOK /\ SessionInv
    OBVIOUS
  <1>1. 0 \in 0..MaxTime
    BY HookAssumption
  <1>2. NoState \in File
    BY NoStateType
  <1>3. ASSUME NEW h \in Hook
        PROVE  /\ role[h].kind \in {"prompt", "start", "milestone"}
               /\ step[h] = FirstStep(role[h].kind)
    BY HookAssumption DEF Init
  <1>4. step \in [Hook -> {"reserve", "mark", "clear", "start", "milestone"}]
    BY <1>3 DEF Init, FirstStep
  <1>5. TypeOK
    <2>. HIDE DEF File
    <2>. QED  BY <1>1, <1>2, <1>4, Zenon DEF Init, TypeOK
  <1>6. ASSUME NEW h \in Hook
        PROVE  HookInv(h)
    BY <1>3 DEF Init, HookInv, FirstStep
  <1>7. Sound
    BY DEF Init, Sound, LockInv, FileInv, Covers, SectionInv, WriteInv, Section
  <1>. QED  BY <1>5, <1>6, <1>7 DEF SessionInv

LEMMA SessionStep == TypeOK /\ SessionInv /\ [Next]_vars => TypeOK' /\ SessionInv'
  <1>. SUFFICES ASSUME TypeOK, SessionInv, [Next]_vars PROVE TypeOK' /\ SessionInv'
    OBVIOUS
  <1>1. TypeOK'
    BY SessionTypes
  <1>2. \A h \in Hook : HookInv(h)'
    BY <1>1, HooksStep DEF SessionInv
  <1>3. fault => fault'
    <2>. USE DEF Harm, history, hooks
    <2>1. ASSUME NEW h \in Hook, Read(h) \/ Unlink(h) \/ Release(h)
          PROVE  fault => fault'
      BY <2>1 DEF Read, Unlink, Release
    <2>2. ASSUME NEW h \in Hook,
                 \/ Start(h) \/ Open(h) \/ Busy(h) \/ GiveUp(h) \/ Stat(h) \/ Write(h)
                 \/ Deliver(h) \/ DeliverFails(h) \/ Kill(h)
          PROVE  fault => fault'
      BY <2>2, Zenon DEF Start, Open, Busy, GiveUp, Stat, Write, Deliver, DeliverFails, Kill
    <2>3. CASE Age \/ Tick \/ UNCHANGED vars
      BY <2>3 DEF Age, Tick, vars
    <2>. QED  BY <2>1, <2>2, <2>3 DEF Next
  <1>4. ~fault' => Sound'
    BY <1>1, <1>3, SoundStep DEF SessionInv
  <1>. QED  BY <1>1, <1>2, <1>4 DEF SessionInv

\* Only a write changes what a hook has reserved: to what it wants.
LEMMA ClaimIsWritten ==
  ASSUME TypeOK, [Next]_vars, NEW h \in Hook, claimed'[h] # claimed[h], claimed'[h] # None
  PROVE  /\ pc[h] = "write" /\ step[h] = "reserve" /\ wants[h] /\ claimed'[h] = since[h]
         /\ \A g \in Hook : g # h => claimed'[g] = claimed[g]
         /\ UNCHANGED <<role, fault>>
  <1>. USE DEF hooks, history, TypeOK
  <1>1. ASSUME NEW g \in Hook, Write(g)
        PROVE  pc[h] = "write" /\ step[h] = "reserve" /\ wants[h] /\ claimed'[h] = since[h]
               /\ (\A k \in Hook : k # h => claimed'[k] = claimed[k]) /\ UNCHANGED <<role, fault>>
    BY <1>1 DEF Write, Recorded
  <1>2. ASSUME NEW g \in Hook,
               \/ Start(g) \/ Open(g) \/ Busy(g) \/ GiveUp(g) \/ Stat(g) \/ Unlink(g) \/ Read(g)
               \/ Release(g) \/ Deliver(g) \/ DeliverFails(g) \/ Kill(g)
        PROVE  claimed' = claimed
    BY <1>2, Zenon DEF Start, Open, Busy, GiveUp, Stat, Unlink, Read, Release, Deliver, DeliverFails, Kill
  <1>3. CASE Age \/ Tick \/ UNCHANGED vars
    BY <1>3 DEF Age, Tick, vars
  <1>. QED  BY <1>1, <1>2, <1>3 DEF Next

\* Hooks that run at once inject the rules once: a reservation is taken only
\* when every other of its scope is PendingTTL old and every recorded delivery
\* RecentTTL old, unless a lock was stolen, a file unreadable or a rollback late
\* (reserveInjectionScope).
THEOREM RulesAreInjectedOnce == Spec => OneInjection
  <1>1. Init => TypeOK /\ SessionInv
    BY SessionInit
  <1>2. TypeOK /\ SessionInv /\ [Next]_vars => TypeOK' /\ SessionInv'
    BY SessionStep
  <1>3. ASSUME TypeOK, SessionInv, [Next]_vars, NEW g \in Hook, NEW h \in Hook, ~fault', g # h,
               role[g].scope = role[h].scope, claimed'[h] # claimed[h], claimed'[h] # None
        PROVE  /\ claimed[g] # None => claimed'[h] - claimed[g] >= PendingTTL
               /\ marked[g] # None => claimed'[h] - marked[g] >= RecentTTL
    <2>1. pc[h] = "write" /\ step[h] = "reserve" /\ wants[h] /\ claimed'[h] = since[h] /\ ~fault
      BY <1>3, ClaimIsWritten
    <2>2. Permitted(h)
      BY <1>3, <2>1 DEF SessionInv, Sound, WriteInv, Writable
    <2>. QED  BY <1>3, <2>1, <2>2 DEF Permitted
  <1>. DEFINE Act == \A g, h \in Hook :
                \/ fault' \/ g = h \/ role[g].scope # role[h].scope
                \/ claimed'[h] = claimed[h] \/ claimed'[h] = None
                \/ /\ claimed[g] # None => claimed'[h] - claimed[g] >= PendingTTL
                   /\ marked[g] # None => claimed'[h] - marked[g] >= RecentTTL
  <1>4. TypeOK /\ SessionInv /\ [Next]_vars => [Act]_vars
    BY <1>3, Zenon
  <1>. QED  BY <1>1, <1>2, <1>4, PTL DEF Spec, OneInjection

\* A recorded milestone is not lost to another hook's update, with the same
\* excuses (updateSessionState, milestone-marker.cjs).
THEOREM TheMilestoneStays == MCSpec => []MilestoneStays
  <1>. DEFINE Inv == side = "session" => TypeOK /\ SessionInv
  <1>1. MCInit => Inv
    BY SessionInit, Zenon DEF MCInit
  <1>2. Inv /\ [MCNext]_MCvars => Inv'
    BY OneSide, SessionStep, Zenon
  <1>3. Inv => MilestoneStays
    BY DEF MilestoneStays, MilestoneKept, SessionInv, Sound, FileInv
  <1>. QED  BY <1>1, <1>2, <1>3, PTL DEF MCSpec

-----------------------------------------------------------------------------
(* The telemetry buffer: sequences and numbers *)

LEMMA CountOf ==
  ASSUME NEW A, IsFiniteSet(Stop), A \subseteq Stop
  PROVE  /\ E!Cardinality(A) \in Nat
         /\ A # {} => E!Cardinality(A) >= 1
         /\ (\A s, t \in A : s = t) => E!Cardinality(A) <= 1
  <1>1. E!Cardinality(A) = Cardinality(A)
    BY DEF E!Cardinality, Cardinality
  <1>2. IsFiniteSet(A)
    BY FS_Subset
  <1>3. Cardinality(A) \in Nat
    BY <1>2, FS_CardinalityType
  <1>4. A # {} => Cardinality(A) # 0
    BY <1>2, FS_EmptySet
  <1>5. ASSUME \A s, t \in A : s = t PROVE Cardinality(A) <= 1
    <2>1. CASE A = {}
      BY <2>1, FS_EmptySet
    <2>2. CASE A # {}
      <3>1. PICK s \in A : A = {s}
        BY <1>5, <2>2
      <3>2. Cardinality({s}) = 1
        BY FS_Singleton
      <3>. QED  BY <3>1, <3>2
    <2>. QED  BY <2>1, <2>2
  <1>. QED  BY <1>1, <1>3, <1>4, <1>5

LEMMA AppendedSet ==
  ASSUME NEW q \in Seq(Event), NEW e \in Event
  PROVE  Append(q, e) \in Seq(Event) /\ E!ToSet(Append(q, e)) = E!ToSet(q) \cup {e}
  <1>. DEFINE r == Append(q, e)
  <1>1. /\ r \in Seq(Event) /\ Len(q) \in Nat /\ DOMAIN q = 1..Len(q)
        /\ DOMAIN r = 1..(Len(q) + 1) /\ r[Len(q) + 1] = e
        /\ \A i \in 1..Len(q) : r[i] = q[i]
    OBVIOUS
  <1>. HIDE DEF r
  <1>2. ASSUME NEW x \in E!ToSet(r)
        PROVE  x \in E!ToSet(q) \cup {e}
    BY <1>1, <1>2 DEF E!ToSet
  <1>3. ASSUME NEW x \in E!ToSet(q)
        PROVE  x \in E!ToSet(r)
    <2>1. PICK i \in 1..Len(q) : x = q[i]
      BY <1>1, <1>3 DEF E!ToSet
    <2>2. i \in DOMAIN r /\ r[i] = x
      BY <1>1, <2>1
    <2>. QED  BY <2>2 DEF E!ToSet
  <1>4. e \in E!ToSet(r)
    <2>1. Len(q) + 1 \in DOMAIN r
      BY <1>1
    <2>. QED  BY <1>1, <2>1 DEF E!ToSet
  <1>5. E!ToSet(r) = E!ToSet(q) \cup {e}
    BY <1>2, <1>3, <1>4
  <1>. QED  BY <1>1, <1>5 DEF r

LEMMA CappedSet ==
  ASSUME NEW q \in Seq(Event)
  PROVE  E!Capped(q) \in Seq(Event) /\ E!ToSet(E!Capped(q)) \subseteq E!ToSet(q) /\ E!ToSet(q) \subseteq Event
  <1>1. Len(q) \in Nat /\ DOMAIN q = 1..Len(q) /\ MaxEvents \in Nat
    BY TelemetryHooks DEF E!TelemetryAssumption
  <1>2. E!ToSet(q) \subseteq Event
    BY <1>1 DEF E!ToSet
  <1>3. CASE Len(q) <= MaxEvents
    BY <1>1, <1>2, <1>3 DEF E!Capped
  <1>4. CASE Len(q) > MaxEvents
    <2>. DEFINE m == Len(q) - MaxEvents + 1
                r == SubSeq(q, m, Len(q))
    <2>1. m \in 1..(Len(q) + 1) /\ E!Capped(q) = r
      BY <1>1, <1>4 DEF E!Capped
    <2>2. /\ r \in Seq(Event) /\ DOMAIN r = 1..(Len(q) - m + 1)
          /\ \A i \in 1..(Len(q) - m + 1) : r[i] = q[m + i - 1]
      BY <1>1, <2>1
    <2>3. ASSUME NEW x \in E!ToSet(r)
          PROVE  x \in E!ToSet(q)
      <3>. HIDE DEF m, r
      <3>1. PICK i \in 1..(Len(q) - m + 1) : x = r[i]
        BY <2>2, <2>3 DEF E!ToSet
      <3>2. m + i - 1 \in DOMAIN q /\ x = q[m + i - 1]
        BY <1>1, <2>1, <2>2, <3>1
      <3>. QED  BY <3>2 DEF E!ToSet
    <2>. QED  BY <1>2, <2>1, <2>2, <2>3
  <1>. QED  BY <1>1, <1>3, <1>4

LEMMA EventsType ==
  ASSUME E!TypeOK
  PROVE  E!Events \in Seq(Event) /\ E!ToSet(E!Events) \subseteq Event
  <1>1. E!Events \in Seq(Event)
    BY DEF E!Events, E!TypeOK
  <1>. QED  BY <1>1, CappedSet

LEMMA NoEventsIn == E!ToSet(<<>>) = {}
  BY DEF E!ToSet

-----------------------------------------------------------------------------
(* The telemetry buffer: the invariant *)

\* The events a hook at the end of a turn holds, to delete or to post.
Holds(s, e) == eat[s] \in {"delete", "post"} /\ e \in E!ToSet(taken[s])

\* What was written lies somewhere or may be lost; and so has what is about to
\* be deleted been read, or is old.
KeptInv ==
  /\ opened # {} => buffer # None
  /\ emtime <= eclock
  /\ \A e \in Event :
       /\ eat[e] \in {"idle", "write"} => written[e] = None
       /\ e \in E!ToSet(E!Events) => written[e] # None /\ written[e] <= emtime
       /\ written[e] # None =>
            \/ e \in lost \/ e \in E!ToSet(E!Events) \/ received[e] >= 1
            \/ \E s \in Stop : eat[s] = "post" /\ e \in E!ToSet(taken[s])
  /\ \A s \in Stop : eat[s] = "delete" =>
       \A e \in E!ToSet(E!Events) : e \in E!ToSet(taken[s]) \/ e \in lost
  /\ \A w \in Sweeper : eat[w] = "unlink" =>
       \A e \in E!ToSet(E!Events) : e \in lost \/ eclock - written[e] > OrphanAge

\* Of Stops that do not overlap, one at most has an event that was deleted with
\* its buffer, and nobody has what was received or, once it is being posted, is in
\* the buffer.
Once(e) ==
  /\ received[e] = 0 \/ /\ received[e] = 1 /\ e \notin E!ToSet(E!Events)
                        /\ \A s \in Stop : ~Holds(s, e)
  /\ \A s, t \in Stop : Holds(s, e) /\ Holds(t, e) => s = t
  /\ \A s \in Stop : Holds(s, e) /\ eat[s] = "post" => e \notin E!ToSet(E!Events)

OnceInv ==
  /\ \A s, t \in Stop : eat[s] = "delete" /\ eat[t] = "delete" => s = t
  /\ \A e \in Event :
       /\ written[e] = None => /\ e \notin E!ToSet(E!Events) /\ received[e] = 0
                               /\ \A s \in Stop : ~Holds(s, e)
       /\ e \in left \/ Once(e)

EventInv == KeptInv /\ (together \/ OnceInv)

-----------------------------------------------------------------------------
(* The telemetry buffer: every step keeps the invariant *)

LEMMA TelemetryInit == E!Init => E!TypeOK /\ EventInv
  <1>. SUFFICES ASSUME E!Init PROVE E!TypeOK /\ EventInv
    OBVIOUS
  <1>1. 0 \in 0..BufferTime /\ <<>> \in Seq(Event) /\ 0 \in Nat
    BY TelemetryHooks DEF E!TelemetryAssumption
  <1>2. E!TypeOK
    BY <1>1, Zenon DEF E!Init, E!TypeOK
  <1>3. E!ToSet(E!Events) = {}
    BY NoEventsIn DEF E!Init, E!Events
  <1>4. KeptInv
    BY <1>3, TelemetryHooks DEF E!Init, KeptInv, E!TelemetryAssumption, E!Hooks
  <1>5. OnceInv
    BY <1>3 DEF E!Init, OnceInv, Once, E!Hooks, Holds
  <1>. QED  BY <1>2, <1>4, <1>5 DEF EventInv

LEMMA TelemetryTypes == E!TypeOK /\ KeptInv /\ [E!Next]_evars => E!TypeOK'
  <1>. SUFFICES ASSUME E!TypeOK, KeptInv, [E!Next]_evars PROVE E!TypeOK'
    OBVIOUS
  <1>. USE DEF E!TypeOK, E!Goto
  <1>1. ASSUME NEW e \in Event, E!Open(e)
        PROVE  E!TypeOK'
    <2>1. <<>> \in Seq(Event)
      OBVIOUS
    <2>. QED  BY <1>1, <2>1 DEF E!Open, E!Hooks
  <1>2. ASSUME NEW e \in Event, E!Write(e)
        PROVE  E!TypeOK'
    <2>1. e \in opened => Append(buffer, e) \in Seq(Event)
      BY AppendedSet DEF KeptInv
    <2>2. buffer' \in Seq(Event) \cup {None} /\ emtime' \in 0..BufferTime /\ ecut' \in BOOLEAN
      BY <1>2, <2>1 DEF E!Write
    <2>3. written' \in [Event -> 0..BufferTime \cup {None}]
      BY <1>2 DEF E!Write
    <2>. QED  BY <1>2, <2>2, <2>3 DEF E!Write, E!Hooks
  <1>11. ASSUME NEW e \in Event, E!WriteCut(e)
         PROVE  E!TypeOK'
    BY <1>11 DEF E!WriteCut, E!Hooks
  <1>3. ASSUME NEW s \in Stop, E!Read(s)
        PROVE  E!TypeOK'
    <2>1. E!Capped(E!Events) \in Seq(Event) /\ E!ToSet(E!Events) \subseteq Event
      BY EventsType, CappedSet
    <2>2. together' \in BOOLEAN
      BY <1>3 DEF E!Read
    <2>3. PICK q \in {E!Capped(E!Events), <<>>} :
            /\ taken' = [taken EXCEPT ![s] = q]
            /\ lost' = lost \cup (E!ToSet(E!Events) \ E!ToSet(q))
      BY <1>3, Zenon DEF E!Read
    <2>4. <<>> \in Seq(Event)
      OBVIOUS
    <2>5. q \in Seq(Event)
      BY <2>1, <2>4
    <2>. QED  BY <1>3, <2>1, <2>2, <2>3, <2>5 DEF E!Read, E!Hooks
  <1>4. ASSUME NEW s \in Stop, E!Delete(s)
        PROVE  E!TypeOK'
    <2>1. E!ToSet(taken[s]) \subseteq Event
      BY CappedSet
    <2>. QED  BY <1>4, <2>1 DEF E!Delete, E!Unlinked, E!Deleted, E!Hooks
  <1>5. ASSUME NEW s \in Stop, E!Post(s)
        PROVE  E!TypeOK'
    <2>1. E!ToSet(taken[s]) \subseteq Event
      BY CappedSet
    <2>2. received' \in [Event -> Nat]
      BY <1>5 DEF E!Post
    <2>. QED  BY <1>5, <2>1, <2>2 DEF E!Post, E!Hooks
  <1>6. ASSUME NEW w \in Sweeper, E!Look(w)
        PROVE  E!TypeOK'
    BY <1>6 DEF E!Look, E!Hooks
  <1>7. ASSUME NEW w \in Sweeper, E!Sweep(w)
        PROVE  E!TypeOK'
    <2>1. E!ToSet(E!Events) \subseteq Event
      BY EventsType
    <2>. QED  BY <1>7, <2>1 DEF E!Sweep, E!Unlinked, E!Deleted, E!Hooks
  <1>8. ASSUME NEW h \in E!Hooks, E!Kill(h)
        PROVE  E!TypeOK'
    <2>1. h \in Stop => E!ToSet(taken[h]) \subseteq Event
      BY CappedSet
    <2>. QED  BY <1>8, <2>1 DEF E!Kill
  <1>9. CASE E!Tick
    BY <1>9, TelemetryHooks DEF E!Tick, E!TelemetryAssumption
  <1>10. CASE UNCHANGED evars
    BY <1>10 DEF evars
  <1>. QED  BY <1>1, <1>2, <1>3, <1>4, <1>5, <1>6, <1>7, <1>8, <1>9, <1>10, <1>11 DEF E!Next

\* What is in the buffer after a step.
LEMMA EventsAfter ==
  ASSUME E!TypeOK, KeptInv
  PROVE  /\ buffer' = buffer => E!ToSet(E!Events)' = E!ToSet(E!Events)
         /\ buffer' = None \/ buffer' = <<>> => E!ToSet(E!Events)' = {}
         /\ \A e \in opened : buffer' = Append(buffer, e) =>
              E!ToSet(E!Events)' = E!ToSet(E!Events) \cup {e}
  <1>1. buffer' = buffer => E!ToSet(E!Events)' = E!ToSet(E!Events)
    BY DEF E!Events, E!ToSet
  <1>2. buffer' = None \/ buffer' = <<>> => E!ToSet(E!Events)' = {}
    BY NoEventsIn DEF E!Events, E!ToSet
  <1>3. ASSUME NEW e \in opened, buffer' = Append(buffer, e)
        PROVE  E!ToSet(E!Events)' = E!ToSet(E!Events) \cup {e}
    <2>1. buffer \in Seq(Event) /\ e \in Event /\ buffer # None
      BY DEF KeptInv, E!TypeOK
    <2>2. buffer' \in Seq(Event) /\ E!ToSet(buffer') = E!ToSet(buffer) \cup {e}
      BY <1>3, <2>1, AppendedSet
    <2>3. buffer' # None
      BY <2>2, TelemetryHooks DEF E!TelemetryAssumption
    <2>4. E!Events' = buffer' /\ E!Events = buffer
      BY <2>1, <2>3 DEF E!Events
    <2>5. E!ToSet(E!Events)' = E!ToSet(buffer')
      BY <2>4 DEF E!ToSet
    <2>. QED  BY <2>2, <2>4, <2>5
  <1>. QED  BY <1>1, <1>2, <1>3

LEMMA KeptStep ==
  ASSUME E!TypeOK, E!TypeOK', KeptInv, [E!Next]_evars
  PROVE  KeptInv'
  <1>. USE DEF E!Goto
  <1>. DEFINE Ev == E!ToSet(E!Events)
  <1>0. eclock \in Nat /\ emtime \in Nat /\ \A e \in Event : written[e] # None => written[e] \in Nat
    BY TelemetryHooks DEF E!TypeOK, E!TelemetryAssumption
  <1>1. ASSUME NEW e \in Event, E!Open(e)
        PROVE  KeptInv'
    <2>1. /\ UNCHANGED <<eclock, taken, received, written, lost>>
          /\ eat' = [eat EXCEPT ![e] = "write"] /\ opened' = opened \cup {e}
          /\ \/ buffer = None /\ buffer' = <<>> /\ emtime' = eclock
             \/ buffer # None /\ buffer' = buffer /\ emtime' = emtime
          /\ eat[e] = "idle"
      BY <1>1, Zenon DEF E!Open
    <2>2. Ev' = Ev
      BY <2>1, EventsAfter, NoEventsIn DEF E!Events
    <2>3. buffer' # None
      <3>1. <<>> \in Seq(Event)
        OBVIOUS
      <3>. QED  BY <2>1, <3>1, TelemetryHooks DEF E!TelemetryAssumption
    <2>4. \A h \in E!Hooks : eat'[h] \in {"delete", "post", "unlink"} => eat'[h] = eat[h]
      BY <2>1 DEF E!TypeOK
    <2>5. \A h \in E!Hooks : eat[h] = "post" => eat'[h] = "post"
      BY <2>1 DEF E!TypeOK
    <2>6. emtime <= emtime' /\ emtime' <= eclock'
      BY <1>0, <2>1 DEF KeptInv
    <2>. HIDE DEF Ev
    <2>. QED  BY <1>0, <2>1, <2>2, <2>3, <2>4, <2>5, <2>6 DEF KeptInv, Ev, E!Hooks, E!TypeOK
  <1>2. ASSUME NEW e \in Event, E!Write(e)
        PROVE  KeptInv'
    <2>1. /\ UNCHANGED <<eclock, taken, received>> /\ eat[e] = "write"
          /\ eat' = [eat EXCEPT ![e] = "end"] /\ opened' = opened \ {e}
          /\ written' = [written EXCEPT ![e] = eclock]
          /\ \/ e \in opened /\ ~ecut /\ buffer' = Append(buffer, e) /\ emtime' = eclock
             \/ e \in opened /\ ecut /\ buffer' = buffer /\ emtime' = eclock
             \/ e \notin opened /\ buffer' = buffer /\ emtime' = emtime
          /\ lost' = IF e \notin opened \/ ecut \/ E!Racing THEN lost \cup {e} ELSE lost
      BY <1>2, Zenon DEF E!Write
    <2>2. Ev' = IF e \in opened /\ ~ecut THEN Ev \cup {e} ELSE Ev
      BY <2>1, EventsAfter
    <2>3. opened' # {} => buffer' # None
      <3>1. opened # {} => buffer # None /\ buffer \in Seq(Event)
        BY DEF KeptInv, E!TypeOK
      <3>2. opened # {} => Append(buffer, e) \in Seq(Event)
        BY <3>1, AppendedSet
      <3>3. opened # {} => Append(buffer, e) # None
        BY <3>2, TelemetryHooks DEF E!TelemetryAssumption
      <3>. QED  BY <2>1, <3>1, <3>3
    <2>4. \A h \in E!Hooks : eat'[h] \in {"delete", "post", "unlink"} => eat'[h] = eat[h]
      BY <2>1 DEF E!TypeOK
    <2>5. \A h \in E!Hooks : eat[h] = "post" => eat'[h] = "post"
      BY <2>1 DEF E!TypeOK
    <2>6. emtime <= emtime' /\ emtime' <= eclock'
      BY <1>0, <2>1 DEF KeptInv
    <2>7. lost \subseteq lost' /\ (e \notin opened \/ ecut => e \in lost')
      BY <2>1
    <2>8. \A h \in Stop \cup Sweeper : eat[h] \in {"delete", "unlink"} => e \in lost'
      BY <2>1 DEF E!Racing
    <2>9. /\ written'[e] = eclock /\ (e \in opened => emtime' = eclock)
          /\ \A d \in Event : d # e => written'[d] = written[d]
      BY <2>1 DEF E!TypeOK
    <2>10. eclock # None
      BY TelemetryHooks DEF E!TelemetryAssumption, E!TypeOK
    <2>11. ASSUME NEW d \in Event
           PROVE  /\ d \in Ev' => written'[d] # None /\ written'[d] <= emtime'
                  /\ written'[d] # None =>
                       \/ d \in lost' \/ d \in Ev' \/ received'[d] >= 1
                       \/ \E s \in Stop : eat'[s] = "post" /\ d \in E!ToSet(taken'[s])
      <3>. HIDE DEF Ev
      <3>1. CASE d = e
        BY <1>0, <2>1, <2>2, <2>6, <2>7, <2>9, <2>10, <3>1 DEF KeptInv, Ev
      <3>2. CASE d # e
        BY <1>0, <2>1, <2>2, <2>5, <2>6, <2>7, <2>9, <3>2 DEF KeptInv, Ev, E!Hooks
      <3>. QED  BY <3>1, <3>2
    <2>12. ASSUME NEW s \in Stop, eat'[s] = "delete", NEW d \in Ev'
           PROVE  d \in E!ToSet(taken'[s]) \/ d \in lost'
      <3>. HIDE DEF Ev
      <3>. QED  BY <2>1, <2>2, <2>4, <2>7, <2>8, <2>12 DEF KeptInv, Ev, E!Hooks
    <2>13. ASSUME NEW w \in Sweeper, eat'[w] = "unlink", NEW d \in Ev'
           PROVE  d \in lost' \/ eclock' - written'[d] > OrphanAge
      <3>. HIDE DEF Ev
      <3>1. CASE d = e
        BY <2>4, <2>8, <2>13, <3>1 DEF E!Hooks
      <3>2. CASE d # e
        <4>1. d \in Event
          BY <2>13, EventsType, <2>2, <3>2 DEF Ev
        <4>. QED  BY <2>1, <2>2, <2>4, <2>7, <2>9, <2>13, <3>2, <4>1 DEF KeptInv, Ev, E!Hooks
      <3>. QED  BY <3>1, <3>2
    <2>14. \A d \in Event : eat'[d] \in {"idle", "write"} => written'[d] = None
      BY <2>1, <2>9 DEF KeptInv, E!TypeOK, E!Hooks
    <2>. QED  BY <2>3, <2>6, <2>11, <2>12, <2>13, <2>14 DEF KeptInv
  <1>11. ASSUME NEW e \in Event, E!WriteCut(e)
         PROVE  KeptInv'
    <2>1. /\ UNCHANGED <<eclock, buffer, taken, received, written, lost>> /\ opened' = opened \ {e}
          /\ eat' = [eat EXCEPT ![e] = "end"] /\ eat[e] = "write"
          /\ emtime' = eclock \/ emtime' = emtime
      BY <1>11, Zenon DEF E!WriteCut
    <2>2. Ev' = Ev /\ Ev \subseteq Event
      BY <2>1, EventsAfter, EventsType
    <2>3. \A h \in E!Hooks : eat'[h] # "end" => eat'[h] = eat[h]
      BY <2>1 DEF E!TypeOK
    <2>4. \A h \in E!Hooks : eat[h] = "post" => eat'[h] = "post"
      BY <2>1 DEF E!TypeOK
    <2>5. emtime <= emtime' /\ emtime' <= eclock'
      BY <1>0, <2>1 DEF KeptInv
    <2>6. emtime' \in Nat
      BY <1>0, <2>1
    <2>. HIDE DEF Ev
    <2>7. \A d \in Event : d \in Ev' => written'[d] # None /\ written'[d] <= emtime'
      BY <1>0, <2>1, <2>2, <2>5, <2>6 DEF KeptInv, Ev
    <2>. QED  BY <2>1, <2>2, <2>3, <2>4, <2>5, <2>7 DEF KeptInv, Ev, E!Hooks
  <1>3. ASSUME NEW s \in Stop, E!Read(s)
        PROVE  KeptInv'
    <2>1. /\ UNCHANGED <<eclock, buffer, emtime, opened, received, written>> /\ eat[s] = "idle"
          /\ eat' = [eat EXCEPT ![s] = "delete"]
          /\ \E q \in {E!Capped(E!Events), <<>>} :
               taken' = [taken EXCEPT ![s] = q] /\ lost' = lost \cup (Ev \ E!ToSet(q))
      BY <1>3, Zenon DEF E!Read
    <2>2. Ev' = Ev
      BY <2>1, EventsAfter
    <2>3. \A d \in Ev : d \in E!ToSet(taken'[s]) \/ d \in lost'
      BY <2>1 DEF E!TypeOK
    <2>4. \A t \in Stop : t # s => eat'[t] = eat[t] /\ taken'[t] = taken[t]
      BY <2>1 DEF E!TypeOK, E!Hooks
    <2>5. \A w \in Sweeper : eat'[w] = "unlink" => eat[w] = "unlink"
      BY <2>1 DEF E!TypeOK, E!Hooks
    <2>6. lost \subseteq lost'
      BY <2>1
    <2>. HIDE DEF Ev
    <2>. QED  BY <1>0, <2>1, <2>2, <2>3, <2>4, <2>5, <2>6 DEF KeptInv, Ev
  <1>4. ASSUME NEW s \in Stop, E!Delete(s)
        PROVE  KeptInv'
    <2>1. /\ UNCHANGED <<eclock, emtime, taken, received, written>> /\ eat[s] = "delete"
          /\ (buffer' = None /\ opened' = {}) \/ (buffer' = buffer /\ opened' = opened)
          /\ \/ eat' = [eat EXCEPT ![s] = "post"] /\ lost' = lost
             \/ eat' = [eat EXCEPT ![s] = "end"] /\ lost' = lost \cup (E!ToSet(taken[s]) \ Ev')
      BY <1>4, Zenon DEF E!Delete, E!Unlinked, E!Deleted
    <2>2. (buffer' = None /\ Ev' = {}) \/ (buffer' = buffer /\ Ev' = Ev)
      BY <2>1, EventsAfter
    <2>3. \A d \in Ev : d \in E!ToSet(taken[s]) \/ d \in lost
      BY <2>1 DEF KeptInv
    <2>4. /\ eat'[s] = "post" \/ \A d \in E!ToSet(taken[s]) : d \in Ev' \/ d \in lost'
          /\ \A t \in Stop : eat[t] = "post" => eat'[t] = "post"
          /\ \A t \in Stop : eat'[t] = "delete" => eat[t] = "delete"
          /\ \A w \in Sweeper : eat'[w] = "unlink" => eat[w] = "unlink"
          /\ lost \subseteq lost'
      BY <2>1 DEF E!TypeOK, E!Hooks
    <2>5. \A d \in Event : eat'[d] \in {"idle", "write"} => written[d] = None
      BY <2>1 DEF KeptInv, E!TypeOK, E!Hooks
    <2>6. opened' # {} => buffer' # None
      BY <2>1 DEF KeptInv
    <2>. HIDE DEF Ev
    <2>7. ASSUME NEW d \in Event, written[d] # None
          PROVE  \/ d \in lost' \/ d \in Ev' \/ received[d] >= 1
                 \/ \E t \in Stop : eat'[t] = "post" /\ d \in E!ToSet(taken[t])
      BY <2>2, <2>3, <2>4, <2>7 DEF KeptInv, Ev
    <2>8. Ev' \subseteq Ev
      BY <2>2
    <2>. QED  BY <1>0, <2>1, <2>4, <2>5, <2>6, <2>7, <2>8 DEF KeptInv, Ev
  <1>5. ASSUME NEW s \in Stop, E!Post(s)
        PROVE  KeptInv'
    <2>1. /\ UNCHANGED <<eclock, buffer, emtime, opened, taken, written>> /\ eat[s] = "post"
          /\ eat' = [eat EXCEPT ![s] = "end"]
          /\ \/ /\ received' = [e \in Event |-> received[e] + IF e \in E!ToSet(taken[s]) THEN 1 ELSE 0]
                /\ lost' = lost
             \/ lost' = lost \cup E!ToSet(taken[s]) /\ received' = received
      BY <1>5, Zenon DEF E!Post
    <2>2. Ev' = Ev
      BY <2>1, EventsAfter
    <2>3. \A e \in Event : /\ received'[e] >= received[e]
                           /\ e \in E!ToSet(taken[s]) => e \in lost' \/ received'[e] >= 1
      BY <2>1 DEF E!TypeOK
    <2>4. \A h \in E!Hooks : eat'[h] # "end" => eat'[h] = eat[h]
      BY <2>1 DEF E!TypeOK
    <2>5. \A t \in Stop : t # s => eat'[t] = eat[t]
      BY <2>1 DEF E!TypeOK, E!Hooks
    <2>6. lost \subseteq lost'
      BY <2>1
    <2>7. \A e \in Event : received[e] \in Nat /\ received'[e] \in Nat
      BY DEF E!TypeOK
    <2>. HIDE DEF Ev
    <2>8. ASSUME NEW e \in Event, written[e] # None
          PROVE  \/ e \in lost' \/ e \in Ev' \/ received'[e] >= 1
                 \/ \E t \in Stop : eat'[t] = "post" /\ e \in E!ToSet(taken[t])
      BY <2>2, <2>3, <2>5, <2>6, <2>7, <2>8 DEF KeptInv, Ev
    <2>. QED  BY <1>0, <2>1, <2>2, <2>4, <2>6, <2>8 DEF KeptInv, Ev, E!Hooks
  <1>6. ASSUME NEW w \in Sweeper, E!Look(w)
        PROVE  KeptInv'
    <2>1. /\ UNCHANGED <<eclock, buffer, emtime, opened, taken, received, written, lost>>
          /\ eat' = [eat EXCEPT ![w] = IF buffer # None /\ E!Old THEN "unlink" ELSE "end"]
          /\ eat[w] = "idle"
      BY <1>6, Zenon DEF E!Look
    <2>2. Ev' = Ev
      BY <2>1, EventsAfter
    <2>3. /\ \A v \in Sweeper : eat'[v] = "unlink" => eat[v] = "unlink" \/ eclock - emtime > OrphanAge
          /\ \A s \in Stop : /\ eat'[s] = "delete" => eat[s] = "delete"
                             /\ eat[s] = "post" => eat'[s] = "post"
      BY <2>1 DEF E!TypeOK, E!Hooks, E!Old
    <2>4. OrphanAge \in Nat
      BY TelemetryHooks DEF E!TelemetryAssumption
    <2>5. Ev \subseteq Event
      BY EventsType
    <2>. HIDE DEF Ev
    <2>6. ASSUME NEW v \in Sweeper, eat'[v] = "unlink", NEW e \in Ev
          PROVE  e \in lost \/ eclock - written[e] > OrphanAge
      BY <1>0, <2>3, <2>4, <2>5, <2>6 DEF KeptInv, Ev
    <2>. QED  BY <1>0, <2>1, <2>2, <2>3, <2>6 DEF KeptInv, Ev
  <1>7. ASSUME NEW w \in Sweeper, E!Sweep(w)
        PROVE  KeptInv'
    <2>1. /\ UNCHANGED <<eclock, emtime, taken, received, written>> /\ eat[w] = "unlink"
          /\ buffer' = None /\ opened' = {} /\ eat' = [eat EXCEPT ![w] = "end"]
          /\ lost' = lost \cup {e \in Ev : eclock - written[e] > OrphanAge}
      BY <1>7, Zenon DEF E!Sweep, E!Unlinked, E!Deleted
    <2>2. Ev' = {}
      BY <2>1, EventsAfter
    <2>3. \A d \in Ev : d \in lost'
      BY <2>1 DEF KeptInv
    <2>4. \A s \in Stop : eat[s] = "post" => eat'[s] = "post"
      BY <2>1 DEF E!TypeOK, E!Hooks
    <2>5. lost \subseteq lost'
      BY <2>1
    <2>. HIDE DEF Ev
    <2>. QED  BY <1>0, <2>1, <2>2, <2>3, <2>4, <2>5 DEF KeptInv, Ev
  <1>8. ASSUME NEW h \in E!Hooks, E!Kill(h)
        PROVE  KeptInv'
    <2>1. /\ UNCHANGED <<eclock, buffer, emtime, taken, received, written>>
          /\ eat' = [eat EXCEPT ![h] = "end"] /\ opened' = opened \ {h}
          /\ lost' = IF h \in Stop THEN lost \cup (E!ToSet(taken[h]) \ Ev) ELSE lost
      BY <1>8, Zenon DEF E!Kill
    <2>2. Ev' = Ev
      BY <2>1, EventsAfter
    <2>3. \A g \in E!Hooks : eat'[g] # "end" => eat'[g] = eat[g]
      BY <2>1 DEF E!TypeOK
    <2>4. \A g \in E!Hooks : g # h => eat'[g] = eat[g]
      BY <2>1 DEF E!TypeOK
    <2>5. lost \subseteq lost'
      BY <2>1
    <2>. HIDE DEF Ev
    <2>6. ASSUME NEW e \in Event, written[e] # None
          PROVE  \/ e \in lost' \/ e \in Ev \/ received[e] >= 1
                 \/ \E t \in Stop : eat'[t] = "post" /\ e \in E!ToSet(taken[t])
      BY <2>1, <2>4, <2>5, <2>6 DEF KeptInv, Ev, E!Hooks
    <2>. QED  BY <1>0, <2>1, <2>2, <2>3, <2>5, <2>6 DEF KeptInv, Ev, E!Hooks
  <1>9. CASE E!Tick
    <2>1. eclock' = eclock + 1 /\ UNCHANGED <<buffer, emtime, eat, opened, taken, received, written, lost>>
      BY <1>9, Zenon DEF E!Tick
    <2>2. Ev' = Ev /\ Ev \subseteq Event
      BY <2>1, EventsAfter, EventsType
    <2>3. OrphanAge \in Nat
      BY TelemetryHooks DEF E!TelemetryAssumption
    <2>. HIDE DEF Ev
    <2>4. ASSUME NEW w \in Sweeper, eat[w] = "unlink", NEW e \in Ev
          PROVE  e \in lost \/ eclock' - written[e] > OrphanAge
      BY <1>0, <2>1, <2>2, <2>3, <2>4 DEF KeptInv, Ev
    <2>. QED  BY <1>0, <2>1, <2>2, <2>4 DEF KeptInv, Ev
  <1>10. CASE UNCHANGED evars
    <2>1. UNCHANGED <<eclock, buffer, emtime, eat, opened, taken, received, written, lost>>
      BY <1>10 DEF evars
    <2>2. Ev' = Ev
      BY <2>1, EventsAfter
    <2>. HIDE DEF Ev
    <2>. QED  BY <2>1, <2>2 DEF KeptInv, Ev
  <1>. QED  BY <1>1, <1>2, <1>3, <1>4, <1>5, <1>6, <1>7, <1>8, <1>9, <1>10, <1>11 DEF E!Next

\* A step by which nobody comes to hold, delete or post an event, and nothing is
\* written or received.
LEMMA OnceFrame ==
  ASSUME OnceInv, UNCHANGED <<written, received>>, left \subseteq left',
         E!ToSet(E!Events)' \subseteq E!ToSet(E!Events),
         \A s \in Stop : /\ eat'[s] = "delete" => eat[s] = "delete"
                         /\ \A e \in Event : Holds(s, e)' =>
                              /\ Holds(s, e)
                              /\ eat'[s] = "post" =>
                                   eat[s] = "post" \/ e \in left' \/ e \notin E!ToSet(E!Events)'
  PROVE  OnceInv'
  <1>. DEFINE Ev == E!ToSet(E!Events)
  <1>1. \A s, t \in Stop : eat'[s] = "delete" /\ eat'[t] = "delete" => s = t
    BY DEF OnceInv
  <1>2. ASSUME NEW e \in Event
        PROVE  /\ written'[e] = None => /\ e \notin Ev' /\ received'[e] = 0
                                        /\ \A s \in Stop : ~Holds(s, e)'
               /\ e \in left' \/ Once(e)'
    <2>. HIDE DEF Holds
    <2>. QED  BY DEF OnceInv, Once
  <1>. QED  BY <1>1, <1>2 DEF OnceInv

LEMMA OnceStep ==
  ASSUME E!TypeOK, E!TypeOK', KeptInv, OnceInv, ~together', [E!Next]_evars
  PROVE  OnceInv'
  <1>. USE DEF E!Goto
  <1>. DEFINE Ev == E!ToSet(E!Events)
  <1>1. ASSUME NEW e \in Event, E!Open(e)
        PROVE  OnceInv'
    <2>1. /\ UNCHANGED <<taken, received, written, left>> /\ eat' = [eat EXCEPT ![e] = "write"]
          /\ buffer' = buffer \/ buffer' = <<>>
      BY <1>1 DEF E!Open
    <2>2. Ev' \subseteq Ev
      BY <2>1, EventsAfter
    <2>3. \A s \in Stop : /\ eat'[s] \in {"delete", "post"} => eat'[s] = eat[s]
                          /\ \A d \in Event : Holds(s, d)' => Holds(s, d)
      BY <2>1 DEF E!TypeOK, E!Hooks, Holds, E!ToSet
    <2>. QED  BY <2>1, <2>2, <2>3, OnceFrame
  <1>2. ASSUME NEW e \in Event, E!Write(e)
        PROVE  OnceInv'
    <2>1. /\ UNCHANGED <<taken, received, left>> /\ eat[e] = "write"
          /\ eat' = [eat EXCEPT ![e] = "end"] /\ written' = [written EXCEPT ![e] = eclock]
          /\ \/ e \in opened /\ buffer' = Append(buffer, e)
             \/ buffer' = buffer
      BY <1>2 DEF E!Write
    <2>2. Ev' \subseteq Ev \cup {e}
      BY <2>1, EventsAfter
    <2>3. \A s \in Stop : /\ eat'[s] \in {"delete", "post"} => eat'[s] = eat[s]
                          /\ \A d \in Event : Holds(s, d)' => Holds(s, d)
      BY <2>1 DEF E!TypeOK, E!Hooks, Holds, E!ToSet
    <2>4. /\ received[e] = 0 /\ \A s \in Stop : ~Holds(s, e)
      BY <2>1 DEF KeptInv, OnceInv
    <2>5. /\ written'[e] # None /\ \A d \in Event : d # e => written'[d] = written[d]
      BY <2>1, TelemetryHooks DEF E!TypeOK, E!TelemetryAssumption
    <2>. HIDE DEF Ev, Holds
    <2>6. ASSUME NEW d \in Event
          PROVE  /\ written'[d] = None => /\ d \notin Ev' /\ received'[d] = 0
                                          /\ \A s \in Stop : ~Holds(s, d)'
                 /\ d \in left' \/ Once(d)'
      <3>1. CASE d = e
        BY <2>1, <2>3, <2>4, <2>5, <3>1 DEF Once
      <3>2. CASE d # e
        BY <2>1, <2>2, <2>3, <2>5, <3>2 DEF OnceInv, Once, Ev
      <3>. QED  BY <3>1, <3>2
    <2>. QED  BY <2>3, <2>6 DEF OnceInv, Ev
  <1>9. ASSUME NEW e \in Event, E!WriteCut(e)
        PROVE  OnceInv'
    <2>1. UNCHANGED <<buffer, taken, received, written, left>> /\ eat' = [eat EXCEPT ![e] = "end"]
      BY <1>9, Zenon DEF E!WriteCut
    <2>2. Ev' = Ev
      BY <2>1, EventsAfter
    <2>3. \A s \in Stop : /\ eat'[s] \in {"delete", "post"} => eat'[s] = eat[s]
                          /\ \A d \in Event : Holds(s, d)' => Holds(s, d)
      BY <2>1 DEF E!TypeOK, E!Hooks, Holds, E!ToSet
    <2>. QED  BY <2>1, <2>2, <2>3, OnceFrame
  <1>3. ASSUME NEW s \in Stop, E!Read(s)
        PROVE  OnceInv'
    <2>1. /\ UNCHANGED <<buffer, received, written, left>> /\ eat[s] = "idle"
          /\ eat' = [eat EXCEPT ![s] = "delete"]
          /\ \E q \in {E!Capped(E!Events), <<>>} : taken' = [taken EXCEPT ![s] = q]
          /\ together' = (together \/ \E t \in Stop : eat[t] = "delete")
      BY <1>3, Zenon DEF E!Read
    <2>2. Ev' = Ev
      BY <2>1, EventsAfter
    <2>3. E!ToSet(taken'[s]) \subseteq Ev
      <3>1. E!ToSet(E!Capped(E!Events)) \subseteq Ev
        BY EventsType, CappedSet
      <3>2. taken'[s] \in {E!Capped(E!Events), <<>>}
        BY <2>1 DEF E!TypeOK
      <3>. QED  BY <3>1, <3>2, NoEventsIn
    <2>4. \A t \in Stop : eat[t] # "delete"
      BY <2>1
    <2>5. /\ eat'[s] = "delete"
          /\ \A t \in Stop : t # s => eat'[t] = eat[t] /\ taken'[t] = taken[t]
      BY <2>1 DEF E!TypeOK, E!Hooks
    <2>6. /\ \A e \in Event : Holds(s, e)' => e \in Ev
          /\ \A t \in Stop, e \in Event : t # s => Holds(t, e)' = Holds(t, e)
          /\ \A t \in Stop, e \in Event : Holds(t, e) => eat[t] = "post"
      BY <2>3, <2>4, <2>5 DEF Holds, E!ToSet
    <2>. HIDE DEF Ev, Holds
    <2>7. ASSUME NEW e \in Event
          PROVE  /\ written'[e] = None => /\ e \notin Ev' /\ received'[e] = 0
                                          /\ \A t \in Stop : ~Holds(t, e)'
                 /\ e \in left' \/ Once(e)'
      BY <2>1, <2>2, <2>5, <2>6 DEF OnceInv, Once, Ev
    <2>8. \A t, u \in Stop : eat'[t] = "delete" /\ eat'[u] = "delete" => t = u
      BY <2>4, <2>5
    <2>. QED  BY <2>7, <2>8 DEF OnceInv, Ev
  <1>4. ASSUME NEW s \in Stop, E!Delete(s)
        PROVE  OnceInv'
    <2>1. /\ UNCHANGED <<taken, received, written>> /\ eat[s] = "delete"
          /\ \/ buffer' = None /\ left' = left
             \/ buffer' = buffer /\ left' = left \cup E!ToSet(taken[s])
          /\ \E l \in {"post", "end"} : eat' = [eat EXCEPT ![s] = l]
      BY <1>4 DEF E!Delete, E!Unlinked, E!Deleted
    <2>2. /\ Ev' = {} \/ (Ev' = Ev /\ E!ToSet(taken[s]) \subseteq left')
          /\ left \subseteq left'
      BY <2>1, EventsAfter
    <2>3. \A t \in Stop : /\ eat'[t] = "delete" => eat[t] = "delete"
                          /\ eat'[t] = "post" => eat[t] = "post" \/ t = s
                          /\ \A d \in Event : Holds(t, d)' => Holds(t, d)
      BY <2>1 DEF E!TypeOK, E!Hooks, Holds, E!ToSet
    <2>4. \A d \in Event : Holds(s, d) => d \in E!ToSet(taken[s])
      BY DEF Holds
    <2>5. ASSUME NEW t \in Stop
          PROVE  /\ eat'[t] = "delete" => eat[t] = "delete"
                 /\ \A d \in Event : Holds(t, d)' =>
                      /\ Holds(t, d)
                      /\ eat'[t] = "post" =>
                           eat[t] = "post" \/ d \in left' \/ d \notin Ev'
      <3>. HIDE DEF Ev, Holds
      <3>. QED  BY <2>2, <2>3, <2>4
    <2>6. Ev' \subseteq Ev
      BY <2>2
    <2>. QED  BY <2>1, <2>2, <2>5, <2>6, OnceFrame
  <1>5. ASSUME NEW s \in Stop, E!Post(s)
        PROVE  OnceInv'
    <2>1. /\ UNCHANGED <<buffer, taken, written, left>> /\ eat[s] = "post"
          /\ eat' = [eat EXCEPT ![s] = "end"]
          /\ \/ received' = [e \in Event |-> received[e] + IF e \in E!ToSet(taken[s]) THEN 1 ELSE 0]
             \/ received' = received
      BY <1>5 DEF E!Post
    <2>2. Ev' = Ev
      BY <2>1, EventsAfter
    <2>3. /\ \A t \in Stop : eat'[t] # "end" => eat'[t] = eat[t] /\ t # s
          /\ \A t \in Stop, e \in Event : Holds(t, e)' => Holds(t, e) /\ t # s
          /\ \A e \in Event : e \in E!ToSet(taken[s]) => Holds(s, e)
      BY <2>1 DEF E!TypeOK, E!Hooks, Holds, E!ToSet
    <2>4. \A e \in Event : received'[e] = received[e] \/ (Holds(s, e) /\ received'[e] = received[e] + 1)
      BY <2>1, <2>3 DEF E!TypeOK
    <2>. HIDE DEF Ev, Holds
    <2>5. ASSUME NEW e \in Event
          PROVE  /\ written'[e] = None => /\ e \notin Ev' /\ received'[e] = 0
                                          /\ \A t \in Stop : ~Holds(t, e)'
                 /\ e \in left' \/ Once(e)'
      <3>1. CASE received'[e] = received[e]
        BY <2>1, <2>2, <2>3, <3>1 DEF OnceInv, Once, Ev
      <3>2. CASE Holds(s, e) /\ received'[e] = received[e] + 1
        <4>1. /\ written[e] # None
              /\ \/ e \in left
                 \/ received[e] = 0 /\ e \notin Ev /\ \A t \in Stop : Holds(t, e) => t = s
          BY <2>1, <3>2 DEF OnceInv, Once, Ev
        <4>. QED  BY <2>1, <2>2, <2>3, <3>2, <4>1 DEF Once, Ev
      <3>. QED  BY <2>4, <3>1, <3>2
    <2>6. \A t, u \in Stop : eat'[t] = "delete" /\ eat'[u] = "delete" => t = u
      BY <2>3 DEF OnceInv
    <2>. QED  BY <2>5, <2>6 DEF OnceInv, Ev
  <1>6. ASSUME NEW w \in Sweeper, E!Look(w) \/ E!Sweep(w)
        PROVE  OnceInv'
    <2>1. /\ UNCHANGED <<taken, received, written, left>>
          /\ \E l \in {"unlink", "end"} : eat' = [eat EXCEPT ![w] = l]
          /\ buffer' = buffer \/ buffer' = None
      BY <1>6 DEF E!Look, E!Sweep, E!Unlinked, E!Deleted
    <2>2. Ev' \subseteq Ev
      BY <2>1, EventsAfter
    <2>3. \A s \in Stop : /\ eat'[s] \in {"delete", "post"} => eat'[s] = eat[s]
                          /\ \A d \in Event : Holds(s, d)' => Holds(s, d)
      BY <2>1 DEF E!TypeOK, E!Hooks, Holds, E!ToSet
    <2>. QED  BY <2>1, <2>2, <2>3, OnceFrame
  <1>7. ASSUME NEW h \in E!Hooks, E!Kill(h)
        PROVE  OnceInv'
    <2>1. UNCHANGED <<buffer, taken, received, written, left>> /\ eat' = [eat EXCEPT ![h] = "end"]
      BY <1>7, Zenon DEF E!Kill
    <2>2. Ev' = Ev
      BY <2>1, EventsAfter
    <2>3. \A s \in Stop : /\ eat'[s] \in {"delete", "post"} => eat'[s] = eat[s]
                          /\ \A d \in Event : Holds(s, d)' => Holds(s, d)
      BY <2>1 DEF E!TypeOK, E!Hooks, Holds, E!ToSet
    <2>. QED  BY <2>1, <2>2, <2>3, OnceFrame
  <1>8. CASE E!Tick \/ UNCHANGED evars
    <2>1. UNCHANGED <<buffer, eat, taken, received, written, left>>
      BY <1>8 DEF E!Tick, evars
    <2>2. Ev' = Ev
      BY <2>1, EventsAfter
    <2>3. \A s \in Stop, d \in Event : Holds(s, d)' => Holds(s, d)
      BY <2>1 DEF Holds, E!ToSet
    <2>. QED  BY <2>1, <2>2, <2>3, OnceFrame
  <1>. QED  BY <1>1, <1>2, <1>3, <1>4, <1>5, <1>6, <1>7, <1>8, <1>9 DEF E!Next

LEMMA TelemetryStep ==
  E!TypeOK /\ EventInv /\ [E!Next]_evars => E!TypeOK' /\ EventInv'
  <1>. SUFFICES ASSUME E!TypeOK, EventInv, [E!Next]_evars PROVE E!TypeOK' /\ EventInv'
    OBVIOUS
  <1>1. E!TypeOK' /\ KeptInv'
    BY TelemetryTypes, KeptStep DEF EventInv
  <1>2. together => together'
    <2>1. ASSUME NEW s \in Stop, E!Read(s)
          PROVE  together => together'
      BY <2>1 DEF E!Read
    <2>2. CASE \/ \E e \in Event : E!Open(e) \/ E!Write(e) \/ E!WriteCut(e)
               \/ \E s \in Stop : E!Delete(s) \/ E!Post(s)
               \/ \E w \in Sweeper : E!Look(w) \/ E!Sweep(w)
               \/ \E h \in E!Hooks : E!Kill(h)
               \/ E!Tick \/ UNCHANGED evars
      BY <2>2, Zenon DEF E!Open, E!Write, E!WriteCut, E!Delete, E!Post, E!Look, E!Sweep, E!Kill, E!Tick, evars
    <2>. QED  BY <2>1, <2>2 DEF E!Next
  <1>3. ~together' => OnceInv'
    BY <1>1, <1>2, OnceStep DEF EventInv
  <1>. QED  BY <1>1, <1>3 DEF EventInv

LEMMA EventsAreKept ==
  ASSUME E!TypeOK, EventInv
  PROVE  E!EventsKept
  <1>. SUFFICES ASSUME NEW e \in Event, written[e] # None
                PROVE  (e \in lost \/ E!Places(e) >= 1) /\ (together \/ e \in left \/ E!Places(e) <= 1)
    BY DEF E!EventsKept
  <1>. DEFINE P == {s \in Stop : eat[s] = "post" /\ e \in E!ToSet(taken[s])}
              n == E!Cardinality(P)
              b == IF e \in E!ToSet(E!Events) THEN 1 ELSE 0
  <1>1. IsFiniteSet(Stop)
    BY TelemetryHooks DEF E!TelemetryAssumption, E!IsFiniteSet, IsFiniteSet
  <1>2. /\ n \in Nat
        /\ P # {} => n >= 1
        /\ (\A s, t \in P : s = t) => n <= 1
    BY <1>1, CountOf
  <1>3. P = {} => n = 0
    BY FS_EmptySet DEF E!Cardinality, Cardinality
  <1>4. received[e] \in Nat /\ b \in {0, 1}
    BY DEF E!TypeOK
  <1>5. E!Places(e) = n + received[e] + b
    BY DEF E!Places
  <1>6. e \in lost \/ b = 1 \/ received[e] >= 1 \/ P # {}
    BY DEF EventInv, KeptInv
  <1>7. ~together /\ e \notin left =>
          \/ received[e] = 0 /\ (\A s, t \in P : s = t) /\ (P # {} => b = 0)
          \/ received[e] = 1 /\ P = {} /\ b = 0
    BY DEF EventInv, OnceInv, Once, Holds
  <1>. HIDE DEF P, n, b
  <1>. QED  BY <1>1, <1>2, <1>3, <1>4, <1>5, <1>6, <1>7

\* Every event that was appended is posted at most once and is not lost, but for
\* these.  Lost may be what was appended beside a deletion or to an unfinished
\* line, was in a buffer that could not be read, was dropped by the cap, was too old
\* when it was swept, or whose Stop was killed or did not post.  Posted again may be
\* what a Stop read and could not delete, and anything once Stops have overlapped
\* (handleStop, handleSessionStart).
THEOREM EveryEventIsKept == MCSpec => []EventsKept
  <1>. DEFINE Inv == side = "telemetry" => E!TypeOK /\ EventInv
  <1>1. MCInit => Inv
    BY TelemetryInit, Zenon DEF MCInit
  <1>2. Inv /\ [MCNext]_MCvars => Inv'
    BY OneSide, TelemetryStep, Zenon
  <1>3. Inv => EventsKept
    BY EventsAreKept DEF EventsKept
  <1>. QED  BY <1>1, <1>2, <1>3, PTL DEF MCSpec

-----------------------------------------------------------------------------
(* The throttles: the invariant *)

\* Nothing is of a time to come.
PastInv ==
  /\ tmtime <= tclock
  /\ \A h \in Throttler : /\ tbegan[h] <= tclock /\ planned[h].start <= tclock
                          /\ \A k \in ThrottleKey :
                               planned[h].last[k] # None => planned[h].last[k] <= tclock
  /\ \A k \in ThrottleKey : /\ acted[k] # None => acted[k] <= tclock
                            /\ stamped[k] # None => stamped[k] <= tclock
  /\ stamp # None => stamp.start <= tclock

\* Each kind has its ways, and only the maps have several keys.
WayInv ==
  /\ \A h \in Throttler : /\ tat[h] = "load" => kind = "prompt"
                          /\ tat[h] = "fill" => kind # "prompt"
  /\ kind \notin T!ActsFirst => \A h \in Throttler :
       /\ \A g \in Throttler : key[g] = key[h]
       /\ \A k \in ThrottleKey : acted[k] # None => k = key[h]

\* Where there is a time t, there is a time s not before it.
NotBefore(s, t) == t # None => s # None /\ s >= t

\* What lies in the file was stamped, and so is what is about to be written,
\* but for the key of its hook.
StampInv ==
  /\ stamp # None => \A k \in ThrottleKey : NotBefore(stamped[k], stamp.last[k])
  /\ stamp # None /\ kind = "marker" => \A h \in Throttler : NotBefore(stamped[key[h]], tmtime)
  /\ \A h \in Throttler, k \in ThrottleKey :
       k # key[h] \/ tat[h] = "fill" => NotBefore(stamped[k], planned[h].last[k])

\* The file f holds back those who would act too soon after the last that acted,
\* or is of a count begun since.
Recalls(f, k) ==
  \/ ~T!Since(acted[k])
  \/ /\ f.last[k] # None /\ f.last[k] >= acted[k]
     /\ kind = "count" => acted[k] - f.start <= Stale
  \/ kind = "count" /\ f.start > acted[k]

Recalled(k) == ~T!Since(acted[k]) \/ (stamp # None /\ stamp.whole /\ Recalls(stamp, k))

\* The file f records that h acts.
Records(f, h) ==
  /\ f.last[key[h]] # None /\ f.last[key[h]] >= tbegan[h]
  /\ kind = "count" => tbegan[h] - f.start <= Stale

\* A marker was touched when whoever acted had begun, or later.
MarkerInv ==
  /\ \A k \in ThrottleKey : acted[k] # None => stamp # None /\ tmtime >= acted[k]
  /\ \A h \in Throttler : tat[h] \in {"fill", "act"} => stamp # None /\ tmtime >= tbegan[h]

\* Where a hook is that is alone, and what it is about to write.
PlaceInv(h) ==
  /\ tat[h] = "act" =>
       /\ \A k \in ThrottleKey : Recalled(k)
       /\ kind \in T!ActsFirst => ~T!Since(acted[key[h]])
       /\ kind \notin T!ActsFirst /\ go[h] => stamp # None /\ stamp.whole /\ Records(stamp, h)
  /\ tat[h] = "load" => /\ acted[key[h]] = tbegan[h]
                        /\ \A k \in ThrottleKey \ {key[h]} : Recalled(k)
  /\ tat[h] \in {"open", "fill"} =>
       /\ kind = "stamp" => /\ \A k \in ThrottleKey : ~T!Since(acted[k])
                            /\ tat[h] = "fill" => Records(planned[h], h)
       /\ kind # "stamp" => planned[h].whole /\ \A k \in ThrottleKey : Recalls(planned[h], k)
       /\ kind = "count" => /\ go[h] => Records(planned[h], h)
                            /\ tat[h] = "open" => \A k \in ThrottleKey : Recalled(k)

\* As long as nothing was disturbed one hook at most is at work, and the file
\* recalls what was done when none is.
WorkInv ==
  /\ \A g, h \in Throttler : T!Active(g) /\ T!Active(h) => g = h
  /\ \A h \in Throttler : PlaceInv(h)
  /\ (\A h \in Throttler : ~T!Active(h)) => \A k \in ThrottleKey : Recalled(k)

ThrottleInv ==
  /\ PastInv /\ WayInv /\ StampInv
  /\ disturbed \/ IF kind = "marker" THEN MarkerInv ELSE WorkInv

-----------------------------------------------------------------------------
(* The throttles: files *)

LEMMA BlankFile ==
  ASSUME T!TypeOK
  PROVE  /\ T!Blank \in T!File /\ T!Blank.whole /\ \A k \in ThrottleKey : T!Blank.last[k] = None
         /\ T!Blank.start \in T!Time /\ T!Blank.start <= tclock /\ (kind = "count" => T!Blank.start = tclock)
  <1>1. 0 \in T!Time /\ 0 \in 0..Threshold /\ tclock \in T!Time /\ 0 <= tclock
    BY ThrottleTimes DEF T!ThrottleAssumption, T!Time, T!TypeOK
  <1>2. tclock <= tclock
    BY <1>1 DEF T!Time
  <1>. QED  BY <1>1, <1>2 DEF T!Blank, T!File

\* A change of one time changes nothing else.
LEMMA OneTime ==
  ASSUME NEW f \in T!File, NEW k \in ThrottleKey, NEW t \in T!Time \cup {None}
  PROVE  LET g == [f EXCEPT !.last[k] = t] IN
         /\ g \in T!File /\ g.whole = f.whole /\ g.edits = f.edits /\ g.start = f.start /\ g.last[k] = t
         /\ \A j \in ThrottleKey : j # k => g.last[j] = f.last[j]
  BY DEF T!File

LEMMA Torn ==
  ASSUME NEW f \in T!File, NEW w \in BOOLEAN
  PROVE  LET g == [f EXCEPT !.whole = w] IN
         /\ g \in T!File /\ g.whole = w /\ g.start = f.start /\ g.last = f.last
  BY DEF T!File

\* What a hook finds is the file, or nothing.
LEMMA ContentFile ==
  ASSUME T!TypeOK
  PROVE  /\ T!Content \in T!File /\ T!Content.whole
         /\ \/ /\ T!Content = stamp
               /\ stamp # None /\ stamp.whole /\ tclock - stamp.start <= T!Life
            \/ /\ T!Content = T!Blank
               /\ ~(stamp # None /\ stamp.whole /\ tclock - stamp.start <= T!Life)
  BY BlankFile DEF T!Content, T!TypeOK

\* What a hook that begins is about to write.
LEMMA CheckPlans ==
  ASSUME T!TypeOK, NEW h \in Throttler, T!Check(h)
  PROVE  /\ kind # "count" => planned' = planned /\ (go'[h] <=> ~T!Throttled(key[h]))
         /\ kind = "count" => \E f \in T!File :
              /\ planned' = [planned EXCEPT ![h] = f] /\ f.whole = T!Content.whole
              /\ f.start = T!Content.start /\ (go'[h] <=> ~T!Throttled(key[h]) /\ f.edits >= Threshold)
              /\ f.edits \in Nat
              /\ f.last[key[h]] = IF go'[h] THEN tclock ELSE T!Content.last[key[h]]
              /\ \A k \in ThrottleKey : k # key[h] => f.last[k] = T!Content.last[k]
  <1>. DEFINE k == key[h]
              c == T!Content
              edits == IF c.edits < Threshold THEN c.edits + 1 ELSE Threshold
              due == ~T!Throttled(k) /\ (kind = "count" => edits >= Threshold)
              f == [c EXCEPT !.edits = edits, !.last[k] = IF due THEN tclock ELSE @]
  <1>1. /\ go' = [go EXCEPT ![h] = due]
        /\ planned' = IF kind # "count" THEN planned ELSE [planned EXCEPT ![h] = f]
    BY Zenon DEF T!Check
  <1>2. go'[h] = due
    BY <1>1 DEF T!TypeOK
  <1>3. c \in T!File /\ k \in ThrottleKey
    BY ContentFile DEF T!TypeOK
  <1>. HIDE DEF c, k
  <1>4. edits \in 0..Threshold /\ edits \in Nat
    BY <1>3, ThrottleTimes DEF T!File, T!ThrottleAssumption
  <1>5. tclock \in T!Time
    BY DEF T!TypeOK
  <1>6. due = (~T!Throttled(key[h]) /\ (kind = "count" => edits >= Threshold))
    BY Zenon DEF k
  <1>. HIDE DEF edits, due
  <1>7. /\ f \in T!File /\ f.whole = c.whole /\ f.start = c.start /\ f.edits = edits
        /\ f.last[k] = IF due THEN tclock ELSE c.last[k]
        /\ \A j \in ThrottleKey : j # k => f.last[j] = c.last[j]
    BY <1>3, <1>4, <1>5 DEF T!File
  <1>. HIDE DEF f
  <1>. QED  BY <1>1, <1>2, <1>4, <1>6, <1>7 DEF c, k

-----------------------------------------------------------------------------
(* The throttles: what the steps do *)

\* Opening the file stamps the time it will hold, if that is later.
LEMMA OpenStamps ==
  ASSUME T!TypeOK, NEW h \in Throttler, T!Open(h)
  PROVE  \E f \in T!File, t \in T!Time \cup {None} :
           /\ planned' = [planned EXCEPT ![h] = f] /\ tmtime' = tclock
           /\ IF kind = "stamp"
              THEN f.last[key[h]] = tclock /\ \A k \in ThrottleKey : k # key[h] => f.last[k] = None
              ELSE f = planned[h]
           /\ kind = "stamp" => f.whole /\ f.start <= tclock
           /\ t = IF kind = "marker" THEN tclock ELSE f.last[key[h]]
           /\ stamped' = IF t # None /\ (stamped[key[h]] = None \/ t > stamped[key[h]])
                         THEN [stamped EXCEPT ![key[h]] = t] ELSE stamped
           /\ IF kind = "prompt" THEN stamp' = f ELSE stamp' = [f EXCEPT !.whole = FALSE]
           /\ tat[h] = "open" /\ tat' = [tat EXCEPT ![h] = IF kind = "prompt" THEN "end" ELSE "fill"]
  <1>. DEFINE f == IF kind = "stamp" THEN [T!Blank EXCEPT !.last[key[h]] = tclock] ELSE planned[h]
              t == IF kind = "marker" THEN tclock ELSE f.last[key[h]]
  <1>1. key[h] \in ThrottleKey /\ tclock \in T!Time /\ planned[h] \in T!File
    BY DEF T!TypeOK
  <1>2. f \in T!File /\ (kind = "stamp" => /\ f.last[key[h]] = tclock /\ f.whole /\ f.start <= tclock
                                           /\ \A k \in ThrottleKey : k # key[h] => f.last[k] = None)
    <2>1. CASE kind = "stamp"
      BY <1>1, <2>1, BlankFile, OneTime
    <2>2. CASE kind # "stamp"
      BY <1>1, <2>2
    <2>. QED  BY <2>1, <2>2
  <1>3. t \in T!Time \cup {None}
    BY <1>1, <1>2 DEF T!File
  <1>4. /\ planned' = [planned EXCEPT ![h] = f] /\ tmtime' = tclock /\ tat[h] = "open"
        /\ stamped' = IF t # None /\ (stamped[key[h]] = None \/ t > stamped[key[h]])
                      THEN [stamped EXCEPT ![key[h]] = t] ELSE stamped
        /\ IF kind = "prompt" THEN stamp' = f /\ T!Goto(h, "end")
           ELSE stamp' = [f EXCEPT !.whole = FALSE] /\ T!Goto(h, "fill")
    BY Zenon DEF T!Open
  <1>5. kind # "stamp" => f = planned[h]
    OBVIOUS
  <1>6. t = IF kind = "marker" THEN tclock ELSE f.last[key[h]]
    OBVIOUS
  <1>. HIDE DEF f, t
  <1>. QED  BY <1>2, <1>3, <1>4, <1>5, <1>6 DEF T!Goto

\* What a hook of a map is about to write: one time of what it found.
LEMMA MapPlans ==
  ASSUME T!TypeOK, NEW h \in Throttler, T!LoadPrompts(h) \/ T!SendFails(h) \/ T!Sent(h)
  PROVE  \/ planned' = planned /\ T!Sent(h) /\ tat' = [tat EXCEPT ![h] = "end"]
         \/ \E f \in T!File :
              /\ planned' = [planned EXCEPT ![h] = f] /\ f.whole /\ f.start = T!Content.start
              /\ tat' = [tat EXCEPT ![h] = "open"]
              /\ \/ T!LoadPrompts(h) /\ f.last[key[h]] = tbegan[h]
                 \/ T!SendFails(h) /\ f.last[key[h]] = tclock
                 \/ T!Sent(h) /\ f.last[key[h]] = None
              /\ \A k \in ThrottleKey : k # key[h] => f.last[k] = T!Content.last[k]
  <1>1. /\ T!Content \in T!File /\ T!Content.whole /\ key[h] \in ThrottleKey
        /\ tclock \in T!Time \cup {None} /\ tbegan[h] \in T!Time \cup {None} /\ None \in T!Time \cup {None}
    BY ContentFile DEF T!TypeOK
  <1>2. ASSUME NEW t \in T!Time \cup {None}, planned' = [planned EXCEPT ![h] = [T!Content EXCEPT !.last[key[h]] = t]],
               tat' = [tat EXCEPT ![h] = "open"],
               \/ T!LoadPrompts(h) /\ t = tbegan[h]
               \/ T!SendFails(h) /\ t = tclock
               \/ T!Sent(h) /\ t = None
        PROVE  \E f \in T!File :
              /\ planned' = [planned EXCEPT ![h] = f] /\ f.whole /\ f.start = T!Content.start
              /\ tat' = [tat EXCEPT ![h] = "open"]
              /\ \/ T!LoadPrompts(h) /\ f.last[key[h]] = tbegan[h]
                 \/ T!SendFails(h) /\ f.last[key[h]] = tclock
                 \/ T!Sent(h) /\ f.last[key[h]] = None
              /\ \A k \in ThrottleKey : k # key[h] => f.last[k] = T!Content.last[k]
    <2>. DEFINE f == [T!Content EXCEPT !.last[key[h]] = t]
    <2>1. /\ f \in T!File /\ f.whole /\ f.start = T!Content.start /\ f.last[key[h]] = t
          /\ \A k \in ThrottleKey : k # key[h] => f.last[k] = T!Content.last[k]
      BY <1>1, OneTime
    <2>. HIDE DEF f
    <2>2. planned' = [planned EXCEPT ![h] = f]
      BY <1>2 DEF f
    <2>. QED  BY <1>2, <2>1, <2>2, Zenon
  <1>3. CASE T!LoadPrompts(h)
    <2>1. /\ planned' = [planned EXCEPT ![h] = [T!Content EXCEPT !.last[key[h]] = tbegan[h]]]
          /\ tat' = [tat EXCEPT ![h] = "open"]
      BY <1>3, Zenon DEF T!LoadPrompts, T!Goto
    <2>. QED  BY <1>1, <1>2, <1>3, <2>1, Zenon
  <1>4. CASE T!SendFails(h)
    <2>1. /\ planned' = [planned EXCEPT ![h] = [T!Content EXCEPT !.last[key[h]] = tclock]]
          /\ tat' = [tat EXCEPT ![h] = "open"]
      BY <1>4, Zenon DEF T!SendFails, T!Goto
    <2>. QED  BY <1>1, <1>2, <1>4, <2>1, Zenon
  <1>5. CASE T!Sent(h)
    <2>1. \/ planned' = planned /\ tat' = [tat EXCEPT ![h] = "end"]
          \/ /\ planned' = [planned EXCEPT ![h] = [T!Content EXCEPT !.last[key[h]] = None]]
             /\ tat' = [tat EXCEPT ![h] = "open"]
      BY <1>5, Zenon DEF T!Sent, T!Goto
    <2>. QED  BY <1>1, <1>2, <1>5, <2>1, Zenon
  <1>. QED  BY <1>3, <1>4, <1>5

\* A write makes the file whole, but for one that others spoil.
LEMMA FillWrites ==
  ASSUME T!TypeOK, NEW h \in Throttler, T!Fill(h)
  PROVE  \E f \in T!File :
           /\ stamp' = f /\ f.last = planned[h].last /\ f.start = planned[h].start
           /\ (\A o \in Throttler \ {h} : tat[o] # "fill") => f.whole
  <1>1. PICK w \in {TRUE} \cup {~(\E o \in Throttler \ {h} : tat[o] = "fill")} :
           stamp' = [planned[h] EXCEPT !.whole = w]
    BY Zenon DEF T!Fill
  <1>2. w \in BOOLEAN /\ ((\A o \in Throttler \ {h} : tat[o] # "fill") => w)
    BY <1>1
  <1>3. planned[h] \in T!File
    BY DEF T!TypeOK
  <1>. DEFINE f == [planned[h] EXCEPT !.whole = w]
  <1>4. f \in T!File /\ f.whole = w /\ f.start = planned[h].start /\ f.last = planned[h].last
    BY <1>2, <1>3, Torn
  <1>. HIDE DEF f
  <1>5. stamp' = f
    BY <1>1 DEF f
  <1>. QED  BY <1>2, <1>4, <1>5

-----------------------------------------------------------------------------
(* The throttles: the types *)

LEMMA ThrottleTypes == T!TypeOK /\ [T!Next]_tvars => T!TypeOK'
  <1>. SUFFICES ASSUME T!TypeOK, [T!Next]_tvars PROVE T!TypeOK'
    OBVIOUS
  <1>. USE DEF T!Goto
  <1>1. ASSUME NEW h \in Throttler, T!Check(h)
        PROVE  T!TypeOK'
    <2>1. planned' \in [Throttler -> T!File]
      BY <1>1, CheckPlans DEF T!TypeOK
    <2>2. /\ UNCHANGED <<kind, tclock, stamp, tmtime, key, acted, stamped>>
          /\ tbegan' = [tbegan EXCEPT ![h] = tclock]
          /\ \E b \in BOOLEAN : go' = [go EXCEPT ![h] = b]
          /\ \E l \in {"open", "end", "act"} : tat' = [tat EXCEPT ![h] = l]
          /\ disturbed' = (disturbed \/ \E o \in Throttler : T!Active(o))
      BY <1>1 DEF T!Check
    <2>3. disturbed' \in BOOLEAN
      BY <2>2, Zenon DEF T!TypeOK
    <2>. QED  BY <2>1, <2>2, <2>3 DEF T!TypeOK
  <1>2. ASSUME NEW h \in Throttler, T!Act(h) \/ T!Prompt(h)
        PROVE  T!TypeOK'
    BY <1>2 DEF T!Act, T!Prompt, T!Acted, T!TypeOK
  <1>3. ASSUME NEW h \in Throttler, T!LoadPrompts(h) \/ T!SendFails(h) \/ T!Sent(h)
        PROVE  T!TypeOK'
    <2>1. planned' \in [Throttler -> T!File] /\ \E l \in {"open", "end"} : tat' = [tat EXCEPT ![h] = l]
      BY <1>3, MapPlans DEF T!TypeOK
    <2>2. /\ UNCHANGED <<kind, tclock, stamp, tmtime, key, tbegan, go, stamped, disturbed>>
          /\ acted' = acted \/ acted' = [acted EXCEPT ![key[h]] = tbegan[h]]
      BY <1>3, Zenon DEF T!LoadPrompts, T!SendFails, T!Sent, T!Acted
    <2>. QED  BY <2>1, <2>2 DEF T!TypeOK
  <1>4. ASSUME NEW h \in Throttler, T!Open(h)
        PROVE  T!TypeOK'
    <2>1. PICK f \in T!File, t \in T!Time \cup {None} :
            /\ planned' = [planned EXCEPT ![h] = f] /\ tmtime' = tclock
            /\ stamped' = IF t # None /\ (stamped[key[h]] = None \/ t > stamped[key[h]])
                          THEN [stamped EXCEPT ![key[h]] = t] ELSE stamped
            /\ stamp' = f \/ stamp' = [f EXCEPT !.whole = FALSE]
            /\ tat' = [tat EXCEPT ![h] = IF kind = "prompt" THEN "end" ELSE "fill"]
      BY <1>4, OpenStamps
    <2>2. UNCHANGED <<kind, tclock, key, tbegan, go, acted, disturbed>>
      BY <1>4, Zenon DEF T!Open
    <2>3. stamp' \in T!File
      BY <2>1, Torn
    <2>4. stamped' \in [ThrottleKey -> T!Time \cup {None}]
      BY <2>1 DEF T!TypeOK
    <2>. QED  BY <2>1, <2>2, <2>3, <2>4 DEF T!TypeOK
  <1>5. ASSUME NEW h \in Throttler, T!Fill(h)
        PROVE  T!TypeOK'
    <2>1. stamp' \in T!File
      BY <1>5, FillWrites
    <2>2. stamped' \in [ThrottleKey -> T!Time \cup {None}]
      BY <1>5 DEF T!Fill, T!TypeOK
    <2>3. /\ UNCHANGED <<kind, tclock, key, tbegan, go, planned, acted, disturbed>> /\ tmtime' = tclock
          /\ \E l \in {"act", "end"} : tat' = [tat EXCEPT ![h] = l]
      BY <1>5 DEF T!Fill
    <2>. QED  BY <2>1, <2>2, <2>3 DEF T!TypeOK
  <1>6. ASSUME NEW h \in Throttler, T!Fail(h)
        PROVE  T!TypeOK'
    BY <1>6 DEF T!Fail, T!TypeOK
  <1>7. ASSUME NEW h \in Throttler, T!Kill(h)
        PROVE  T!TypeOK'
    BY <1>7 DEF T!Kill, T!TypeOK
  <1>8. CASE T!Tick
    <2>1. tclock' \in T!Time
      BY <1>8, ThrottleTimes DEF T!Tick, T!TypeOK, T!Time, T!ThrottleAssumption
    <2>. QED  BY <1>8, <2>1 DEF T!Tick, T!TypeOK
  <1>9. CASE UNCHANGED tvars
    BY <1>9 DEF tvars, T!TypeOK
  <1>. QED  BY <1>1, <1>2, <1>3, <1>4, <1>5, <1>6, <1>7, <1>8, <1>9 DEF T!Next

LEMMA ThrottleInits == ThrottleInit => T!TypeOK /\ ThrottleInv
  <1>. SUFFICES ASSUME ThrottleInit PROVE T!TypeOK /\ ThrottleInv
    OBVIOUS
  <1>1. 0 \in T!Time /\ 0 \in 0..Threshold /\ 0 <= 0
    BY ThrottleTimes DEF T!ThrottleAssumption, T!Time
  <1>2. T!Init /\ kind \in {"marker", "stamp", "count", "prompt", "error"}
    BY DEF ThrottleInit
  <1>3. tclock = 0
    BY <1>2 DEF T!Init
  <1>4. T!Blank \in T!File /\ T!Blank.start = 0 /\ \A k \in ThrottleKey : T!Blank.last[k] = None
    BY <1>1, <1>3 DEF T!Blank, T!File
  <1>5. planned \in [Throttler -> T!File] /\ \A h \in Throttler : planned[h] = T!Blank
    BY <1>2, <1>4 DEF T!Init
  <1>6. key \in [Throttler -> ThrottleKey]
    <2>1. (CHOOSE k \in ThrottleKey : TRUE) \in ThrottleKey
      BY ThrottleTimes DEF T!ThrottleAssumption
    <2>2. CASE key \in [Throttler -> ThrottleKey]
      BY <2>2
    <2>3. CASE key = [h \in Throttler |-> CHOOSE k \in ThrottleKey : TRUE]
      BY <2>1, <2>3
    <2>. QED  BY <1>2, <2>2, <2>3 DEF T!Init
  <1>7. T!TypeOK
    BY <1>1, <1>2, <1>5, <1>6, Zenon DEF T!Init, T!TypeOK
  <1>8. kind \notin T!ActsFirst => \A g, h \in Throttler : key[g] = key[h]
    BY <1>2 DEF T!Init
  <1>9. PastInv
    BY <1>1, <1>2, <1>4, <1>5 DEF T!Init, PastInv
  <1>10. WayInv
    BY <1>2, <1>8 DEF T!Init, WayInv
  <1>11. StampInv
    BY <1>2, <1>4, <1>5 DEF T!Init, StampInv, NotBefore
  <1>12. MarkerInv
    BY <1>2 DEF T!Init, MarkerInv
  <1>13. WorkInv
    BY <1>2 DEF T!Init, WorkInv, PlaceInv, Recalled, T!Since, T!Active
  <1>. QED  BY <1>7, <1>9, <1>10, <1>11, <1>12, <1>13 DEF ThrottleInv

-----------------------------------------------------------------------------
(* The throttles: times and ways *)

LEMMA ThrottleNumbers ==
  ASSUME T!TypeOK
  PROVE  /\ tclock \in Nat /\ tmtime \in Nat
         /\ \A h \in Throttler : tbegan[h] \in Nat /\ planned[h] \in T!File /\ key[h] \in ThrottleKey
         /\ \A k \in ThrottleKey : /\ acted[k] # None => acted[k] \in Nat
                                   /\ stamped[k] # None => stamped[k] \in Nat
         /\ \A f \in T!File : /\ f.start \in Nat
                              /\ \A k \in ThrottleKey : f.last[k] # None => f.last[k] \in Nat
         /\ stamp # None => stamp \in T!File
         /\ None \notin T!Time /\ None \notin T!File
  BY ThrottleTimes DEF T!TypeOK, T!File, T!Time, T!ThrottleAssumption

\* Nothing in the file or about to be written is of a time to come.
LEMMA PastStep ==
  ASSUME T!TypeOK, T!TypeOK', PastInv, StampInv, [T!Next]_tvars
  PROVE  PastInv'
  <1>. USE DEF T!Goto
  <1>0. \A k \in ThrottleKey : /\ T!Content.last[k] # None => T!Content.last[k] <= tclock
                               /\ T!Content.start <= tclock
    <2>1. ASSUME NEW k \in ThrottleKey, stamp # None, stamp.last[k] # None
          PROVE  stamp.last[k] <= tclock
      BY <2>1, ThrottleNumbers DEF StampInv, PastInv, NotBefore
    <2>. QED  BY <2>1, ContentFile, BlankFile DEF PastInv
  <1>1. ASSUME NEW h \in Throttler, T!Check(h)
        PROVE  PastInv'
    <2>1. /\ UNCHANGED <<kind, tclock, stamp, tmtime, acted, stamped>> /\ tbegan' = [tbegan EXCEPT ![h] = tclock]
      BY <1>1, Zenon DEF T!Check
    <2>2. \A g \in Throttler : /\ planned'[g].start <= tclock
                               /\ \A k \in ThrottleKey :
                                    planned'[g].last[k] # None => planned'[g].last[k] <= tclock
      <3>1. CASE planned' = planned
        BY <3>1 DEF PastInv
      <3>2. ASSUME NEW f \in T!File, planned' = [planned EXCEPT ![h] = f], f.start = T!Content.start,
                   f.last[key[h]] = IF go'[h] THEN tclock ELSE T!Content.last[key[h]],
                   \A k \in ThrottleKey : k # key[h] => f.last[k] = T!Content.last[k]
            PROVE  \A g \in Throttler : /\ planned'[g].start <= tclock
                               /\ \A k \in ThrottleKey :
                                    planned'[g].last[k] # None => planned'[g].last[k] <= tclock
        <4>1. f.start <= tclock /\ \A k \in ThrottleKey : f.last[k] # None => f.last[k] <= tclock
          BY <1>0, <3>2, ThrottleNumbers
        <4>2. planned'[h] = f /\ \A g \in Throttler : g # h => planned'[g] = planned[g]
          BY <3>2 DEF T!TypeOK
        <4>. QED  BY <4>1, <4>2 DEF PastInv
      <3>. QED  BY <1>1, <3>1, <3>2, CheckPlans
    <2>. QED  BY <2>1, <2>2, ThrottleNumbers DEF PastInv, T!TypeOK
  <1>2. ASSUME NEW h \in Throttler, T!Act(h) \/ T!Prompt(h)
        PROVE  PastInv'
    <2>1. /\ UNCHANGED <<tclock, stamp, tmtime, tbegan, planned, stamped>>
          /\ acted' = acted \/ acted' = [acted EXCEPT ![key[h]] = tbegan[h]]
      BY <1>2 DEF T!Act, T!Prompt, T!Acted
    <2>. QED  BY <2>1 DEF PastInv, T!TypeOK
  <1>3. ASSUME NEW h \in Throttler, T!LoadPrompts(h) \/ T!SendFails(h) \/ T!Sent(h)
        PROVE  PastInv'
    <2>1. /\ UNCHANGED <<tclock, stamp, tmtime, tbegan, stamped>>
          /\ acted' = acted \/ acted' = [acted EXCEPT ![key[h]] = tbegan[h]]
      BY <1>3, Zenon DEF T!LoadPrompts, T!SendFails, T!Sent, T!Acted
    <2>2. \A k \in ThrottleKey : acted'[k] # None => acted'[k] <= tclock
      BY <2>1 DEF PastInv, T!TypeOK
    <2>3. \A g \in Throttler : /\ planned'[g].start <= tclock
                               /\ \A k \in ThrottleKey :
                                    planned'[g].last[k] # None => planned'[g].last[k] <= tclock
      <3>1. CASE planned' = planned
        BY <3>1 DEF PastInv
      <3>2. ASSUME NEW f \in T!File, planned' = [planned EXCEPT ![h] = f], f.start = T!Content.start,
                   f.last[key[h]] \in {tbegan[h], tclock, None},
                   \A k \in ThrottleKey : k # key[h] => f.last[k] = T!Content.last[k]
            PROVE  \A g \in Throttler : /\ planned'[g].start <= tclock
                               /\ \A k \in ThrottleKey :
                                    planned'[g].last[k] # None => planned'[g].last[k] <= tclock
        <4>1. f.start <= tclock /\ \A k \in ThrottleKey : f.last[k] # None => f.last[k] <= tclock
          BY <1>0, <3>2, ThrottleNumbers DEF PastInv
        <4>2. planned'[h] = f /\ \A g \in Throttler : g # h => planned'[g] = planned[g]
          BY <3>2 DEF T!TypeOK
        <4>. QED  BY <4>1, <4>2 DEF PastInv
      <3>. QED  BY <1>3, <3>1, <3>2, MapPlans
    <2>. QED  BY <2>1, <2>2, <2>3 DEF PastInv
  <1>4. ASSUME NEW h \in Throttler, T!Open(h)
        PROVE  PastInv'
    <2>1. PICK f \in T!File, t \in T!Time \cup {None} :
            /\ planned' = [planned EXCEPT ![h] = f] /\ tmtime' = tclock
            /\ IF kind = "stamp"
               THEN f.last[key[h]] = tclock /\ \A k \in ThrottleKey : k # key[h] => f.last[k] = None
               ELSE f = planned[h]
            /\ kind = "stamp" => f.whole /\ f.start <= tclock
            /\ t = IF kind = "marker" THEN tclock ELSE f.last[key[h]]
            /\ stamped' = IF t # None /\ (stamped[key[h]] = None \/ t > stamped[key[h]])
                          THEN [stamped EXCEPT ![key[h]] = t] ELSE stamped
            /\ stamp' = f \/ stamp' = [f EXCEPT !.whole = FALSE]
      BY <1>4, OpenStamps
    <2>2. UNCHANGED <<kind, tclock, key, tbegan, go, acted, disturbed>>
      BY <1>4, Zenon DEF T!Open
    <2>3. f.start <= tclock /\ \A k \in ThrottleKey : f.last[k] # None => f.last[k] <= tclock
      BY <2>1, ThrottleNumbers DEF PastInv
    <2>4. planned'[h] = f /\ \A g \in Throttler : g # h => planned'[g] = planned[g]
      BY <2>1 DEF T!TypeOK
    <2>5. stamp'.start = f.start
      BY <2>1, Torn
    <2>6. \A k \in ThrottleKey : stamped'[k] # None => stamped'[k] <= tclock
      BY <2>1, <2>3, ThrottleNumbers DEF PastInv, T!TypeOK
    <2>. QED  BY <2>1, <2>2, <2>3, <2>4, <2>5, <2>6, ThrottleNumbers DEF PastInv
  <1>5. ASSUME NEW h \in Throttler, T!Fill(h)
        PROVE  PastInv'
    <2>1. /\ UNCHANGED <<tclock, tbegan, planned, acted>> /\ tmtime' = tclock
          /\ stamped' = stamped \/ stamped' = [stamped EXCEPT ![key[h]] = tclock]
      BY <1>5 DEF T!Fill
    <2>2. stamp'.start = planned[h].start
      BY <1>5, FillWrites
    <2>. QED  BY <2>1, <2>2, ThrottleNumbers DEF PastInv, T!TypeOK
  <1>6. ASSUME NEW h \in Throttler, T!Fail(h) \/ T!Kill(h)
        PROVE  PastInv'
    BY <1>6 DEF T!Fail, T!Kill, PastInv
  <1>7. CASE T!Tick
    <2>1. tclock' = tclock + 1 /\ UNCHANGED <<stamp, tmtime, tbegan, planned, acted, stamped>>
      BY <1>7 DEF T!Tick
    <2>. QED  BY <2>1, ThrottleNumbers DEF PastInv
  <1>8. CASE UNCHANGED tvars
    BY <1>8 DEF tvars, PastInv
  <1>. QED  BY <1>1, <1>2, <1>3, <1>4, <1>5, <1>6, <1>7, <1>8 DEF T!Next

LEMMA WayStep ==
  ASSUME T!TypeOK, WayInv, [T!Next]_tvars
  PROVE  WayInv'
  <1>. USE DEF T!Goto
  <1>1. ASSUME NEW h \in Throttler, NEW l \in {"act", "open", "end"},
               UNCHANGED <<kind, key>>, tat' = [tat EXCEPT ![h] = l],
               acted' = acted \/ acted' = [acted EXCEPT ![key[h]] = tbegan[h]]
        PROVE  WayInv'
    BY <1>1 DEF WayInv, T!TypeOK
  <1>2. ASSUME NEW h \in Throttler, T!Check(h) \/ T!Act(h) \/ T!Kill(h) \/ T!Fail(h)
        PROVE  WayInv'
    <2>1. UNCHANGED <<kind, key>> /\ (acted' = acted \/ acted' = [acted EXCEPT ![key[h]] = tbegan[h]])
      BY <1>2, Zenon DEF T!Check, T!Act, T!Kill, T!Fail, T!Acted
    <2>2. \E l \in {"act", "open", "end"} : tat' = [tat EXCEPT ![h] = l]
      BY <1>2 DEF T!Check, T!Act, T!Kill, T!Fail
    <2>. QED  BY <1>1, <2>1, <2>2
  <1>3. ASSUME NEW h \in Throttler, T!LoadPrompts(h) \/ T!SendFails(h) \/ T!Sent(h)
        PROVE  WayInv'
    <2>1. UNCHANGED <<kind, key>> /\ (acted' = acted \/ acted' = [acted EXCEPT ![key[h]] = tbegan[h]])
      BY <1>3, Zenon DEF T!LoadPrompts, T!SendFails, T!Sent, T!Acted
    <2>2. \E l \in {"act", "open", "end"} : tat' = [tat EXCEPT ![h] = l]
      BY <1>3, MapPlans
    <2>. QED  BY <1>1, <2>1, <2>2
  <1>4. ASSUME NEW h \in Throttler, T!Prompt(h)
        PROVE  WayInv'
    BY <1>4 DEF T!Prompt, T!Acted, WayInv, T!TypeOK, T!ActsFirst
  <1>5. ASSUME NEW h \in Throttler, T!Open(h)
        PROVE  WayInv'
    BY <1>5 DEF T!Open, WayInv, T!TypeOK
  <1>6. ASSUME NEW h \in Throttler, T!Fill(h)
        PROVE  WayInv'
    BY <1>6 DEF T!Fill, WayInv, T!TypeOK
  <1>7. CASE T!Tick \/ UNCHANGED tvars
    BY <1>7 DEF T!Tick, tvars, WayInv
  <1>. QED  BY <1>2, <1>3, <1>4, <1>5, <1>6, <1>7 DEF T!Next

-----------------------------------------------------------------------------
(* The throttles: whoever is held back, is so for what was stamped *)

\* A step that leaves the file and the stamped times alone.
LEMMA StampFrame ==
  ASSUME StampInv, UNCHANGED <<kind, key, stamp, tmtime, stamped>>, NEW h \in Throttler,
         \A g \in Throttler : g # h => tat'[g] = tat[g] /\ planned'[g] = planned[g],
         \A k \in ThrottleKey : k # key[h] \/ tat'[h] = "fill" => NotBefore(stamped[k], planned'[h].last[k])
  PROVE  StampInv'
  BY DEF StampInv, NotBefore

LEMMA ContentStamped ==
  ASSUME T!TypeOK, StampInv, NEW k \in ThrottleKey
  PROVE  NotBefore(stamped[k], T!Content.last[k])
  BY ContentFile, BlankFile DEF StampInv, NotBefore

LEMMA StampStep ==
  ASSUME T!TypeOK, T!TypeOK', PastInv, WayInv, StampInv, [T!Next]_tvars
  PROVE  StampInv'
  <1>. USE DEF T!Goto
  <1>1. ASSUME NEW h \in Throttler, T!Check(h)
        PROVE  StampInv'
    <2>1. /\ UNCHANGED <<kind, key, stamp, tmtime, stamped>>
          /\ tat'[h] # "fill" /\ \A g \in Throttler : g # h => tat'[g] = tat[g]
      BY <1>1 DEF T!Check, T!TypeOK
    <2>2. /\ \A g \in Throttler : g # h => planned'[g] = planned[g]
          /\ \A k \in ThrottleKey : k # key[h] =>
               planned'[h].last[k] \in {planned[h].last[k], T!Content.last[k]}
      BY <1>1, CheckPlans DEF T!TypeOK
    <2>3. \A k \in ThrottleKey : k # key[h] => NotBefore(stamped[k], planned'[h].last[k])
      BY <2>2, ContentStamped DEF StampInv
    <2>. QED  BY <2>1, <2>2, <2>3, StampFrame
  <1>2. ASSUME NEW h \in Throttler, T!Act(h) \/ T!Prompt(h) \/ T!Fail(h) \/ T!Kill(h)
        PROVE  StampInv'
    <2>1. /\ UNCHANGED <<kind, key, stamp, tmtime, stamped, planned>>
          /\ tat'[h] # "fill" /\ \A g \in Throttler : g # h => tat'[g] = tat[g]
      BY <1>2 DEF T!Act, T!Prompt, T!Fail, T!Kill, T!TypeOK
    <2>2. \A k \in ThrottleKey : k # key[h] => NotBefore(stamped[k], planned'[h].last[k])
      BY <2>1 DEF StampInv
    <2>. QED  BY <2>1, <2>2, StampFrame
  <1>3. ASSUME NEW h \in Throttler, T!LoadPrompts(h) \/ T!SendFails(h) \/ T!Sent(h)
        PROVE  StampInv'
    <2>1. UNCHANGED <<kind, key, stamp, tmtime, stamped>>
      BY <1>3, Zenon DEF T!LoadPrompts, T!SendFails, T!Sent
    <2>2. /\ tat'[h] # "fill" /\ \A g \in Throttler : g # h => tat'[g] = tat[g]
          /\ \A g \in Throttler : g # h => planned'[g] = planned[g]
          /\ \A k \in ThrottleKey : k # key[h] =>
               planned'[h].last[k] \in {planned[h].last[k], T!Content.last[k]}
      BY <1>3, MapPlans DEF T!TypeOK
    <2>3. \A k \in ThrottleKey : k # key[h] => NotBefore(stamped[k], planned'[h].last[k])
      BY <2>2, ContentStamped DEF StampInv
    <2>. QED  BY <2>1, <2>2, <2>3, StampFrame
  <1>4. ASSUME NEW h \in Throttler, T!Open(h)
        PROVE  StampInv'
    <2>1. PICK f \in T!File, t \in T!Time \cup {None} :
            /\ planned' = [planned EXCEPT ![h] = f] /\ tmtime' = tclock
            /\ IF kind = "stamp"
               THEN f.last[key[h]] = tclock /\ \A k \in ThrottleKey : k # key[h] => f.last[k] = None
               ELSE f = planned[h]
            /\ t = IF kind = "marker" THEN tclock ELSE f.last[key[h]]
            /\ stamped' = IF t # None /\ (stamped[key[h]] = None \/ t > stamped[key[h]])
                          THEN [stamped EXCEPT ![key[h]] = t] ELSE stamped
            /\ stamp' = f \/ stamp' = [f EXCEPT !.whole = FALSE]
            /\ tat' = [tat EXCEPT ![h] = IF kind = "prompt" THEN "end" ELSE "fill"]
      BY <1>4, OpenStamps
    <2>2. UNCHANGED <<kind, tclock, key, tbegan, go, acted, disturbed>>
      BY <1>4, Zenon DEF T!Open
    <2>3. /\ \A k \in ThrottleKey : \A u \in T!Time \cup {None} : NotBefore(stamped[k], u) => NotBefore(stamped'[k], u)
          /\ NotBefore(stamped'[key[h]], t)
      BY <2>1, ThrottleNumbers DEF NotBefore, T!TypeOK, T!Time
    <2>4. \A k \in ThrottleKey : NotBefore(stamped'[k], f.last[k])
      <3>1. \A k \in ThrottleKey : f.last[k] \in T!Time \cup {None}
        BY DEF T!File
      <3>2. CASE kind = "marker"
        <4>1. \A k \in ThrottleKey : k # key[h] => NotBefore(stamped'[k], f.last[k])
          BY <2>1, <2>3, <3>1, <3>2 DEF StampInv
        <4>2. f.last[key[h]] # None => f.last[key[h]] <= tclock /\ tclock \in T!Time
          BY <2>1, <3>2 DEF PastInv, T!TypeOK
        <4>3. NotBefore(stamped'[key[h]], f.last[key[h]])
          BY <2>1, <2>3, <3>2, <4>2, ThrottleNumbers DEF NotBefore, T!TypeOK
        <4>. QED  BY <4>1, <4>3
      <3>3. CASE kind # "marker"
        <4>1. \A k \in ThrottleKey : k # key[h] => NotBefore(stamped'[k], f.last[k])
          BY <2>1, <2>3, <3>1 DEF StampInv, NotBefore
        <4>. QED  BY <2>1, <2>3, <3>3, <4>1
      <3>. QED  BY <3>2, <3>3
    <2>5. stamp'.last = f.last
      BY <2>1, Torn
    <2>6. kind = "marker" => \A g \in Throttler : NotBefore(stamped'[key[g]], tmtime')
      BY <2>1, <2>2, <2>3 DEF WayInv, T!ActsFirst, NotBefore
    <2>7. \A g \in Throttler, k \in ThrottleKey :
            k # key[g] \/ tat'[g] = "fill" => NotBefore(stamped'[k], planned'[g].last[k])
      <3>1. ASSUME NEW g \in Throttler, NEW k \in ThrottleKey, k # key[g] \/ tat'[g] = "fill", g # h
            PROVE  NotBefore(stamped'[k], planned'[g].last[k])
        <4>1. planned'[g] = planned[g] /\ tat'[g] = tat[g]
          BY <2>1, <3>1 DEF T!TypeOK
        <4>2. planned[g].last[k] \in T!Time \cup {None}
          BY DEF T!TypeOK, T!File
        <4>3. NotBefore(stamped[k], planned[g].last[k])
          BY <3>1, <4>1 DEF StampInv
        <4>. QED  BY <2>3, <4>1, <4>2, <4>3 DEF NotBefore
      <3>2. planned'[h] = f
        BY <2>1 DEF T!TypeOK
      <3>. QED  BY <2>4, <3>1, <3>2 DEF NotBefore
    <2>. QED  BY <2>2, <2>4, <2>5, <2>6, <2>7 DEF StampInv, NotBefore
  <1>5. ASSUME NEW h \in Throttler, T!Fill(h)
        PROVE  StampInv'
    <2>1. /\ UNCHANGED <<kind, tclock, key, planned>> /\ tmtime' = tclock /\ tat[h] = "fill"
          /\ stamped' = IF kind = "marker" THEN [stamped EXCEPT ![key[h]] = tclock] ELSE stamped
          /\ \A g \in Throttler : tat'[g] = "fill" => tat[g] = "fill"
      BY <1>5 DEF T!Fill, T!TypeOK
    <2>2. stamp'.last = planned[h].last
      BY <1>5, FillWrites
    <2>3. /\ \A k \in ThrottleKey : \A u \in T!Time \cup {None} : NotBefore(stamped[k], u) => NotBefore(stamped'[k], u)
          /\ kind = "marker" => stamped'[key[h]] = tclock
      BY <2>1, ThrottleNumbers DEF NotBefore, T!TypeOK, T!Time, PastInv
    <2>4. ASSUME NEW g \in Throttler, NEW k \in ThrottleKey, k # key[g] \/ tat[g] = "fill"
          PROVE  NotBefore(stamped'[k], planned[g].last[k])
      <3>1. planned[g].last[k] \in T!Time \cup {None}
        BY DEF T!TypeOK, T!File
      <3>2. NotBefore(stamped[k], planned[g].last[k])
        BY <2>4 DEF StampInv
      <3>. QED  BY <2>1, <2>3, <3>1, <3>2 DEF NotBefore
    <2>5. kind = "marker" => \A g \in Throttler : NotBefore(stamped'[key[g]], tmtime')
      BY <2>1, <2>3, ThrottleNumbers DEF WayInv, T!ActsFirst, NotBefore, T!TypeOK
    <2>. QED  BY <2>1, <2>2, <2>4, <2>5 DEF StampInv, NotBefore
  <1>6. CASE T!Tick \/ UNCHANGED tvars
    BY <1>6 DEF T!Tick, tvars, StampInv, NotBefore
  <1>. QED  BY <1>1, <1>2, <1>3, <1>4, <1>5, <1>6 DEF T!Next

-----------------------------------------------------------------------------
(* The throttles: nobody acts too soon *)

LEMMA MarkerStep ==
  ASSUME T!TypeOK, T!TypeOK', PastInv, MarkerInv, kind = "marker", ~disturbed', [T!Next]_tvars
  PROVE  MarkerInv'
  <1>. USE DEF T!Goto
  <1>1. ASSUME NEW h \in Throttler, T!Check(h) \/ T!Kill(h)
        PROVE  MarkerInv'
    <2>1. /\ UNCHANGED <<stamp, tmtime, acted>> /\ tat'[h] \notin {"fill", "act"}
          /\ \A g \in Throttler : g # h => tat'[g] = tat[g] /\ tbegan'[g] = tbegan[g]
      BY <1>1 DEF T!Check, T!Kill, T!TypeOK, T!ActsFirst
    <2>. QED  BY <2>1 DEF MarkerInv
  <1>2. ASSUME NEW h \in Throttler, T!Act(h)
        PROVE  MarkerInv'
    BY <1>2 DEF T!Act, T!Acted, MarkerInv, T!TypeOK
  <1>3. ASSUME NEW h \in Throttler, T!Open(h)
        PROVE  MarkerInv'
    <2>1. stamp' # None
      <3>1. PICK f \in T!File : stamp' = f \/ stamp' = [f EXCEPT !.whole = FALSE]
        BY <1>3, OpenStamps
      <3>2. stamp' \in T!File
        BY <3>1, Torn
      <3>. QED  BY <3>2, ThrottleNumbers
    <2>2. tmtime' = tclock /\ UNCHANGED <<tclock, tbegan, acted>>
      BY <1>3, Zenon DEF T!Open
    <2>. QED  BY <2>1, <2>2 DEF MarkerInv, PastInv
  <1>4. ASSUME NEW h \in Throttler, T!Fill(h)
        PROVE  MarkerInv'
    <2>1. stamp' # None
      BY <1>4, FillWrites, ThrottleNumbers
    <2>2. tmtime' = tclock /\ UNCHANGED <<tclock, tbegan, acted>>
      BY <1>4, Zenon DEF T!Fill
    <2>. QED  BY <2>1, <2>2 DEF MarkerInv, PastInv
  <1>5. ASSUME NEW h \in Throttler, T!Prompt(h) \/ T!LoadPrompts(h) \/ T!SendFails(h) \/ T!Sent(h) \/ T!Fail(h)
        PROVE  FALSE
    <2>1. CASE T!Prompt(h) \/ T!LoadPrompts(h) \/ T!SendFails(h) \/ T!Sent(h)
      BY <2>1, Zenon DEF T!Prompt, T!LoadPrompts, T!SendFails, T!Sent
    <2>2. CASE T!Fail(h)
      BY <2>2 DEF T!Fail
    <2>. QED  BY <1>5, <2>1, <2>2
  <1>6. CASE T!Tick \/ UNCHANGED tvars
    BY <1>6 DEF T!Tick, tvars, MarkerInv
  <1>. QED  BY <1>1, <1>2, <1>3, <1>4, <1>5, <1>6 DEF T!Next

\* A step of a hook that is alone.
LEMMA Solo ==
  ASSUME T!TypeOK, NEW h \in Throttler, \A g \in Throttler : g # h => ~T!Active(g),
         NEW l, tat' = [tat EXCEPT ![h] = l], PlaceInv(h)',
         l = "end" => \A k \in ThrottleKey : Recalled(k)', l # "idle"
  PROVE  WorkInv'
  <1>1. tat'[h] = l /\ \A g \in Throttler : g # h => tat'[g] \in {"idle", "end"}
    BY DEF T!Active, T!TypeOK
  <1>2. \A f, g \in Throttler : T!Active(f)' /\ T!Active(g)' => f = g
    BY <1>1 DEF T!Active
  <1>3. \A g \in Throttler : PlaceInv(g)'
    <2>1. ASSUME NEW g \in Throttler, g # h
          PROVE  PlaceInv(g)'
      BY <1>1, <2>1 DEF PlaceInv
    <2>. QED  BY <2>1
  <1>4. (\A g \in Throttler : ~T!Active(g)') => \A k \in ThrottleKey : Recalled(k)'
    BY <1>1 DEF T!Active
  <1>. QED  BY <1>2, <1>3, <1>4 DEF WorkInv

\* What recalls the past is found, but for a count, which may be too old.
LEMMA Found ==
  ASSUME T!TypeOK, kind # "count", stamp # None, stamp.whole
  PROVE  T!Content = stamp
  <1>1. tclock \in Nat /\ tclock <= ThrottleTime /\ stamp.start \in Nat
    BY ThrottleNumbers, ThrottleTimes DEF T!TypeOK, T!Time, T!ThrottleAssumption
  <1>2. tclock - stamp.start <= ThrottleTime
    BY <1>1, ThrottleTimes DEF T!ThrottleAssumption
  <1>. QED  BY <1>2 DEF T!Content, T!Life

\* Whoever decides to act comes late enough, if the last act is recalled.
LEMMA DueInTime ==
  ASSUME T!TypeOK, PastInv, NEW k \in ThrottleKey, kind \notin {"marker", "count"}, ~T!Throttled(k), Recalled(k)
  PROVE  ~T!Since(acted[k])
  <1>. SUFFICES ASSUME T!Since(acted[k]) PROVE FALSE
    OBVIOUS
  <1>1. stamp # None /\ stamp.whole /\ Recalls(stamp, k)
    BY DEF Recalled
  <1>2. T!Content = stamp
    BY <1>1, Found
  <1>3. stamp.last[k] # None /\ stamp.last[k] >= acted[k]
    BY <1>1 DEF Recalls
  <1>4. stamp.last[k] \in Nat /\ acted[k] \in Nat /\ tclock \in Nat
    BY <1>1, <1>3, ThrottleNumbers DEF T!Since
  <1>5. tclock - stamp.last[k] < Window
    BY <1>3, <1>4, ThrottleTimes DEF T!Since, T!ThrottleAssumption
  <1>. QED  BY <1>2, <1>3, <1>5 DEF T!Throttled, T!Within

\* What is found recalls what the file did, or is a count begun since.
LEMMA FoundRecalls ==
  ASSUME T!TypeOK, PastInv, NEW k \in ThrottleKey, Recalled(k), NEW f \in T!File,
         f.start = T!Content.start,
         f.last[k] = T!Content.last[k] \/ f.last[k] = tclock
  PROVE  Recalls(f, k)
  <1>. SUFFICES ASSUME T!Since(acted[k]) PROVE Recalls(f, k)
    BY DEF Recalls
  <1>1. stamp # None /\ stamp.whole /\ Recalls(stamp, k) /\ stamp \in T!File
    BY ThrottleNumbers DEF Recalled
  <1>2. /\ acted[k] \in Nat /\ tclock \in Nat /\ acted[k] <= tclock /\ stamp.start \in Nat /\ stamp.start <= tclock
        /\ tclock # None
    BY <1>1, ThrottleNumbers DEF T!Since, PastInv, T!TypeOK
  <1>3. CASE T!Content = stamp
    BY <1>1, <1>2, <1>3 DEF Recalls
  <1>4. CASE T!Content # stamp
    <2>1. kind = "count" /\ T!Content = T!Blank /\ ~(tclock - stamp.start <= T!Life)
      BY <1>1, <1>4, ContentFile, Found
    <2>2. f.start = tclock /\ tclock - stamp.start > Stale
      BY <1>2, <2>1, BlankFile, ThrottleTimes DEF T!Life, T!ThrottleAssumption
    <2>3. tclock > acted[k]
      BY <1>1, <1>2, <2>1, <2>2, ThrottleTimes DEF Recalls, T!ThrottleAssumption
    <2>. QED  BY <2>1, <2>2, <2>3 DEF Recalls
  <1>. QED  BY <1>3, <1>4

LEMMA WorkStep ==
  ASSUME T!TypeOK, T!TypeOK', PastInv, WayInv, WorkInv, kind # "marker", ~disturbed', [T!Next]_tvars
  PROVE  WorkInv'
  <1>0. ASSUME NEW h \in Throttler, T!Active(h)
        PROVE  \A g \in Throttler : g # h => ~T!Active(g)
    BY <1>0 DEF WorkInv
  <1>. USE DEF T!Goto
  <1>1. ASSUME NEW h \in Throttler, T!Check(h)
        PROVE  WorkInv'
    <2>. DEFINE due == go'[h]
    <2>1. /\ UNCHANGED <<kind, tclock, stamp, key, acted>>
          /\ tbegan' = [tbegan EXCEPT ![h] = tclock]
          /\ disturbed' = (disturbed \/ \E o \in Throttler : T!Active(o))
      BY <1>1, Zenon DEF T!Check
    <2>2. \A g \in Throttler : ~T!Active(g)
      BY <2>1
    <2>3. /\ \A k \in ThrottleKey : Recalled(k)
          /\ \A k \in ThrottleKey : Recalled(k)' = Recalled(k)
          /\ \A k \in ThrottleKey : T!Since(acted[k])' = T!Since(acted[k])
      BY <2>1, <2>2 DEF WorkInv, Recalled, Recalls, T!Since
    <2>4. /\ due => ~T!Throttled(key[h])
          /\ tat' = [tat EXCEPT ![h] = IF kind = "count" THEN "open" ELSE IF ~due THEN "end"
                                       ELSE IF kind \in T!ActsFirst THEN "act" ELSE "open"]
      BY <1>1 DEF T!Check, T!TypeOK
    <2>5. due /\ kind # "count" => ~T!Since(acted[key[h]])
      BY <2>3, <2>4, DueInTime, ThrottleNumbers
    <2>6. CASE kind = "count"
      <3>1. PICK f \in T!File :
              /\ planned' = [planned EXCEPT ![h] = f] /\ f.whole = T!Content.whole
              /\ f.start = T!Content.start
              /\ f.last[key[h]] = IF go'[h] THEN tclock ELSE T!Content.last[key[h]]
              /\ \A k \in ThrottleKey : k # key[h] => f.last[k] = T!Content.last[k]
        BY <1>1, <2>6, CheckPlans
      <3>2. planned'[h] = f /\ f.whole /\ tat'[h] = "open" /\ tbegan'[h] = tclock
        BY <2>1, <2>4, <2>6, <3>1, ContentFile DEF T!TypeOK
      <3>3. \A k \in ThrottleKey : Recalls(f, k)
        BY <2>3, <3>1, FoundRecalls
      <3>4. \A k \in ThrottleKey : Recalls(planned[h], k)'
        BY <2>1, <3>2, <3>3 DEF Recalls, T!Since
      <3>5. go'[h] => Records(planned[h], h)'
        <4>1. tclock - f.start <= Stale
          <5>1. tclock \in Nat /\ T!Life = Stale /\ Stale \in Nat
            BY <2>6, ThrottleNumbers, ThrottleTimes DEF T!Life, T!ThrottleAssumption
          <5>2. CASE T!Content = stamp /\ tclock - stamp.start <= T!Life
            BY <3>1, <5>1, <5>2
          <5>3. CASE T!Content = T!Blank
            BY <2>6, <3>1, <5>1, <5>3, BlankFile
          <5>. QED  BY <5>2, <5>3, ContentFile
        <4>2. go'[h] => f.last[key[h]] = tclock /\ tclock # None /\ tclock >= tclock
          BY <3>1, ThrottleNumbers DEF T!TypeOK
        <4>. QED  BY <2>1, <3>2, <4>1, <4>2 DEF Records
      <3>6. PlaceInv(h)'
        BY <2>1, <2>3, <2>6, <3>2, <3>4, <3>5 DEF PlaceInv
      <3>7. tat' = [tat EXCEPT ![h] = "open"]
        BY <2>4, <2>6
      <3>. HIDE DEF due
      <3>. QED  BY <2>2, <3>6, <3>7, Solo
    <2>7. CASE kind # "count" /\ ~due
      <3>1. tat'[h] = "end"
        BY <2>4, <2>7 DEF T!TypeOK
      <3>2. PlaceInv(h)'
        BY <3>1 DEF PlaceInv
      <3>. QED  BY <2>2, <2>3, <2>4, <2>7, <3>2, Solo
    <2>8. CASE kind \in T!ActsFirst /\ due
      <3>1. tat'[h] = "act" /\ kind # "count"
        BY <2>4, <2>8 DEF T!TypeOK, T!ActsFirst
      <3>2. PlaceInv(h)'
        BY <2>1, <2>3, <2>5, <2>8, <3>1, ThrottleNumbers DEF PlaceInv
      <3>. QED  BY <2>2, <2>4, <2>8, <3>1, <3>2, Solo
    <2>9. CASE kind = "stamp" /\ due
      <3>1. tat'[h] = "open"
        BY <2>4, <2>9 DEF T!TypeOK, T!ActsFirst
      <3>2. \A k \in ThrottleKey : ~T!Since(acted[k])
        BY <2>5, <2>9 DEF WayInv, T!ActsFirst, T!Since
      <3>3. PlaceInv(h)'
        BY <2>1, <2>3, <2>9, <3>1, <3>2 DEF PlaceInv
      <3>. QED  BY <2>2, <2>4, <2>9, <3>3, Solo DEF T!ActsFirst
    <2>. QED  BY <2>6, <2>7, <2>8, <2>9 DEF T!TypeOK, T!ActsFirst
  <1>2. ASSUME NEW h \in Throttler, T!Act(h)
        PROVE  WorkInv'
    <2>1. /\ UNCHANGED <<kind, tclock, stamp, key>> /\ tat[h] = "act" /\ kind \notin T!ActsFirst
          /\ tat' = [tat EXCEPT ![h] = "end"]
          /\ IF go[h] THEN acted' = [acted EXCEPT ![key[h]] = tbegan[h]] ELSE acted' = acted
      BY <1>2, Zenon DEF T!Act, T!Acted
    <2>2. /\ \A k \in ThrottleKey : Recalled(k)
          /\ go[h] => stamp # None /\ stamp.whole /\ Records(stamp, h)
      BY <2>1 DEF WorkInv, PlaceInv
    <2>3. ASSUME NEW k \in ThrottleKey
          PROVE  Recalled(k)'
      <3>1. CASE acted'[k] = acted[k]
        BY <2>1, <2>2, <3>1 DEF Recalled, Recalls, T!Since
      <3>2. CASE go[h] /\ k = key[h] /\ acted'[k] = tbegan[h]
        BY <2>1, <2>2, <3>2 DEF Recalled, Recalls, Records
      <3>. QED  BY <2>1, <3>1, <3>2 DEF T!TypeOK
    <2>4. T!Active(h) /\ PlaceInv(h)'
      BY <2>1 DEF T!Active, PlaceInv, T!TypeOK
    <2>. QED  BY <1>0, <2>1, <2>3, <2>4, Solo
  <1>3. ASSUME NEW h \in Throttler, T!Prompt(h)
        PROVE  WorkInv'
    <2>1. /\ UNCHANGED <<kind, tclock, stamp, key, tbegan>> /\ tat[h] = "act" /\ kind = "prompt"
          /\ \/ tat' = [tat EXCEPT ![h] = "load"] /\ acted' = [acted EXCEPT ![key[h]] = tbegan[h]]
             \/ tat' = [tat EXCEPT ![h] = "end"] /\ acted' = acted
      BY <1>3, Zenon DEF T!Prompt, T!Acted
    <2>2. \A k \in ThrottleKey : Recalled(k)
      BY <2>1 DEF WorkInv, PlaceInv
    <2>3. \A k \in ThrottleKey : acted'[k] = acted[k] => Recalled(k)'
      BY <2>1, <2>2 DEF Recalled, Recalls, T!Since
    <2>4. PlaceInv(h)'
      BY <2>1, <2>3 DEF PlaceInv, T!TypeOK
    <2>5. tat'[h] = "end" => \A k \in ThrottleKey : Recalled(k)'
      BY <2>1, <2>3 DEF T!TypeOK
    <2>6. T!Active(h)
      BY <2>1 DEF T!Active
    <2>7. PICK l \in {"load", "end"} : tat' = [tat EXCEPT ![h] = l]
      BY <2>1
    <2>8. tat'[h] = l
      BY <2>7 DEF T!TypeOK
    <2>. QED  BY <1>0, <2>4, <2>5, <2>6, <2>7, <2>8, Solo
  <1>4. ASSUME NEW h \in Throttler, T!LoadPrompts(h) \/ T!SendFails(h) \/ T!Sent(h)
        PROVE  WorkInv'
    <2>1. UNCHANGED <<kind, tclock, stamp, key, tbegan>> /\ kind \in T!ActsFirst /\ kind # "count"
      BY <1>4, Zenon DEF T!LoadPrompts, T!SendFails, T!Sent, T!ActsFirst
    <2>2. /\ T!LoadPrompts(h) => tat[h] = "load" /\ acted' = acted
          /\ T!SendFails(h) => tat[h] = "act" /\ acted' = [acted EXCEPT ![key[h]] = tbegan[h]]
          /\ T!Sent(h) => tat[h] = "act" /\ acted' = acted
      BY Zenon DEF T!LoadPrompts, T!SendFails, T!Sent, T!Acted
    <2>3. /\ \A k \in ThrottleKey : k # key[h] => Recalled(k) /\ acted'[k] = acted[k]
          /\ tat[h] = "act" => ~T!Since(acted[key[h]]) /\ \A k \in ThrottleKey : Recalled(k)
          /\ tat[h] = "load" => acted[key[h]] = tbegan[h]
      BY <1>4, <2>1, <2>2 DEF WorkInv, PlaceInv, T!TypeOK
    <2>4. T!Active(h)
      BY <1>4, <2>2 DEF T!Active
    <2>5. CASE planned' = planned /\ T!Sent(h) /\ tat' = [tat EXCEPT ![h] = "end"]
      <3>1. \A k \in ThrottleKey : Recalled(k)'
        BY <2>1, <2>2, <2>3, <2>5 DEF Recalled, Recalls, T!Since
      <3>2. PlaceInv(h)'
        BY <2>5 DEF PlaceInv, T!TypeOK
      <3>. QED  BY <1>0, <2>4, <2>5, <3>1, <3>2, Solo
    <2>6. ASSUME NEW f \in T!File, planned' = [planned EXCEPT ![h] = f], f.whole, f.start = T!Content.start,
                 tat' = [tat EXCEPT ![h] = "open"],
                 \/ T!LoadPrompts(h) /\ f.last[key[h]] = tbegan[h]
                 \/ T!SendFails(h) /\ f.last[key[h]] = tclock
                 \/ T!Sent(h) /\ f.last[key[h]] = None,
                 \A k \in ThrottleKey : k # key[h] => f.last[k] = T!Content.last[k]
          PROVE  WorkInv'
      <3>1. planned'[h] = f /\ tat'[h] = "open"
        BY <2>6 DEF T!TypeOK
      <3>2. ASSUME NEW k \in ThrottleKey, k # key[h]
            PROVE  Recalls(f, k)'
        <4>1. Recalls(f, k)
          BY <2>3, <2>6, <3>2, FoundRecalls
        <4>. QED  BY <2>1, <2>3, <3>2, <4>1 DEF Recalls, T!Since
      <3>3. Recalls(f, key[h])'
        <4>1. CASE T!Sent(h)
          BY <2>1, <2>2, <2>3, <4>1 DEF Recalls, T!Since
        <4>2. CASE T!LoadPrompts(h) /\ f.last[key[h]] = tbegan[h]
          <5>1. tbegan[h] # None /\ tbegan[h] >= tbegan[h]
            BY ThrottleNumbers DEF T!TypeOK
          <5>. QED  BY <2>1, <2>2, <2>3, <4>2, <5>1 DEF Recalls
        <4>3. CASE T!SendFails(h) /\ f.last[key[h]] = tclock
          <5>1. tclock # None /\ tclock >= tbegan[h] /\ acted'[key[h]] = tbegan[h]
            BY <2>2, <4>3, ThrottleNumbers DEF PastInv, T!TypeOK
          <5>. QED  BY <2>1, <4>3, <5>1 DEF Recalls
        <4>. QED  BY <2>6, <4>1, <4>2, <4>3
      <3>4. \A k \in ThrottleKey : Recalls(planned[h], k)'
        BY <3>1, <3>2, <3>3, <2>1 DEF Recalls, T!Since
      <3>5. PlaceInv(h)'
        BY <2>1, <2>6, <3>1, <3>4 DEF PlaceInv, T!ActsFirst
      <3>. QED  BY <1>0, <2>4, <2>6, <3>5, Solo
    <2>. QED  BY <1>4, <2>5, <2>6, MapPlans
  <1>5. ASSUME NEW h \in Throttler, T!Open(h)
        PROVE  WorkInv'
    <2>1. PICK f \in T!File, t \in T!Time \cup {None} :
            /\ planned' = [planned EXCEPT ![h] = f]
            /\ IF kind = "stamp"
               THEN f.last[key[h]] = tclock /\ \A k \in ThrottleKey : k # key[h] => f.last[k] = None
               ELSE f = planned[h]
            /\ kind = "prompt" => stamp' = f
            /\ tat[h] = "open" /\ tat' = [tat EXCEPT ![h] = IF kind = "prompt" THEN "end" ELSE "fill"]
      BY <1>5, OpenStamps
    <2>2. UNCHANGED <<kind, tclock, key, tbegan, go, acted, disturbed>>
      BY <1>5, Zenon DEF T!Open
    <2>3. planned'[h] = f /\ T!Active(h) /\ PlaceInv(h)
      BY <2>1 DEF WorkInv, T!Active, T!TypeOK
    <2>4. CASE kind = "prompt"
      <3>1. \A k \in ThrottleKey : Recalls(f, k) /\ f.whole /\ f # None
        BY <2>1, <2>3, <2>4, ThrottleNumbers DEF PlaceInv
      <3>2. \A k \in ThrottleKey : Recalled(k)'
        BY <2>1, <2>2, <2>4, <3>1 DEF Recalled, Recalls, T!Since
      <3>3. PlaceInv(h)'
        BY <2>1, <2>4 DEF PlaceInv, T!TypeOK
      <3>. QED  BY <1>0, <2>1, <2>3, <2>4, <3>2, <3>3, Solo
    <2>5. CASE kind = "stamp"
      <3>1. \A k \in ThrottleKey : ~T!Since(acted[k])'
        BY <2>1, <2>2, <2>3, <2>5 DEF PlaceInv, T!Since
      <3>2. tclock # None /\ tclock >= tbegan[h]
        BY ThrottleNumbers DEF PastInv, T!TypeOK
      <3>3. Records(planned[h], h)'
        BY <2>1, <2>2, <2>3, <2>5, <3>2 DEF Records
      <3>4. PlaceInv(h)'
        BY <2>1, <2>2, <2>5, <3>1, <3>3 DEF PlaceInv, T!TypeOK
      <3>. QED  BY <1>0, <2>1, <2>3, <2>5, <3>4, Solo
    <2>6. CASE kind \in {"count", "error"}
      <3>1. f = planned[h]
        BY <2>1, <2>6
      <3>2. \A k \in ThrottleKey : Recalls(planned[h], k)'
        BY <2>1, <2>2, <2>3, <2>6, <3>1 DEF PlaceInv, Recalls, T!Since
      <3>3. kind = "count" /\ go[h] => Records(planned[h], h)'
        BY <2>1, <2>2, <2>3, <3>1 DEF PlaceInv, Records
      <3>4. PlaceInv(h)'
        BY <2>1, <2>2, <2>3, <2>6, <3>1, <3>2, <3>3 DEF PlaceInv, T!TypeOK
      <3>. QED  BY <1>0, <2>1, <2>3, <2>6, <3>4, Solo
    <2>. QED  BY <2>4, <2>5, <2>6 DEF T!TypeOK
  <1>6. ASSUME NEW h \in Throttler, T!Fill(h)
        PROVE  WorkInv'
    <2>1. /\ UNCHANGED <<kind, tclock, key, tbegan, go, planned, acted, disturbed>> /\ tat[h] = "fill"
          /\ tat' = [tat EXCEPT ![h] = IF kind = "error" THEN "end" ELSE "act"]
      BY <1>6, Zenon DEF T!Fill
    <2>2. T!Active(h) /\ PlaceInv(h) /\ kind # "prompt"
      BY <2>1 DEF T!Active, WorkInv, WayInv
    <2>3. \A o \in Throttler \ {h} : tat[o] # "fill"
      BY <1>0, <2>2 DEF T!Active
    <2>4. PICK f \in T!File : stamp' = f /\ f.last = planned[h].last /\ f.start = planned[h].start /\ f.whole
      BY <1>6, <2>3, FillWrites
    <2>5. f # None
      BY ThrottleNumbers
    <2>6. \A k \in ThrottleKey : Recalled(k)'
      <3>1. CASE kind = "stamp"
        BY <2>1, <2>2, <3>1 DEF PlaceInv, Recalled, T!Since
      <3>2. CASE kind # "stamp"
        <4>1. \A k \in ThrottleKey : Recalls(planned[h], k)
          BY <2>1, <2>2, <3>2 DEF PlaceInv
        <4>. QED  BY <2>1, <2>4, <2>5, <4>1 DEF Recalled, Recalls, T!Since
      <3>. QED  BY <3>1, <3>2
    <2>7. kind \in {"stamp", "count"} /\ go[h] => Records(stamp, h)'
      <3>1. kind \in {"stamp", "count"} /\ go[h] => Records(planned[h], h)
        BY <2>1, <2>2 DEF PlaceInv
      <3>. QED  BY <2>1, <2>4, <3>1 DEF Records
    <2>8. PlaceInv(h)'
      BY <2>1, <2>2, <2>4, <2>5, <2>6, <2>7 DEF PlaceInv, T!TypeOK, T!ActsFirst
    <2>. QED  BY <1>0, <2>1, <2>2, <2>6, <2>8, Solo
  <1>7. ASSUME NEW h \in Throttler, T!Fail(h)
        PROVE  FALSE
    BY <1>7 DEF T!Fail
  <1>8. ASSUME NEW h \in Throttler, T!Kill(h)
        PROVE  WorkInv'
    <2>1. /\ UNCHANGED <<kind, tclock, stamp, key, acted>> /\ T!Active(h) /\ ~T!Matters(h)
          /\ tat' = [tat EXCEPT ![h] = "end"]
      BY <1>8 DEF T!Kill
    <2>2. \A k \in ThrottleKey : Recalled(k)
      <3>1. PlaceInv(h) /\ (tat[h] = "load" => kind = "prompt")
        BY DEF WorkInv, WayInv
      <3>2. tat[h] \in {"act", "load", "open", "fill"}
        BY <2>1 DEF T!Active, T!TypeOK
      <3>3. CASE tat[h] = "act"
        BY <3>1, <3>3 DEF PlaceInv
      <3>4. CASE tat[h] # "act" /\ kind = "stamp"
        BY <3>1, <3>2, <3>4 DEF PlaceInv, Recalled
      <3>5. CASE tat[h] # "act" /\ kind = "count"
        BY <2>1, <3>1, <3>2, <3>5 DEF PlaceInv, T!Matters
      <3>6. CASE tat[h] # "act" /\ kind \in T!ActsFirst
        BY <2>1, <3>6 DEF T!Matters
      <3>. QED  BY <3>3, <3>4, <3>5, <3>6 DEF T!TypeOK, T!ActsFirst
    <2>3. \A k \in ThrottleKey : Recalled(k)'
      BY <2>1, <2>2 DEF Recalled, Recalls, T!Since
    <2>4. PlaceInv(h)'
      BY <2>1 DEF PlaceInv, T!TypeOK
    <2>. QED  BY <1>0, <2>1, <2>3, <2>4, Solo
  <1>9. CASE T!Tick
    <2>1. tclock' = tclock + 1 /\ UNCHANGED <<kind, stamp, tat, key, tbegan, go, planned, acted>>
      BY <1>9 DEF T!Tick
    <2>2. \A k \in ThrottleKey : ~T!Since(acted[k]) => ~T!Since(acted[k])'
      BY <2>1, ThrottleNumbers, ThrottleTimes DEF T!Since, T!ThrottleAssumption
    <2>3. \A k \in ThrottleKey : Recalled(k) => Recalled(k)'
      BY <2>1, <2>2 DEF Recalled, Recalls
    <2>4. \A h \in Throttler, k \in ThrottleKey : Recalls(planned[h], k) => Recalls(planned[h], k)'
      BY <2>1, <2>2 DEF Recalls
    <2>5. \A h \in Throttler : /\ Records(planned[h], h)' = Records(planned[h], h)
                               /\ Records(stamp, h)' = Records(stamp, h)
      BY <2>1 DEF Records
    <2>6. ASSUME NEW h \in Throttler
          PROVE  PlaceInv(h)'
      <3>1. PlaceInv(h)
        BY DEF WorkInv
      <3>2. key[h] \in ThrottleKey
        BY ThrottleNumbers
      <3>. QED  BY <2>1, <2>2, <2>3, <2>4, <2>5, <3>1, <3>2 DEF PlaceInv
    <2>7. \A h \in Throttler : T!Active(h)' = T!Active(h)
      BY <2>1 DEF T!Active
    <2>. QED  BY <2>3, <2>6, <2>7 DEF WorkInv
  <1>10. CASE UNCHANGED tvars
    BY <1>10 DEF tvars, WorkInv, PlaceInv, Recalled, Recalls, Records, T!Since, T!Active
  <1>. QED  BY <1>1, <1>2, <1>3, <1>4, <1>5, <1>6, <1>7, <1>8, <1>9, <1>10 DEF T!Next
-----------------------------------------------------------------------------
(* The throttles: the theorem *)

LEMMA ThrottleStep ==
  ASSUME T!TypeOK, ThrottleInv, [T!Next]_tvars
  PROVE  T!TypeOK' /\ ThrottleInv'
  <1>1. T!TypeOK' /\ PastInv' /\ WayInv' /\ StampInv'
    BY ThrottleTypes, PastStep, WayStep, StampStep DEF ThrottleInv
  <1>2. kind' = kind /\ (disturbed => disturbed')
    <2>1. ASSUME NEW h \in Throttler, T!Check(h)
          PROVE  kind' = kind /\ (disturbed => disturbed')
      <3>1. UNCHANGED kind /\ disturbed' = (disturbed \/ \E o \in Throttler : T!Active(o))
        BY <2>1, Zenon DEF T!Check
      <3>. QED  BY <3>1
    <2>2. ASSUME NEW h \in Throttler, T!Fail(h) \/ T!Kill(h)
          PROVE  kind' = kind /\ (disturbed => disturbed')
      BY <2>2 DEF T!Fail, T!Kill
    <2>3. ASSUME NEW h \in Throttler, T!Act(h) \/ T!Prompt(h) \/ T!LoadPrompts(h) \/ T!SendFails(h)
          PROVE  kind' = kind /\ (disturbed => disturbed')
      <3>1. UNCHANGED <<kind, disturbed>>
        BY <2>3, Zenon DEF T!Act, T!Prompt, T!LoadPrompts, T!SendFails
      <3>. QED  BY <3>1
    <2>4. ASSUME NEW h \in Throttler, T!Sent(h) \/ T!Open(h) \/ T!Fill(h)
          PROVE  kind' = kind /\ (disturbed => disturbed')
      <3>1. UNCHANGED <<kind, disturbed>>
        BY <2>4, Zenon DEF T!Sent, T!Open, T!Fill
      <3>. QED  BY <3>1
    <2>5. CASE T!Tick \/ UNCHANGED tvars
      BY <2>5 DEF T!Tick, tvars
    <2>. QED  BY <2>1, <2>2, <2>3, <2>4, <2>5, Zenon DEF T!Next
  <1>3. CASE disturbed'
    BY <1>1, <1>3 DEF ThrottleInv
  <1>4. CASE ~disturbed' /\ kind = "marker"
    <2>1. MarkerInv'
      BY <1>1, <1>2, <1>4, MarkerStep DEF ThrottleInv
    <2>. QED  BY <1>1, <1>2, <1>4, <2>1 DEF ThrottleInv
  <1>5. CASE ~disturbed' /\ kind # "marker"
    <2>1. WorkInv'
      BY <1>1, <1>2, <1>5, WorkStep DEF ThrottleInv
    <2>. QED  BY <1>1, <1>2, <1>5, <2>1 DEF ThrottleInv
  <1>. QED  BY <1>3, <1>4, <1>5

\* Whoever is held back, is so for what was stamped.
LEMMA HeldBack ==
  ASSUME T!TypeOK, PastInv, StampInv, NEW h \in Throttler, T!Check(h), ~go'[h]
  PROVE  \/ T!Since(stamped[key[h]])
         \/ kind = "count" /\ planned'[h].edits < Threshold
  <1>1. CASE T!Throttled(key[h])
    <2>. DEFINE k == key[h]
    <2>1. k \in ThrottleKey /\ tclock \in Nat /\ tmtime \in Nat /\ tmtime # None
      BY ThrottleNumbers DEF T!TypeOK
    <2>2. stamped[k] # None => stamped[k] \in Nat
      BY <2>1, ThrottleNumbers
    <2>3. Window \in Nat
      BY ThrottleTimes DEF T!ThrottleAssumption
    <2>4. CASE kind = "marker"
      <3>1. stamp # None /\ tclock - tmtime < Window
        BY <1>1, <2>4 DEF T!Throttled, T!Within
      <3>2. NotBefore(stamped[k], tmtime)
        BY <2>4, <3>1 DEF StampInv
      <3>. QED  BY <2>1, <2>2, <2>3, <2>4, <3>1, <3>2 DEF NotBefore, T!Since
    <2>5. CASE kind # "marker"
      <3>. DEFINE t == T!Content.last[k]
      <3>1. t # None /\ IF kind = "count" THEN tclock - t <= Window ELSE tclock - t < Window
        BY <1>1, <2>5 DEF T!Throttled, T!Within
      <3>2. t \in Nat
        BY <2>1, <3>1, ContentFile, ThrottleNumbers
      <3>3. NotBefore(stamped[k], t)
        BY <2>1, ContentStamped
      <3>. HIDE DEF k, t
      <3>4. T!Since(stamped[k])
        BY <2>1, <2>2, <2>3, <3>1, <3>2, <3>3 DEF NotBefore, T!Since
      <3>. QED  BY <3>4 DEF k
    <2>. QED  BY <2>4, <2>5
  <1>2. CASE ~T!Throttled(key[h])
    <2>1. kind = "count"
      BY <1>2, CheckPlans
    <2>2. PICK f \in T!File : /\ planned' = [planned EXCEPT ![h] = f] /\ f.edits \in Nat
                              /\ go'[h] <=> ~T!Throttled(key[h]) /\ f.edits >= Threshold
      BY <2>1, CheckPlans
    <2>3. planned'[h] = f
      BY <2>2 DEF T!TypeOK
    <2>4. Threshold \in Nat
      BY ThrottleTimes DEF T!ThrottleAssumption
    <2>. QED  BY <1>2, <2>1, <2>2, <2>3, <2>4
  <1>. QED  BY <1>1, <1>2

\* Whoever acts, does so late enough.
LEMMA LateEnough ==
  ASSUME T!TypeOK, ThrottleInv, NEW h \in Throttler, T!Check(h), go'[h], ~disturbed'
  PROVE  \/ ~T!Since(acted[key[h]])
         \/ kind = "count" /\ planned'[h].start > acted[key[h]]
  <1>. DEFINE k == key[h]
  <1>1. /\ ~disturbed /\ \A g \in Throttler : ~T!Active(g)
        /\ PastInv
    BY Zenon DEF T!Check, ThrottleInv
  <1>2. ~T!Throttled(k)
    BY CheckPlans
  <1>3. k \in ThrottleKey
    BY DEF T!TypeOK
  <1>. HIDE DEF k
  <1>4. CASE kind = "marker"
    <2>1. MarkerInv
      BY <1>1, <1>4 DEF ThrottleInv
    <2>2. acted[k] # None => /\ stamp # None /\ tmtime >= acted[k] /\ acted[k] \in Nat
                             /\ tmtime \in Nat /\ tclock \in Nat /\ Window \in Nat
      BY <1>3, <2>1, ThrottleNumbers, ThrottleTimes DEF MarkerInv, T!ThrottleAssumption
    <2>3. stamp # None => ~(tclock - tmtime < Window)
      BY <1>2, <1>4 DEF T!Throttled, T!Within
    <2>4. ~T!Since(acted[k])
      BY <1>4, <2>2, <2>3 DEF T!Since
    <2>. QED  BY <2>4 DEF k
  <1>5. CASE kind # "marker"
    <2>1. Recalled(k)
      BY <1>1, <1>3, <1>5 DEF ThrottleInv, WorkInv
    <2>2. CASE kind # "count"
      <3>1. ~T!Since(acted[k])
        BY <1>1, <1>2, <1>3, <1>5, <2>1, <2>2, DueInTime
      <3>. QED  BY <3>1 DEF k
    <2>3. CASE kind = "count" /\ T!Since(acted[k])
      <3>1. Recalls(T!Content, k)
        BY <1>1, <1>3, <2>1, ContentFile, FoundRecalls
      <3>2. acted[k] \in Nat /\ tclock \in Nat /\ Window \in Nat
        BY <1>3, <2>3, ThrottleNumbers, ThrottleTimes DEF T!Since, T!ThrottleAssumption
      <3>3. T!Content.last[k] # None => T!Content.last[k] \in Nat /\ ~(tclock - T!Content.last[k] <= Window)
        BY <1>2, <1>3, <2>3, ContentFile, ThrottleNumbers DEF T!Throttled
      <3>4. tclock - acted[k] <= Window
        BY <2>3 DEF T!Since
      <3>5. T!Content.start > acted[k]
        BY <2>3, <3>1, <3>2, <3>3, <3>4 DEF Recalls
      <3>6. planned'[h].start = T!Content.start
        BY <2>3, CheckPlans DEF T!TypeOK
      <3>. QED  BY <2>3, <3>5, <3>6 DEF k
    <2>. QED  BY <2>2, <2>3 DEF k
  <1>. QED  BY <1>4, <1>5

LEMMA HonestStep ==
  ASSUME T!TypeOK, ThrottleInv, [T!Next]_tvars
  PROVE  T!Honest
  <1>1. ASSUME NEW h \in Throttler, tat[h] = "idle", tat'[h] # "idle"
        PROVE  T!Check(h)
    <2>1. CASE T!Tick \/ UNCHANGED tvars
      BY <1>1, <2>1 DEF T!Tick, tvars
    <2>2. ASSUME NEW g \in Throttler, g # h,
                 \/ T!Check(g) \/ T!Act(g) \/ T!Prompt(g) \/ T!LoadPrompts(g) \/ T!SendFails(g) \/ T!Sent(g)
                 \/ T!Open(g) \/ T!Fill(g) \/ T!Fail(g) \/ T!Kill(g)
          PROVE  FALSE
      <3>1. \E l : tat' = [tat EXCEPT ![g] = l]
        <4>1. CASE T!Check(g) \/ T!Act(g) \/ T!Prompt(g) \/ T!LoadPrompts(g)
          BY <4>1, Zenon DEF T!Goto, T!Check, T!Act, T!Prompt, T!LoadPrompts
        <4>2. CASE T!SendFails(g) \/ T!Sent(g) \/ T!Open(g)
          BY <4>2, Zenon DEF T!Goto, T!SendFails, T!Sent, T!Open
        <4>3. CASE T!Fill(g) \/ T!Fail(g) \/ T!Kill(g)
          BY <4>3, Zenon DEF T!Goto, T!Fill, T!Fail, T!Kill
        <4>. QED  BY <2>2, <4>1, <4>2, <4>3
      <3>2. tat'[h] = tat[h]
        BY <2>2, <3>1 DEF T!TypeOK
      <3>. QED  BY <1>1, <3>2
    <2>3. \/ T!Check(h)
          \/ ~(T!Act(h) \/ T!Prompt(h) \/ T!LoadPrompts(h) \/ T!SendFails(h) \/ T!Sent(h)
               \/ T!Open(h) \/ T!Fill(h) \/ T!Fail(h) \/ T!Kill(h))
      <3>1. tat[h] \notin {"act", "load", "open", "fill"} /\ ~T!Active(h)
        BY <1>1 DEF T!Active
      <3>. QED  BY <3>1 DEF T!Act, T!Prompt, T!LoadPrompts, T!SendFails, T!Sent, T!Open, T!Fill, T!Fail, T!Kill
    <2>. QED  BY <2>1, <2>2, <2>3, Zenon DEF T!Next
  <1>2. PastInv /\ StampInv
    BY DEF ThrottleInv
  <1>3. ASSUME NEW h \in Throttler, tat[h] = "idle", tat'[h] # "idle", go'[h]
        PROVE  \/ ~T!Since(acted[key[h]]) \/ disturbed'
               \/ kind = "count" /\ planned'[h].start > acted[key[h]]
    BY <1>1, <1>3, LateEnough
  <1>4. ASSUME NEW h \in Throttler, tat[h] = "idle", tat'[h] # "idle", ~go'[h]
        PROVE  \/ T!Since(stamped[key[h]])
               \/ kind = "count" /\ planned'[h].edits < Threshold
    BY <1>1, <1>2, <1>4, HeldBack
  <1>. QED  BY <1>3, <1>4, Zenon DEF T!Honest

\* A hook that begins does not act within the Window of another, unless they
\* overlap, a write failed, a hook was killed where it matters or the count has
\* begun anew; and it is held back only for what was stamped within the Window
\* (recentlyTouched, debounced, decide, recentlyPrompted, isThrottled).
THEOREM ThrottlesAreHonest == MCSpec => ThrottleIsHonest
  <1>. DEFINE Inv == side = "throttle" => T!TypeOK /\ ThrottleInv
              Act == side = "throttle" => T!TypeOK' /\ T!Honest
  <1>1. MCInit => Inv
    BY ThrottleInits, Zenon DEF MCInit
  <1>2. Inv /\ [MCNext]_MCvars => Inv'
    BY OneSide, ThrottleStep, Zenon
  <1>3. Inv /\ [MCNext]_MCvars => [Act]_<<side, tvars>>
    BY OneSide, ThrottleStep, HonestStep, Zenon
  <1>. QED  BY <1>1, <1>2, <1>3, PTL DEF MCSpec, ThrottleIsHonest
=============================================================================
