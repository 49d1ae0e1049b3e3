------------------------------ MODULE Telemetry ------------------------------
(* The telemetry of one session (.codex/hooks/telemetry.cjs): hooks append    *)
(* events to the session's buffer; the hook at the end of a turn reads the    *)
(* buffer, deletes it and posts what it read, whether or not that arrives;    *)
(* and hooks of other sessions delete a buffer nobody wrote for long.  Every   *)
(* file operation may fail, and nobody is told.                               *)
EXTENDS Integers, SequencesExt

CONSTANTS
  Event,                  \* one hook process for each event
  Stop, Sweeper,          \* the hooks at the end of a turn, and of other sessions
  MaxEvents, OrphanAge, MaxTime, None

VARIABLES
  clock, buffer,   \* the whole events in the file, or None
  cut,             \* is the last line of the file unfinished?
  mtime,
  at,              \* of each hook: where it is
  opened,          \* the events whose hook has the present file open
  read,            \* of each Stop: the events it holds
  received,        \* of each event: how often the service got it
  written,         \* of each event: when it was appended
  lost,            \* the events that may be lost, by what the code accepts
  left,            \* the events a Stop has read and could not delete
  overlapped       \* have two Stops read one buffer?

vars == <<clock, buffer, cut, mtime, at, opened, read, received, written, lost, left, overlapped>>

Hooks == Event \cup Stop \cup Sweeper

\* The hooks are finitely many, and None is neither a buffer nor a time.
TelemetryAssumption ==
  /\ MaxEvents \in Nat /\ OrphanAge \in Nat /\ MaxTime \in Nat /\ IsFiniteSet(Stop)
  /\ None \notin Seq(Event) /\ None \notin 0..MaxTime

TypeOK ==
  /\ clock \in 0..MaxTime /\ mtime \in 0..MaxTime
  /\ buffer \in Seq(Event) \cup {None}
  /\ at \in [Hooks -> {"idle", "write", "delete", "post", "unlink", "end"}]
  /\ opened \subseteq Event /\ lost \subseteq Event /\ left \subseteq Event
  /\ overlapped \in BOOLEAN /\ cut \in BOOLEAN
  /\ read \in [Stop -> Seq(Event)] /\ received \in [Event -> Nat]
  /\ written \in [Event -> 0..MaxTime \cup {None}]

Init ==
  /\ clock = 0 /\ buffer = None /\ mtime = 0 /\ cut = FALSE /\ left = {}
  /\ at = [h \in Hooks |-> "idle"] /\ opened = {}
  /\ read = [s \in Stop |-> <<>>] /\ received = [e \in Event |-> 0]
  /\ written = [e \in Event |-> None] /\ lost = {} /\ overlapped = FALSE

Goto(h, l) == at' = [at EXCEPT ![h] = l]

\* Between a Stop's read and delete, or a sweep's look and unlink, the file may
\* go with whatever is added.
Racing == \E h \in Stop \cup Sweeper : at[h] \in {"delete", "unlink"}

\* appendFileSync opens the file, and creates it ...
Open(e) ==
  /\ at[e] = "idle" /\ Goto(e, "write") /\ opened' = opened \cup {e}
  /\ IF buffer = None THEN buffer' = <<>> /\ mtime' = clock ELSE UNCHANGED <<buffer, mtime>>
  /\ UNCHANGED <<clock, cut, read, received, written, lost, left, overlapped>>

\* ... and appends to it, even if the file has no name any more; what is
\* appended to an unfinished line is no event ...
Write(e) ==
  /\ at[e] = "write" /\ Goto(e, "end") /\ opened' = opened \ {e}
  /\ written' = [written EXCEPT ![e] = clock]
  /\ IF e \in opened
     THEN /\ buffer' = (IF cut THEN buffer ELSE Append(buffer, e))
          /\ mtime' = clock /\ cut' = FALSE
     ELSE UNCHANGED <<buffer, mtime, cut>>
  /\ lost' = IF e \notin opened \/ cut \/ Racing THEN lost \cup {e} ELSE lost
  /\ UNCHANGED <<clock, read, received, left, overlapped>>

\* ... or writes a part of the event.
WriteCut(e) ==
  /\ at[e] = "write" /\ Goto(e, "end") /\ opened' = opened \ {e}
  /\ IF e \in opened THEN cut' = TRUE /\ mtime' = clock ELSE UNCHANGED <<cut, mtime>>
  /\ UNCHANGED <<clock, buffer, read, received, written, lost, left, overlapped>>

\* capEvents: the oldest go first.
Capped(q) == IF Len(q) > MaxEvents THEN SubSeq(q, Len(q) - MaxEvents + 1, Len(q)) ELSE q
Events == IF buffer = None THEN <<>> ELSE buffer

\* handleStop: readBufferEvents, which gives nothing of a file it cannot read ...
Read(s) ==
  /\ at[s] = "idle" /\ Goto(s, "delete")
  /\ \E q \in {Capped(Events), <<>>} :
       /\ read' = [read EXCEPT ![s] = q]
       /\ lost' = lost \cup (ToSet(Events) \ ToSet(q))
  /\ overlapped' = (overlapped \/ \E t \in Stop : at[t] = "delete")
  /\ UNCHANGED <<clock, buffer, cut, mtime, opened, received, written, left>>

\* A version that keeps the buffer for the next Stop.
NotDeleted(f) == f
\* deleteBuffer
Deleted(f) == None

Unlinked == buffer' = Deleted(buffer) /\ opened' = {} /\ cut' = FALSE

\* ... deleteBuffer, which ignores a failed unlink; and nothing is posted
\* without an endpoint and a login ...
Delete(s) ==
  /\ at[s] = "delete"
  /\ \/ Unlinked /\ UNCHANGED left
     \/ left' = left \cup ToSet(read[s]) /\ UNCHANGED <<buffer, opened, cut>>
  /\ \/ Goto(s, "post") /\ UNCHANGED lost
     \/ Goto(s, "end") /\ lost' = lost \cup (ToSet(read[s]) \ ToSet(Events'))
  /\ UNCHANGED <<clock, mtime, read, received, written, overlapped>>

\* ... post: the service gets the events, or not, whatever the hook is told.
Post(s) ==
  /\ at[s] = "post" /\ Goto(s, "end")
  /\ \/ /\ received' = [e \in Event |-> received[e] + IF e \in ToSet(read[s]) THEN 1 ELSE 0]
        /\ UNCHANGED lost
     \/ lost' = lost \cup ToSet(read[s]) /\ UNCHANGED received
  /\ UNCHANGED <<clock, buffer, cut, mtime, opened, read, written, left, overlapped>>

\* handleSessionStart: the age of the buffer ...
Old == clock - mtime > OrphanAge
Look(w) ==
  /\ at[w] = "idle" /\ Goto(w, IF buffer # None /\ Old THEN "unlink" ELSE "end")
  /\ UNCHANGED <<clock, buffer, cut, mtime, opened, read, received, written, lost, left, overlapped>>

\* ... and its end, with the events that old; a file that cannot be read or
\* deleted is skipped (Kill does the same).
Sweep(w) ==
  /\ at[w] = "unlink" /\ Goto(w, "end") /\ Unlinked
  /\ lost' = lost \cup {e \in ToSet(Events) : clock - written[e] > OrphanAge}
  /\ UNCHANGED <<clock, mtime, read, received, written, left, overlapped>>

\* The hook is killed, after two seconds for instance, or an append fails and
\* leaves nothing.
Kill(h) ==
  /\ at[h] \notin {"idle", "end"} /\ Goto(h, "end") /\ opened' = opened \ {h}
  /\ lost' = IF h \in Stop THEN lost \cup (ToSet(read[h]) \ ToSet(Events)) ELSE lost
  /\ UNCHANGED <<clock, buffer, cut, mtime, read, received, written, left, overlapped>>

Tick ==
  /\ clock < MaxTime /\ clock' = clock + 1
  /\ UNCHANGED <<buffer, cut, mtime, at, opened, read, received, written, lost, left, overlapped>>

Next ==
  \/ \E e \in Event : Open(e) \/ Write(e) \/ WriteCut(e)
  \/ \E s \in Stop : Read(s) \/ Delete(s) \/ Post(s)
  \/ \E w \in Sweeper : Look(w) \/ Sweep(w)
  \/ \E h \in Hooks : Kill(h)
  \/ Tick
Spec == Init /\ [][Next]_vars

\* Where an event is: in the buffer, with a Stop that has deleted it, or at the
\* service, where it counts as often as it came.
Places(e) ==
  Cardinality({s \in Stop : at[s] = "post" /\ e \in ToSet(read[s])})
    + received[e] + IF e \in ToSet(Events) THEN 1 ELSE 0

\* Every event that was appended is posted at most once and is not lost, but for
\* these.  Lost may be what was appended beside a deletion or to an unfinished
\* line, was in a buffer that could not be read, was dropped by the cap, was older
\* than OrphanAge when it was swept, or whose Stop was killed or did not post.
\* Posted again may be what a Stop read and could not delete, and anything once
\* Stops have overlapped (handleStop, handleSessionStart).
EventsKept == \A e \in Event : written[e] # None =>
  /\ e \in lost \/ Places(e) >= 1
  /\ overlapped \/ e \in left \/ Places(e) <= 1
==============================================================================
