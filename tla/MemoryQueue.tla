----------------------------- MODULE MemoryQueue -----------------------------
(* The queue of captured conversations (.codex/hooks/memory-graph-queue.cjs,  *)
(* lib/memory-graph-queue-lib.cjs): the hook at the end of a turn writes the  *)
(* transcript to a temporary file and links it under the session's name,      *)
(* once; the hook at the start of a session counts the captures newer than    *)
(* the graph (memory-graph-nudge.cjs).  The extraction that folds them into   *)
(* the graph is no part of the repository.                                    *)
EXTENDS Integers

CONSTANTS
  Stop, Session, Home,  \* the hooks, the sessions, and the session of each hook
  MinTurns, MaxTurns, Length, MaxClock, None

VARIABLES
  clock,     \* the time; files may be written at the same
  turns,     \* how long each transcript is
  tmp,       \* of each hook: its temporary file, see File
  queue,     \* of each session: its capture, likewise
  at, text,  \* of each hook: where it is, what it captured
  graph,     \* the time of graph.json
  scanned,   \* the captures the extraction under way has read, or None
  folded,    \* the captures in the graph
  first,     \* of each session: the capture that was linked first
  late       \* the captures an extraction may have passed by

vars == <<clock, turns, tmp, queue, at, text, graph, scanned, folded, first, late>>

\* A capture: the turns it holds.  A file: a capture, is it whole, of when.
Capture == [from : 1..Length, to : 1..Length]
File == [text : Capture, whole : BOOLEAN, mtime : 0..MaxClock]

\* A session that is captured has a turn, and so has what is kept of it.
QueueAssumption ==
  /\ MinTurns \in Nat \ {0} /\ MaxTurns \in Nat \ {0}
  /\ Length \in Nat /\ MaxClock \in Nat /\ Home \in [Stop -> Session]
  /\ None \notin Capture /\ None \notin File

TypeOK ==
  /\ clock \in 0..MaxClock /\ turns \in [Session -> 0..Length]
  /\ tmp \in [Stop -> File \cup {None}] /\ queue \in [Session -> File \cup {None}]
  /\ at \in [Stop -> {"idle", "open", "write", "link", "unlink", "end"}]
  /\ text \in [Stop -> Capture \cup {None}]
  /\ graph \in 0..MaxClock \cup {None}
  /\ scanned \in (SUBSET Session) \cup {None} /\ folded \subseteq Session
  /\ first \in [Session -> Capture \cup {None}] /\ late \subseteq Session

Init ==
  /\ clock = 0 /\ turns = [s \in Session |-> 0]
  /\ tmp = [h \in Stop |-> None] /\ queue = [s \in Session |-> None]
  /\ at = [h \in Stop |-> "idle"] /\ text = [h \in Stop |-> None]
  /\ graph = None /\ scanned = None /\ folded = {}
  /\ first = [s \in Session |-> None] /\ late = {}

Goto(h, l) == at' = [at EXCEPT ![h] = l]

\* A file is written, now or a little later.
Time == clock' \in {clock, clock + 1} \cap 0..MaxClock

\* The conversation goes on.
AddTurn(s) ==
  /\ turns[s] < Length /\ turns' = [turns EXCEPT ![s] = @ + 1]
  /\ UNCHANGED <<clock, tmp, queue, at, text, graph, scanned, folded, first, late>>

\* capTurns: the last MaxTurns.
Capped(n) == [from |-> IF n > MaxTurns THEN n - MaxTurns + 1 ELSE 1, to |-> n]

\* run, filterTranscript, passesHeuristic: too short a session is not captured.
Begin(h) ==
  /\ at[h] = "idle"
  /\ IF turns[Home[h]] < MinTurns THEN Goto(h, "end") /\ UNCHANGED text
     ELSE Goto(h, "open") /\ text' = [text EXCEPT ![h] = Capped(turns[Home[h]])]
  /\ UNCHANGED <<clock, turns, tmp, queue, graph, scanned, folded, first, late>>

\* writeFileSync creates the temporary file, of a name nobody else uses ...
Open(h) ==
  /\ at[h] = "open" /\ Goto(h, "write") /\ Time
  /\ tmp' = [tmp EXCEPT ![h] = [text |-> text[h], whole |-> FALSE, mtime |-> clock']]
  /\ UNCHANGED <<turns, queue, text, graph, scanned, folded, first, late>>

\* ... and fills it.
Write(h) ==
  /\ at[h] = "write" /\ Goto(h, "link") /\ Time
  /\ tmp' = [tmp EXCEPT ![h].whole = TRUE, ![h].mtime = clock']
  /\ UNCHANGED <<turns, queue, text, graph, scanned, folded, first, late>>

\* A version that renames the file.
LinkedOver(s, f) == f
\* linkSync fails if the name is taken.
Linked(s, f) == IF queue[s] = None THEN f ELSE queue[s]

\* A file that is linked during an extraction, or was not written after the graph.
IsLate(f) == scanned # None \/ (graph # None /\ f.mtime <= graph)

Link(h) ==
  LET s == Home[h] IN
  /\ at[h] = "link" /\ Goto(h, "unlink")
  /\ queue' = [queue EXCEPT ![s] = Linked(s, tmp[h])]
  /\ first' = [first EXCEPT ![s] = IF @ = None THEN text[h] ELSE @]
  /\ late' = IF queue[s] = None /\ IsLate(tmp[h]) THEN late \cup {s} ELSE late
  /\ UNCHANGED <<clock, turns, tmp, text, graph, scanned, folded>>

\* linkSync fails otherwise: the capture is given up.
LinkFails(h) ==
  /\ at[h] = "link" /\ Goto(h, "unlink")
  /\ UNCHANGED <<clock, turns, tmp, queue, text, graph, scanned, folded, first, late>>

\* finally: the temporary name is removed, if that works.
Unlink(h) ==
  /\ at[h] = "unlink" /\ Goto(h, "end")
  /\ tmp' \in {tmp, [tmp EXCEPT ![h] = None]}
  /\ UNCHANGED <<clock, turns, queue, text, graph, scanned, folded, first, late>>

\* A write fails, which run swallows, or the hook is killed.
Fail(h) ==
  /\ at[h] \notin {"idle", "end"} /\ Goto(h, "end")
  /\ UNCHANGED <<clock, turns, tmp, queue, text, graph, scanned, folded, first, late>>

\* The extraction reads the captures ...
Scan ==
  /\ scanned = None /\ scanned' = {s \in Session : queue[s] # None}
  /\ UNCHANGED <<clock, turns, tmp, queue, at, text, graph, folded, first, late>>

\* ... and writes the graph, or is given up.
Extracted ==
  /\ scanned # None /\ scanned' = None
  /\ \/ /\ Time /\ graph' = clock'
        /\ folded' = folded \cup scanned
     \/ UNCHANGED <<clock, graph, folded>>
  /\ UNCHANGED <<turns, tmp, queue, at, text, first, late>>

\* countPending: the captures without a graph, or newer than it.
Pending == {s \in Session : queue[s] # None /\ (graph = None \/ queue[s].mtime > graph)}

Next ==
  \/ \E s \in Session : AddTurn(s)
  \/ \E h \in Stop : Begin(h) \/ Open(h) \/ Write(h) \/ Link(h) \/ LinkFails(h) \/ Unlink(h) \/ Fail(h)
  \/ Scan \/ Extracted
Spec == Init /\ [][Next]_vars

\* However many hooks of a session race, fail or are killed, its capture is
\* whole and the first one linked, for good (writeQueueFile); and one the graph
\* has not is counted as pending, unless an extraction was under way between
\* its writing and its linking, or ended in the moment it was written, so that
\* the two have one time (countPending).
CapturesKept == \A s \in Session : first[s] # None =>
  /\ queue[s] # None /\ queue[s].whole /\ queue[s].text = first[s]
  /\ s \in Pending \cup folded \cup late
=============================================================================
