--------------------------- MODULE SessionSnapshot ---------------------------
(* The snapshot of a directory's coding session (.codex/hooks/                *)
(* session-state.cjs, lib/session-state-manager.cjs): the end of a subagent   *)
(* adds a section to latest.md, the end of a turn writes it anew, keeps the   *)
(* sections and copies it to an archive of bounded size.  Hooks read and      *)
(* replace the file without a lock.                                           *)
EXTENDS Naturals, FiniteSets, Functions

CONSTANTS Agent, Turn, MaxArchives, MaxTime, None

VARIABLES
  clock, latest,   \* latest.md: None, or when it was generated and its sections
  archive,         \* the archived snapshots, by their time
  at, view,        \* of each hook: where it is, what it read
  recorded,        \* the sections that were written
  overlapped       \* has a hook replaced the file between another's read and write?

vars == <<clock, latest, archive, at, view, recorded, overlapped>>

Hooks == Agent \cup Turn
Snapshot == [generated : 0..MaxTime, sections : SUBSET Agent]

\* Times are numbers, and no file is one that is missing.
SnapshotAssumption == MaxTime \in Nat /\ None \notin Snapshot

TypeOK ==
  /\ clock \in 0..MaxTime /\ latest \in Snapshot \cup {None}
  /\ DOMAIN archive \subseteq 0..MaxTime /\ Range(archive) \subseteq Snapshot
  /\ at \in [Hooks -> {"idle", "write", "copy", "prune", "end"}]
  /\ view \in [Hooks -> Snapshot \cup {None}]
  /\ recorded \subseteq Agent /\ overlapped \in BOOLEAN

Init ==
  /\ clock = 0 /\ latest = None /\ archive = << >>
  /\ at = [h \in Hooks |-> "idle"] /\ view = [h \in Hooks |-> None]
  /\ recorded = {} /\ overlapped = FALSE

Goto(h, l) == at' = [at EXCEPT ![h] = l]

\* persistState reads what is there.
Read(h) ==
  /\ at[h] = "idle" /\ Goto(h, "write") /\ view' = [view EXCEPT ![h] = latest]
  /\ UNCHANGED <<clock, latest, archive, recorded, overlapped>>

\* writeAtomic: the file is replaced, by rename.
Replace(h, s) ==
  /\ latest' = s /\ overlapped' = (overlapped \/ latest # view[h])
  /\ view' = [view EXCEPT ![h] = None]

\* A version that begins with none.
SectionsDropped(s) == {}
\* extractAgentSections
Sections(s) == IF s = None THEN {} ELSE s.sections

\* SubagentStop: the section is added to what was read, else to a new snapshot.
WriteSection(a) ==
  /\ a \in Agent /\ at[a] = "write" /\ Goto(a, "end")
  /\ Replace(a, [generated |-> IF view[a] = None THEN clock ELSE view[a].generated,
                 sections |-> (IF view[a] = None THEN {} ELSE view[a].sections) \cup {a}])
  /\ recorded' = recorded \cup {a} /\ UNCHANGED <<clock, archive>>

\* Stop: a new snapshot with the sections of the old one.
WriteTurn(t) ==
  /\ t \in Turn /\ at[t] = "write" /\ Goto(t, "copy")
  /\ Replace(t, [generated |-> clock, sections |-> Sections(view[t])])
  /\ UNCHANGED <<clock, archive, recorded>>

\* archiveState copies the file under the current time, over one of that time ...
Copy(t) ==
  /\ at[t] = "copy" /\ Goto(t, "prune")
  /\ archive' = [c \in DOMAIN archive \cup {clock} |-> IF c = clock THEN latest ELSE archive[c]]
  /\ UNCHANGED <<clock, latest, view, recorded, overlapped>>

\* ... and removes the oldest.
Pruned(s) == {c \in s : Cardinality({d \in s : d > c}) < MaxArchives}
Prune(t) ==
  /\ at[t] = "prune" /\ Goto(t, "end") /\ archive' = Restrict(archive, Pruned(DOMAIN archive))
  /\ UNCHANGED <<clock, latest, view, recorded, overlapped>>

\* A step fails, which persistState swallows; or the hook is killed.
Fail(h) ==
  /\ at[h] \notin {"idle", "end"} /\ Goto(h, "end") /\ view' = [view EXCEPT ![h] = None]
  /\ UNCHANGED <<clock, latest, archive, recorded, overlapped>>

Tick ==
  /\ clock < MaxTime /\ clock' = clock + 1
  /\ UNCHANGED <<latest, archive, at, view, recorded, overlapped>>

Next ==
  \/ \E h \in Hooks : Read(h) \/ WriteSection(h) \/ WriteTurn(h) \/ Fail(h)
  \/ \E t \in Turn : Copy(t) \/ Prune(t)
  \/ Tick
Spec == Init /\ [][Next]_vars

\* Unless hooks overlapped, the snapshot has every section that was recorded,
\* whatever failed in between (persistState).
SectionsKept == overlapped \/ latest = None \/ recorded = latest.sections

=============================================================================
