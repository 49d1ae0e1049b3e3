------------------------------- MODULE HookLog -------------------------------
(* The log all hooks append to (.codex/hooks/lib/hook-logger.cjs): a lock     *)
(* file guards the append and the rotation, and a hook that waits too long    *)
(* appends without it.  Nobody ever removes the lock of a hook that was       *)
(* killed.  A write can fail, or its hook be killed, half-way.                *)
EXTENDS Naturals, Sequences, SequencesExt

CONSTANTS Entry, MaxLines, TruncateTo, None,  \* one process for every entry
          Broken                              \* a line that holds no whole entry

\* A rotation makes the log shorter, but keeps something (MAX_LINES, TRUNCATE_TO).
LogAssumption ==
  /\ MaxLines \in Nat /\ TruncateTo \in Nat \ {0} /\ TruncateTo < MaxLines
  /\ None \notin Entry /\ Broken \notin Entry

Line == Entry \cup {Broken}

VARIABLES
  log,
  cut,      \* is the last line of the log unfinished?
  lock,
  at,       \* of each process: where it is
  tail,     \* what the rotation read and still has to write
  all,      \* every line appended since the last rotation that was cut short,
            \* after what that one left
  unlocked, \* did someone append without the lock?
  skipped   \* how many rotations failed since the log was last emptied

vars == <<log, cut, lock, at, tail, all, unlocked, skipped>>

TypeOK ==
  /\ log \in Seq(Line) /\ all \in Seq(Line) /\ tail \in [Entry -> Seq(Line)]
  /\ lock \in Entry \cup {None} /\ unlocked \in BOOLEAN /\ cut \in BOOLEAN /\ skipped \in Nat
  /\ at \in [Entry -> {"wait", "append", "read", "truncate", "fill", "unlock", "end"}]

Init ==
  /\ log = <<>> /\ all = <<>> /\ lock = None /\ unlocked = FALSE /\ cut = FALSE /\ skipped = 0
  /\ at = [e \in Entry |-> "wait"] /\ tail = [e \in Entry |-> <<>>]

Goto(e, l) == at' = [at EXCEPT ![e] = l]

\* withLogLock: openSync(LOCK_FILE, "wx")
Lock(e) ==
  /\ at[e] = "wait" /\ lock = None /\ lock' = e /\ Goto(e, "append")
  /\ UNCHANGED <<log, cut, tail, all, unlocked, skipped>>

\* What is appended to an unfinished line is part of that line.
WithLine(s, l) == IF cut THEN s ELSE Append(s, l)
Appended(e) == log' = WithLine(log, e) /\ all' = WithLine(all, e) /\ cut' = FALSE
Halved == log' = WithLine(log, Broken) /\ all' = WithLine(all, Broken) /\ cut' = TRUE
Nothing == UNCHANGED <<log, cut, all>>

\* The wait is over: logHook appends without the lock, or fails, silently.
AppendUnlocked(e) ==
  /\ at[e] = "wait" /\ lock # None /\ Goto(e, "end")
  /\ \/ (Appended(e) \/ Halved) /\ unlocked' = TRUE
     \/ Nothing /\ UNCHANGED unlocked
  /\ UNCHANGED <<lock, tail, skipped>>

\* appendFileSync under the lock; if it throws, so does withLogLock.
AppendLocked(e) ==
  /\ at[e] = "append"
  /\ \/ Appended(e) /\ Goto(e, "read")
     \/ (Halved \/ Nothing) /\ Goto(e, "unlock")
  /\ UNCHANGED <<lock, tail, unlocked, skipped>>

\* A version that keeps the first lines.
TruncatedHead(s) == SubSeq(s, 1, TruncateTo)
\* The last TruncateTo lines.
Truncated(s) == SubSeq(s, Len(s) - TruncateTo + 1, Len(s))

\* A rotation that fails before it wrote is over, silently.
Skip(e) == Goto(e, "unlock") /\ skipped' = skipped + 1 /\ UNCHANGED <<log, cut>>

\* rotateIfNeeded reads the log ...
ReadLog(e) ==
  /\ at[e] = "read"
  /\ IF Len(log) >= MaxLines
     THEN \/ /\ Goto(e, "truncate") /\ tail' = [tail EXCEPT ![e] = Truncated(log)]
             /\ UNCHANGED <<log, cut, skipped>>
          \/ Skip(e) /\ UNCHANGED tail
     ELSE Goto(e, "unlock") /\ UNCHANGED <<log, cut, tail, skipped>>
  /\ UNCHANGED <<lock, all, unlocked>>

\* ... and writes it anew: writeFileSync opens it, which empties it ...
Truncate(e) ==
  /\ at[e] = "truncate"
  /\ \/ Goto(e, "fill") /\ log' = <<>> /\ cut' = FALSE /\ skipped' = 0 /\ UNCHANGED tail
     \/ Skip(e) /\ tail' = [tail EXCEPT ![e] = <<>>]
  /\ UNCHANGED <<lock, all, unlocked>>

\* The lines q are written from the start, over what was appended meanwhile.
Filled(q, c) ==
  LET rest == SubSeq(log, Len(q) + 1, Len(log))
  IN  log' = q \o rest /\ cut' = IF rest = <<>> THEN c ELSE cut

\* The write ends after some lines, perhaps with half of one.
CutShort(e) ==
  /\ \E n \in 0..(Len(tail[e]) - 1), c \in BOOLEAN :
       LET q == SubSeq(tail[e], 1, n) IN Filled(IF c THEN Append(q, Broken) ELSE q, c)
  /\ all' = log'

\* ... and fills it; a failure is silent, whatever has been written.
Fill(e) ==
  /\ at[e] = "fill" /\ Goto(e, "unlock") /\ tail' = [tail EXCEPT ![e] = <<>>]
  /\ \/ Filled(tail[e], FALSE) /\ UNCHANGED all
     \/ CutShort(e)
  /\ UNCHANGED <<lock, unlocked, skipped>>

Unlock(e) ==
  /\ at[e] = "unlock" /\ lock' = None /\ Goto(e, "end")
  /\ UNCHANGED <<log, cut, tail, all, unlocked, skipped>>

\* The hook is killed, in the midst of a write perhaps; its lock stays.
Kill(e) ==
  /\ at[e] \notin {"wait", "end"} /\ Goto(e, "end") /\ tail' = [tail EXCEPT ![e] = <<>>]
  /\ \/ at[e] # "fill" /\ Nothing
     \/ at[e] = "append" /\ Halved
     \/ at[e] = "fill" /\ CutShort(e)
  /\ UNCHANGED <<lock, unlocked, skipped>>

Next == \E e \in Entry :
  \/ Lock(e) \/ AppendUnlocked(e) \/ AppendLocked(e) \/ ReadLog(e) \/ Truncate(e)
  \/ Fill(e) \/ Unlock(e) \/ Kill(e)
Spec == Init /\ [][Next]_vars

\* q ends with the newest lines, in order, with at least TruncateTo of them if
\* there are so many, and is no longer than failed rotations make it.
Recent(q) ==
  /\ IsSuffix(q, all)
  /\ Len(q) >= TruncateTo \/ q = all
  /\ Len(q) <= MaxLines + skipped

\* As long as nobody appended without the lock, the log, or what the rotation
\* that has emptied it is about to write, has the newest lines in order, and one
\* line more than MaxLines at most for each rotation in a row that failed: a
\* rotation that ends its write loses only old lines.  One that is killed or
\* fails in its write may lose all; the lines appended after what it left are
\* kept again (rotateIfNeeded).
LogIsRecent ==
  unlocked \/ /\ \A e \in Entry : at[e] = "fill" => Recent(tail[e])
              /\ (\A e \in Entry : at[e] # "fill") => Recent(log)
=============================================================================
