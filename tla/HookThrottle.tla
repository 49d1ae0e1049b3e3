----------------------------- MODULE HookThrottle -----------------------------
(* The files by which hooks of all sessions hold themselves back: what was    *)
(* done less than a Window ago is not done again.  They look alike and are    *)
(* kept in five ways:                                                         *)
(*   marker  a touched file; touched, then done (graph-reindex-sync.cjs,      *)
(*           memory-graph-nudge.cjs, lib/graphify-cli.cjs)                    *)
(*   stamp   a written time; written, then done (guardrail-realtime.cjs)      *)
(*   count   the edits and the last reminder; written, then done              *)
(*           (post-edit-simplify-reminder.cjs)                                *)
(*   prompt  a time for every login; done, then renamed into place            *)
(*           (telemetry.cjs, lib/rate-throttle.cjs)                           *)
(*   error   a time for every provider that failed; done, then written or     *)
(*           cleared (notifications/lib/sender.cjs)                           *)
EXTENDS Integers

CONSTANTS Hook, Key, Window, Threshold, Stale, MaxTime, None

VARIABLES
  kind, clock,
  file, mtime,     \* None, or see File
  at, key, began,  \* of each hook: where it is, what it is about, when it began
  go,              \* has it decided to act?
  planned,         \* what it writes
  acted,           \* of each key: when the last hook that acted had begun
  stamped,         \* of each key: the latest time stamped
  disturbed        \* overlap, failed write, or a kill where it matters

vars == <<kind, clock, file, mtime, at, key, began, go, planned, acted, stamped, disturbed>>

Time == 0..MaxTime
\* A file: can it be parsed, the times it holds, the edits counted since start.
File == [whole : BOOLEAN, last : [Key -> Time \cup {None}], edits : 0..Threshold, start : Time]
Blank == [whole |-> TRUE, last |-> [k \in Key |-> None], edits |-> 0,
          start |-> IF kind = "count" THEN clock ELSE 0]
ActsFirst == {"prompt", "error"}

TypeOK ==
  /\ kind \in {"marker", "stamp", "count", "prompt", "error"} /\ clock \in Time
  /\ file \in File \cup {None} /\ mtime \in Time
  /\ at \in [Hook -> {"idle", "act", "load", "open", "fill", "end"}]
  /\ key \in [Hook -> Key] /\ began \in [Hook -> Time] /\ go \in [Hook -> BOOLEAN]
  /\ planned \in [Hook -> File] /\ disturbed \in BOOLEAN
  /\ acted \in [Key -> Time \cup {None}] /\ stamped \in [Key -> Time \cup {None}]

\* None is neither a time nor a file, and there is something to be about.
ThrottleAssumption ==
  /\ MaxTime \in Nat /\ Window \in Nat /\ Threshold \in Nat /\ Stale \in Nat
  /\ Key # {} /\ None \notin Time /\ None \notin File

\* The markers of different directories, and the one file of the two that have
\* no keys, are files of their own: only the maps need several keys.
Init ==
  /\ clock = 0 /\ file = None /\ mtime = 0
  /\ at = [h \in Hook |-> "idle"] /\ began = [h \in Hook |-> 0]
  /\ key \in (IF kind \in ActsFirst THEN [Hook -> Key] ELSE {[h \in Hook |-> CHOOSE k \in Key : TRUE]})
  /\ go = [h \in Hook |-> FALSE] /\ planned = [h \in Hook |-> Blank]
  /\ acted = [k \in Key |-> None] /\ stamped = acted /\ disturbed = FALSE

Life == IF kind = "count" THEN Stale ELSE MaxTime
Goto(h, l) == at' = [at EXCEPT ![h] = l]
Active(h) == at[h] \notin {"idle", "end"}

\* loadSessionData, readThrottleState, loadThrottleState, debounced: what cannot
\* be read or parsed is empty, and so is a count that is too old.
Content == IF file # None /\ file.whole /\ clock - file.start <= Life THEN file ELSE Blank

\* A version that holds back for one moment more.
WithinToTheEnd(t) == clock - t <= Window
\* recentlyTouched, debounced, recentlyPrompted, isThrottled
Within(t) == clock - t < Window

Throttled(k) ==
  CASE kind = "marker" -> file # None /\ Within(mtime)
    [] kind = "count" -> Content.last[k] # None /\ clock - Content.last[k] <= Window
    [] OTHER -> Content.last[k] # None /\ Within(Content.last[k])

\* run, main, maybeEmitRatingPrompt, send begin, and decide.
Check(h) ==
  LET k == key[h]
      edits == IF Content.edits < Threshold THEN Content.edits + 1 ELSE Threshold
      due == ~Throttled(k) /\ (kind = "count" => edits >= Threshold)
  IN
  /\ at[h] = "idle" /\ began' = [began EXCEPT ![h] = clock] /\ go' = [go EXCEPT ![h] = due]
  /\ Goto(h, IF kind = "count" THEN "open" ELSE IF ~due THEN "end"
             ELSE IF kind \in ActsFirst THEN "act" ELSE "open")
  /\ planned' = IF kind # "count" THEN planned
                ELSE [planned EXCEPT ![h] = [Content EXCEPT !.edits = edits, !.last[k] = IF due THEN clock ELSE @]]
  /\ disturbed' = (disturbed \/ \E o \in Hook : Active(o))
  /\ UNCHANGED <<kind, clock, file, mtime, key, acted, stamped>>

Acted(h) == acted' = [acted EXCEPT ![key[h]] = began[h]]

\* The hook acts: it spawns, nudges, checks, reminds ...
Act(h) ==
  /\ at[h] = "act" /\ kind \notin ActsFirst /\ Goto(h, "end")
  /\ IF go[h] THEN Acted(h) ELSE UNCHANGED acted
  /\ UNCHANGED <<kind, clock, file, mtime, key, began, go, planned, stamped, disturbed>>

\* ... prompts, if the dice say so (shouldSampleRating) ...
Prompt(h) ==
  /\ at[h] = "act" /\ kind = "prompt"
  /\ \/ Goto(h, "load") /\ Acted(h)
     \/ Goto(h, "end") /\ UNCHANGED acted
  /\ UNCHANGED <<kind, clock, file, mtime, key, began, go, planned, stamped, disturbed>>

\* ... and persistLastShown reads the map again, and sets the time of Check.
LoadPrompts(h) ==
  /\ at[h] = "load" /\ kind = "prompt" /\ Goto(h, "open")
  /\ planned' = [planned EXCEPT ![h] = [Content EXCEPT !.last[key[h]] = began[h]]]
  /\ UNCHANGED <<kind, clock, file, mtime, key, began, go, acted, stamped, disturbed>>

\* ... or sends; recordError, if that fails ...
SendFails(h) ==
  /\ at[h] = "act" /\ kind = "error" /\ Goto(h, "open") /\ Acted(h)
  /\ planned' = [planned EXCEPT ![h] = [Content EXCEPT !.last[key[h]] = clock]]
  /\ UNCHANGED <<kind, clock, file, mtime, key, began, go, stamped, disturbed>>

\* ... and clearThrottle, if not.
Sent(h) ==
  /\ at[h] = "act" /\ kind = "error"
  /\ IF Content.last[key[h]] = None THEN Goto(h, "end") /\ UNCHANGED planned
     ELSE /\ Goto(h, "open")
          /\ planned' = [planned EXCEPT ![h] = [Content EXCEPT !.last[key[h]] = None]]
  /\ UNCHANGED <<kind, clock, file, mtime, key, began, go, acted, stamped, disturbed>>

\* writeFileSync empties the file, or rename replaces it ...
Open(h) ==
  LET new == IF kind = "stamp" THEN [Blank EXCEPT !.last[key[h]] = clock] ELSE planned[h]
      t == IF kind = "marker" THEN clock ELSE new.last[key[h]]
      newer == t # None /\ (stamped[key[h]] = None \/ t > stamped[key[h]])
  IN
  /\ at[h] = "open" /\ mtime' = clock /\ planned' = [planned EXCEPT ![h] = new]
  /\ stamped' = IF newer THEN [stamped EXCEPT ![key[h]] = t] ELSE stamped
  /\ IF kind = "prompt" THEN file' = new /\ Goto(h, "end")
     ELSE file' = [new EXCEPT !.whole = FALSE] /\ Goto(h, "fill")
  /\ UNCHANGED <<kind, clock, key, began, go, acted, disturbed>>

\* ... and writes it; two writers may spoil it.
Fill(h) ==
  LET others == \E o \in Hook \ {h} : at[o] = "fill" IN
  /\ at[h] = "fill" /\ Goto(h, IF kind = "error" THEN "end" ELSE "act")
  /\ \E w \in {TRUE} \cup {~others} : file' = [planned[h] EXCEPT !.whole = w]
  /\ mtime' = clock
  /\ stamped' = IF kind = "marker" THEN [stamped EXCEPT ![key[h]] = clock] ELSE stamped
  /\ UNCHANGED <<kind, clock, key, began, go, planned, acted, disturbed>>

\* The file cannot be emptied, or not be filled, which every hook swallows.
Fail(h) ==
  /\ at[h] \in {"open", "fill"} /\ Goto(h, IF kind \in ActsFirst THEN "end" ELSE "act")
  /\ disturbed' = TRUE
  /\ UNCHANGED <<kind, clock, file, mtime, key, began, go, planned, acted, stamped>>

\* The hook is killed.  Only a hook that acts first, or that keeps an old time
\* in the file it has emptied, can thereby let another act too early.
Matters(h) ==
  \/ kind \in ActsFirst /\ at[h] # "act"
  \/ kind = "count" /\ at[h] = "fill"

Kill(h) ==
  /\ Active(h) /\ Goto(h, "end") /\ disturbed' = (disturbed \/ Matters(h))
  /\ UNCHANGED <<kind, clock, file, mtime, key, began, go, planned, acted, stamped>>

Tick ==
  /\ clock < MaxTime /\ clock' = clock + 1
  /\ UNCHANGED <<kind, file, mtime, at, key, began, go, planned, acted, stamped, disturbed>>

Next ==
  \/ \E h \in Hook : \/ Check(h) \/ Act(h) \/ Prompt(h) \/ LoadPrompts(h) \/ SendFails(h) \/ Sent(h)
                     \/ Open(h) \/ Fill(h) \/ Fail(h) \/ Kill(h)
  \/ Tick
Spec == Init /\ [][Next]_vars

Since(t) == t # None /\ IF kind = "count" THEN clock - t <= Window ELSE clock - t < Window

Honest == \A h \in Hook : at[h] = "idle" /\ at'[h] # "idle" =>
  IF go'[h]
  THEN \/ ~Since(acted[key[h]]) \/ disturbed'
       \/ kind = "count" /\ planned'[h].start > acted[key[h]]
  ELSE \/ Since(stamped[key[h]])
       \/ kind = "count" /\ planned'[h].edits < Threshold

\* A hook that begins does not act within the Window of another, unless they
\* overlap, a write failed, a hook was killed where it matters or the count has
\* begun anew; and it is held back only for what was stamped within the Window,
\* whatever happened: nobody is silenced by a torn file, a lost update or
\* another's key.
ThrottleIsHonest == [][Honest]_vars
===============================================================================
