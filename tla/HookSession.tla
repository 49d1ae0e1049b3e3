----------------------------- MODULE HookSession -----------------------------
(* The session file that the hooks of one coding session share                *)
(* (.codex/hooks/lib/tkm-config-utils.cjs): every hook is a process of its    *)
(* own that reads, changes and replaces it under a lock file.  The hooks that *)
(* change it are the one that injects the development rules at most once in   *)
(* a while (dev-rules-reminder.cjs, lib/context-builder.cjs), the one of a    *)
(* session's start (session-init.cjs) and the milestone marker.               *)
EXTENDS Integers

CONSTANTS
  Hook, Scope,            \* hook processes; working directories
  Role,                   \* the roles a hook can have: [kind, scope]
  PendingTTL, RecentTTL,  \* how long a reservation and a delivery count, in ticks
  MaxTime,                \* bound on the clock
  Suspends,               \* can a live hook hold the lock till it looks stale?
  None

\* A delivery counts at least as long as a reservation
\* (RECENT_INJECTION_TTL_MS, PENDING_INJECTION_TTL_MS).
ASSUME HookAssumption ==
  /\ MaxTime \in Nat /\ PendingTTL \in Nat /\ RecentTTL \in Nat /\ PendingTTL <= RecentTTL
  /\ Role \subseteq [kind : {"prompt", "start", "milestone"}, scope : Scope]
  /\ None \notin 0..MaxTime /\ None \notin [owner : Hook, old : BOOLEAN]

VARIABLES
  now, file, lock,
  role, pc, step,  \* of each hook: what it is, where it is and in which update
  since,           \* when the update began: the deadline is the same tick
  found,           \* did the transcript show the rules already?
  wants, next, result, reserved,
  claimed, delivered, marked, milestone,  \* what happened, for the properties
  fault            \* a rule the properties lean on was broken, see Harm

vars == <<now, file, lock, role, pc, step, since, found, wants, next, result,
          reserved, claimed, delivered, marked, milestone, fault>>
update == <<wants, next, result>>
hooks == <<role, pc, step, since, found, update, reserved>>
history == <<claimed, delivered, marked, milestone>>

NoEntry == [state |-> "none", at |-> 0]
Entry == {NoEntry} \cup [state : {"pending", "recent"}, at : 0..MaxTime]
NoState == [milestone |-> FALSE, scopes |-> [s \in Scope |-> NoEntry]]
File == [milestone : BOOLEAN, scopes : [Scope -> Entry]]
Section == {"read", "write", "release"}
Ended == {"done", "dead"}

TypeOK ==
  /\ now \in 0..MaxTime /\ file \in File
  /\ lock \in [owner : Hook, old : BOOLEAN] \cup {None}
  /\ role \in [Hook -> Role]
  /\ pc \in [Hook -> {"idle", "open", "stat", "unlink", "deliver"} \cup Section \cup Ended]
  /\ step \in [Hook -> {"reserve", "mark", "clear", "start", "milestone"}]
  /\ since \in [Hook -> 0..MaxTime]
  /\ found \in [Hook -> BOOLEAN] /\ wants \in [Hook -> BOOLEAN]
  /\ next \in [Hook -> File] /\ result \in [Hook -> BOOLEAN] /\ reserved \in [Hook -> BOOLEAN]
  /\ claimed \in [Hook -> (0..MaxTime) \cup {None}] /\ delivered \subseteq Hook
  /\ marked \in [Hook -> (0..MaxTime) \cup {None}] /\ milestone \in BOOLEAN /\ fault \in BOOLEAN

FirstStep(k) == IF k = "prompt" THEN "reserve" ELSE k

Init ==
  /\ now = 0 /\ file = NoState /\ lock = None
  /\ role \in [Hook -> Role] /\ pc = [h \in Hook |-> "idle"]
  /\ step = [h \in Hook |-> FirstStep(role[h].kind)]
  /\ since = [h \in Hook |-> 0] /\ found = [h \in Hook |-> FALSE]
  /\ wants = [h \in Hook |-> FALSE]
  /\ next = [h \in Hook |-> NoState]
  /\ result = [h \in Hook |-> FALSE] /\ reserved = [h \in Hook |-> FALSE]
  /\ claimed = [h \in Hook |-> None] /\ delivered = {}
  /\ marked = [h \in Hook |-> None] /\ milestone = FALSE /\ fault = FALSE

Goto(h, l) == pc' = [pc EXCEPT ![h] = l]
Harm(b) == fault' = (fault \/ b)

\* withinRecentTTL, withinPendingTTL
Within(e, t) ==
  \/ e.state = "recent" /\ t - e.at < RecentTTL
  \/ e.state = "pending" /\ t - e.at < PendingTTL

\* A version that forgets the reservations.
EvictedPending(scopes, t) ==
  [s \in Scope |-> IF scopes[s].state = "recent" /\ Within(scopes[s], t) THEN scopes[s] ELSE NoEntry]
\* evictExpiredScopes
Evicted(scopes, t) == [s \in Scope |-> IF Within(scopes[s], t) THEN scopes[s] ELSE NoEntry]

\* The updater of reserveInjectionScope: nothing if the scope is taken, a
\* delivery if the transcript shows one, else a reservation.
Reserved(f, h) ==
  LET s == role[h].scope
      scopes == Evicted(f.scopes, since[h])
  IN IF scopes[s] # NoEntry THEN f
     ELSE [f EXCEPT !.scopes = [scopes EXCEPT ![s] =
             [state |-> IF found[h] THEN "recent" ELSE "pending", at |-> since[h]]]]

\* The updater of markRecentlyInjected.
Marked(f, h) ==
  [f EXCEPT !.scopes = [Evicted(f.scopes, now) EXCEPT ![role[h].scope] =
     [state |-> "recent", at |-> now]]]

\* The updater of clearPendingInjection, whoever made the reservation.
Cleared(f, h) ==
  LET s == role[h].scope
      scopes == Evicted(f.scopes, now)
  IN IF scopes[s].state = "pending"
     THEN [f EXCEPT !.scopes = [scopes EXCEPT ![s] = NoEntry]] ELSE f

\* A version that begins with an empty state.
StartedAfresh(f) == NoState
\* The updater of session-init: what the start of a session sets is not
\* modelled, all the rest is kept.
Started(f) == f

Updated(f, h) ==
  CASE step[h] = "reserve" -> Reserved(f, h)
    [] step[h] = "mark" -> Marked(f, h)
    [] step[h] = "clear" -> Cleared(f, h)
    [] step[h] = "start" -> Started(f)
    [] step[h] = "milestone" -> [f EXCEPT !.milestone = TRUE]

\* updateSessionState begins: _acquireLock sets its deadline.
Begin(h, u) ==
  /\ step' = [step EXCEPT ![h] = u] /\ since' = [since EXCEPT ![h] = now]
  /\ Goto(h, "open")

\* A hook starts; the transcript shows the rules if a hook delivered them, and
\* they are not too far back (transcriptHasMarker).
Start(h) ==
  /\ pc[h] = "idle" /\ Begin(h, step[h])
  /\ \E b \in BOOLEAN :
       /\ b => \E g \in delivered : role[g].scope = role[h].scope
       /\ found' = [found EXCEPT ![h] = b]
  /\ UNCHANGED <<now, file, lock, role, update, reserved, history, fault>>

\* The local variables of an update go out of scope.
Forget(h) ==
  /\ next' = [next EXCEPT ![h] = NoState]
  /\ wants' = [wants EXCEPT ![h] = FALSE] /\ result' = [result EXCEPT ![h] = FALSE]

\* What a hook does with the answer of updateSessionState.  Only
\* reserveInjectionScope has more to do: a hook delivers with a reservation, or
\* without one if the update failed and the transcript does not show the rules.
Return(h, ok) ==
  LET goes == IF ok THEN wants[h] ELSE ~found[h] IN
  /\ Forget(h)
  /\ IF step[h] = "reserve" /\ goes
     THEN Goto(h, "deliver") /\ reserved' = [reserved EXCEPT ![h] = ok]
     ELSE Goto(h, "done") /\ UNCHANGED reserved

\* openSync(.., "wx") succeeds.  After its deadline a hook does not try.
Open(h) ==
  /\ pc[h] = "open" /\ lock = None /\ now = since[h]
  /\ lock' = [owner |-> h, old |-> FALSE] /\ Goto(h, "read")
  /\ UNCHANGED <<now, file, role, step, since, found, update, reserved, history, fault>>

\* It fails with EEXIST.
Busy(h) ==
  /\ pc[h] = "open" /\ lock # None /\ now = since[h] /\ Goto(h, "stat")
  /\ UNCHANGED <<now, file, lock, role, step, since, found, update, reserved, history, fault>>

\* The deadline passed, or openSync failed for another reason; or the lock was
\* made and its first write failed, which leaves it behind.
GiveUp(h) ==
  /\ pc[h] = "open" /\ Return(h, FALSE)
  /\ lock' \in {lock} \cup {[owner |-> g, old |-> FALSE] : g \in IF lock = None THEN {h} ELSE {}}
  /\ UNCHANGED <<now, file, role, step, since, found, history, fault>>

\* _removeStaleLock: statSync tells an old lock ...
Stat(h) ==
  /\ pc[h] = "stat"
  /\ Goto(h, IF lock # None /\ lock.old THEN "unlink" ELSE "open")
  /\ UNCHANGED <<now, file, lock, role, step, since, found, update, reserved, history, fault>>

\* Does h remove the lock of another hook that is still at work?
Robs(h) == lock # None /\ lock.owner # h /\ pc[lock.owner] \in Section

\* ... and unlinkSync removes the lock that is there by then.
Unlink(h) ==
  /\ pc[h] = "unlink" /\ Goto(h, "open") /\ Harm(Robs(h)) /\ lock' = None
  /\ UNCHANGED <<now, file, role, step, since, found, update, reserved, history>>

\* readSessionState, and the updater.  A file that cannot be read counts as an
\* empty one.  A rollback after its reservation expired may be another's.
Read(h) ==
  LET late == step[h] = "clear" /\ claimed[h] # None /\ now - claimed[h] >= PendingTTL IN
  /\ pc[h] = "read" /\ Goto(h, "write")
  /\ \E f \in {file, NoState} :
       /\ next' = [next EXCEPT ![h] = Updated(f, h)]
       /\ wants' = [wants EXCEPT ![h] =
            step[h] = "reserve" /\ ~found[h] /\ Evicted(f.scopes, since[h])[role[h].scope] = NoEntry]
       /\ Harm(f # file \/ late)
  /\ UNCHANGED <<now, file, lock, role, step, since, found, result, reserved, history>>

\* What a write that succeeds means for the history of the properties.
Recorded(h) ==
  /\ claimed' = [claimed EXCEPT ![h] =
       CASE step[h] = "reserve" /\ wants[h] -> since[h] [] step[h] = "clear" -> None [] OTHER -> @]
  /\ marked' = [marked EXCEPT ![h] =
       IF step[h] = "mark" THEN next[h].scopes[role[h].scope].at ELSE @]
  /\ milestone' = (milestone \/ step[h] = "milestone")
  /\ UNCHANGED delivered

\* writeSessionState: a new file takes the place of the old one, or nothing changes.
Write(h) ==
  /\ pc[h] = "write" /\ Goto(h, "release")
  /\ \/ file' = next[h] /\ result' = [result EXCEPT ![h] = TRUE] /\ Recorded(h)
     \/ result' = [result EXCEPT ![h] = FALSE] /\ UNCHANGED <<file, history>>
  /\ UNCHANGED <<now, lock, role, step, since, found, wants, next, reserved, fault>>

\* _releaseLock unlinks the path, whoever's lock it is, and the hook goes on.
Release(h) ==
  /\ pc[h] = "release" /\ lock' = None /\ Harm(Robs(h)) /\ Return(h, result[h])
  /\ UNCHANGED <<now, file, role, step, since, found, history>>

\* The rules are printed and the delivery is recorded; or building them threw,
\* and a reservation is taken back.
Deliver(h) ==
  /\ pc[h] = "deliver" /\ delivered' = delivered \cup {h} /\ Begin(h, "mark")
  /\ UNCHANGED <<now, file, lock, role, found, update, reserved, claimed, marked,
                 milestone, fault>>
DeliverFails(h) ==
  /\ pc[h] = "deliver"
  /\ IF reserved[h] THEN Begin(h, "clear") ELSE Goto(h, "done") /\ UNCHANGED <<step, since>>
  /\ UNCHANGED <<now, file, lock, role, found, update, reserved, history, fault>>

\* The hook is killed, by its timeout or with the session.
Kill(h) ==
  /\ pc[h] \notin {"idle"} \cup Ended /\ Goto(h, "dead") /\ Forget(h)
  /\ UNCHANGED <<now, file, lock, role, step, since, found, reserved, history, fault>>

\* Five seconds pass since the lock was made: only a hook that is suspended
\* holds it that long.
Age ==
  /\ lock # None /\ ~lock.old /\ (pc[lock.owner] \in Section => Suspends)
  /\ lock' = [lock EXCEPT !.old = TRUE]
  /\ UNCHANGED <<now, file, hooks, history, fault>>

Tick ==
  /\ now < MaxTime /\ now' = now + 1
  /\ UNCHANGED <<file, lock, hooks, history, fault>>

Next ==
  \/ \E h \in Hook :
       \/ Start(h) \/ Open(h) \/ Busy(h) \/ GiveUp(h) \/ Stat(h) \/ Unlink(h) \/ Read(h)
       \/ Write(h) \/ Release(h) \/ Deliver(h) \/ DeliverFails(h) \/ Kill(h)
  \/ Age \/ Tick
Spec == Init /\ [][Next]_vars

\* A reservation of a scope is taken only when every other that was not taken
\* back is PendingTTL old and every recorded delivery RecentTTL old: hooks that
\* run at once inject the rules once (reserveInjectionScope).  A lock stolen
\* from a live hook, a file that could not be read and a rollback that came too
\* late are excused.
OneInjection ==
  [][\A g, h \in Hook :
       \/ fault' \/ g = h \/ role[g].scope # role[h].scope
       \/ claimed'[h] = claimed[h] \/ claimed'[h] = None
       \/ /\ claimed[g] # None => claimed'[h] - claimed[g] >= PendingTTL
          /\ marked[g] # None => claimed'[h] - marked[g] >= RecentTTL]_vars

\* A milestone that was recorded is not lost to another hook's update, with the
\* same excuses (updateSessionState, milestone-marker.cjs).
MilestoneKept == milestone => file.milestone \/ fault
=============================================================================
