--------------------------- MODULE UserAvatarProofs ---------------------------
(***************************************************************************)
(* NoTornFile and NoStrandedFile of UserAvatar for any uploads, requests   *)
(* and faults; RetryCleans when no COMMIT loses its reply; ImageIsReadable,*)
(* FailureChangesNothing and HonestRead when besides no PUT /user carries  *)
(* only a bio; OneAvatarLeft when there is no PUT /user at all.            *)
(*                                                                         *)
(* The first two rest on StageInv, what an upload has stored by where it   *)
(* is, and StaleInv: what one replaces belongs to uploads that have ended  *)
(* their transaction, so a file once removed stays removed.  The others    *)
(* add LockInv and ImageInv: nobody who cleans up has the current image    *)
(* on its list, since it listed what there was while it held the lock.     *)
(* LateInv orders the uploads by their turns at the lock: what is left of  *)
(* an earlier one is on the list of every later one.  ChainInv follows the *)
(* image from one holder to the next, and GoneInv says why a reader does   *)
(* not find what it looked up.                                             *)
(***************************************************************************)
EXTENDS UserAvatar, TLAPS

Early == {"new", "lock", "write", "save"}

StageOK(u) ==
  /\ up[u].pc \in {"new", "lock", "write"} => row[u] = "none" /\ file[u] = "none"
  /\ up[u].pc = "save" => row[u] = "none" /\ file[u] = "whole"
  /\ up[u].pc \in {"clean", "records"} /\ file[u] # "none" => row[u] # "none"
  /\ up[u].pc = "done" /\ file[u] # "none" =>
       row[u] # "none" \/ up[u].outcome \in {"crashed", "unmarked"}
  /\ row[u] = "avatar" => file[u] # "partial"

StaleOK(u) ==
  /\ up[u].pc \in Early => up[u].removed = {}
  /\ up[u].removed \subseteq up[u].stale
  /\ \A s \in up[u].stale : up[s[1]].pc \notin Early
  /\ \A s \in up[u].removed : file[s[1]] = "none"

StageInv == \A u \in Upload : StageOK(u)
StaleInv == \A u \in Upload : StaleOK(u)

ReadInv == \A r \in Reader : read[r].pc \in {"lookup", "open"} => read[r].key \in Upload

AInv == TypeOK /\ StageInv /\ StaleInv /\ ReadInv

\* The faults and requests under which the image stays readable.
Undisturbed == "lost commit" \notin Faults /\ BioPut = {}

LockInv == \A u \in Upload : up[u].pc \in {"write", "save"} <=> lock = u

\* The current image is of an upload that has committed; an upload that has
\* not, or has failed, has no row a reader could find.
ImageOK(u) ==
  /\ image = u => /\ row[u] = "avatar" /\ file[u] = "whole"
                  /\ up[u].pc \in {"clean", "records", "done"}
  /\ \/ up[u].pc \in Early \cup {"undo", "mark"}
     \/ up[u].outcome \in {"failed", "marked", "unmarked"}
     => image # u /\ row[u] # "avatar"
  /\ up[u].pc # "done" => up[u].outcome = "none"

\* Who cleans up does not have the current image on its list.
ListOK(u) ==
  up[u].pc \in {"clean", "records"} => \A s \in up[u].stale : s[1] # image

PutInv == \A p \in Put : put[p].pc # "new" => put[p].entity = External

BInv == /\ LockInv /\ PutInv
        /\ \A u \in Upload : ImageOK(u) /\ ListOK(u)

-----------------------------------------------------------------------------
(* What a step does to the record of its upload *)

Debris == Upload \X {"avatar", "marker"}
Places == {"new", "lock", "write", "save", "clean", "records", "undo", "mark", "done"}
Outcomes == {"none", "replaced", "debris", "failed", "marked", "unmarked", "crashed"}

Becomes(u, l, S, R, o) ==
  /\ up' \in [Upload -> UploadState]
  /\ \A v \in Upload \ {u} : up'[v] = up[v]
  /\ up'[u].pc = l /\ up'[u].stale = S /\ up'[u].removed = R /\ up'[u].outcome = o

LEMMA GotoBecomes ==
  ASSUME TypeOK, NEW u \in Upload, NEW l \in Places, Goto(u, l)
  PROVE  Becomes(u, l, up[u].stale, up[u].removed, up[u].outcome)
  <1>1. up \in [Upload -> UploadState]
    BY DEF TypeOK
  <1>2. up' = [up EXCEPT ![u] = [up[u] EXCEPT !.pc = l]]
    BY DEF Goto
  <1>3. [up[u] EXCEPT !.pc = l] \in UploadState
    BY <1>1 DEF UploadState, Places
  <1>. QED
    BY <1>1, <1>2, <1>3 DEF Becomes, UploadState

LEMMA FinishBecomes ==
  ASSUME TypeOK, NEW u \in Upload, NEW o \in Outcomes, Finish(u, o)
  PROVE  Becomes(u, "done", up[u].stale, up[u].removed, o)
  <1>1. up \in [Upload -> UploadState]
    BY DEF TypeOK
  <1>2. up' = [up EXCEPT ![u] = [[up[u] EXCEPT !.pc = "done"] EXCEPT !.outcome = o]]
    BY DEF Finish
  <1>3. [[up[u] EXCEPT !.pc = "done"] EXCEPT !.outcome = o] \in UploadState
    BY <1>1 DEF UploadState, Outcomes
  <1>. QED
    BY <1>1, <1>2, <1>3 DEF Becomes, UploadState

LEMMA BeginBecomes ==
  ASSUME TypeOK, NEW u \in Upload, Begin(u)
  PROVE  Becomes(u, "write", {<<k, row[k]>> : k \in {k \in Upload : row[k] # "none"}},
                 up[u].removed, up[u].outcome)
  <1>. DEFINE S == {<<k, row[k]>> : k \in {k \in Upload : row[k] # "none"}}
  <1>1. up \in [Upload -> UploadState] /\ S \in SUBSET Debris
    BY DEF TypeOK, Debris
  <1>2. up' = [up EXCEPT ![u] = [[up[u] EXCEPT !.pc = "write"] EXCEPT !.stale = S]]
    BY DEF Begin
  <1>. HIDE DEF S
  <1>3. [[up[u] EXCEPT !.pc = "write"] EXCEPT !.stale = S] \in UploadState
    BY <1>1 DEF UploadState, Debris
  <1>4. Becomes(u, "write", S, up[u].removed, up[u].outcome)
    BY <1>1, <1>2, <1>3 DEF Becomes, UploadState
  <1>. QED
    BY <1>4 DEF S

LEMMA RemoveBecomes ==
  ASSUME TypeOK, NEW u \in Upload, NEW s \in up[u].stale,
         RemoveStale(u, s) \/ RemoveStaleFails(u, s)
  PROVE  \/ Becomes(u, "clean", up[u].stale, up[u].removed \cup {s}, up[u].outcome)
            /\ RemoveStale(u, s)
         \/ Becomes(u, "clean", up[u].stale, up[u].removed, up[u].outcome)
            /\ UNCHANGED file
  <1>1. up \in [Upload -> UploadState] /\ up[u].pc = "clean"
    BY DEF TypeOK, RemoveStale, RemoveStaleFails, At
  <1>2. s \in Debris /\ up[u].removed \cup {s} \in SUBSET Debris
        /\ up[u].kept \cup {s} \in SUBSET Debris
    BY <1>1 DEF UploadState, Debris
  <1>3. CASE RemoveStale(u, s)
    <2>1. up' = [up EXCEPT ![u] = [up[u] EXCEPT !.removed = up[u].removed \cup {s}]]
      BY <1>3 DEF RemoveStale
    <2>2. [up[u] EXCEPT !.removed = up[u].removed \cup {s}] \in UploadState
      BY <1>1, <1>2 DEF UploadState, Debris
    <2>. QED
      BY <1>1, <1>3, <2>1, <2>2 DEF Becomes, UploadState
  <1>4. CASE RemoveStaleFails(u, s)
    <2>1. up' = [up EXCEPT ![u] = [up[u] EXCEPT !.kept = up[u].kept \cup {s}]]
      BY <1>4 DEF RemoveStaleFails
    <2>2. [up[u] EXCEPT !.kept = up[u].kept \cup {s}] \in UploadState
      BY <1>1, <1>2 DEF UploadState, Debris
    <2>. QED
      BY <1>1, <1>4, <2>1, <2>2 DEF Becomes, UploadState, RemoveStaleFails
  <1>. QED
    BY <1>3, <1>4

-----------------------------------------------------------------------------
(* What the steps share *)

\* A step that changes the row and the file of its own upload only.
LEMMA OwnStep ==
  ASSUME AInv, TypeOK', NEW u \in Upload, NEW l \in Places, NEW S \in SUBSET Debris, NEW o,
         Becomes(u, l, S, up[u].removed, o),
         \A v \in Upload \ {u} : row'[v] = row[v] /\ file'[v] = file[v],
         l \in Early => up[u].pc \in Early,
         up[u].pc \notin Early /\ file[u] = "none" => file'[u] = "none",
         S = up[u].stale \/ (up[u].pc \in Early /\ \A s \in S : up[s[1]].pc \notin Early),
         StageOK(u)'
  PROVE  StageInv' /\ StaleInv'
  <1>1. TypeOK /\ StageInv /\ StaleInv
    BY DEF AInv
  <1>2. \A v \in Upload \ {u} : up'[v] = up[v]
    BY DEF Becomes
  <1>3. /\ up'[u].pc = l /\ up'[u].stale = S
        /\ up'[u].removed = up[u].removed
    BY DEF Becomes
  <1>4. StageInv'
    BY <1>1, <1>2 DEF StageInv, StageOK
  <1>5. ASSUME NEW k \in Upload, up[k].pc \notin Early
        PROVE  up'[k].pc \notin Early /\ (file[k] = "none" => file'[k] = "none")
    BY <1>2, <1>3, <1>5
  <1>6. ASSUME NEW v \in Upload PROVE StaleOK(v)'
    <2>1. StaleOK(v) /\ v \in Upload /\ up[v] \in UploadState
      BY <1>1 DEF StaleInv, TypeOK
    <2>2. \A s \in Debris : s[1] \in Upload
      BY DEF Debris
    <2>3. up[v].stale \subseteq Debris
      BY <2>1 DEF UploadState, Debris
    <2>4. CASE v # u
      <3>1. up'[v] = up[v]
        BY <1>2, <2>4
      <3>. QED
        BY <1>5, <2>1, <2>2, <2>3, <3>1 DEF StaleOK
    <2>5. CASE v = u
      <3>1. up[u].pc \in Early => up[u].removed = {}
        BY <2>1, <2>5 DEF StaleOK
      <3>2. l \in Early => up[u].removed = {}
        BY <3>1
      <3>3. CASE S = up[u].stale
        BY <1>3, <1>5, <2>1, <2>2, <2>3, <2>5, <3>2, <3>3 DEF StaleOK
      <3>4. CASE up[u].pc \in Early /\ \A s \in S : up[s[1]].pc \notin Early
        BY <1>3, <1>5, <2>1, <2>2, <2>5, <3>1, <3>4 DEF StaleOK
      <3>. QED
        BY <3>3, <3>4
    <2>. QED
      BY <2>4, <2>5
  <1>. QED
    BY <1>4, <1>6 DEF StaleInv

LEMMA RemoveKeeps ==
  ASSUME AInv, TypeOK', NEW u \in Upload, NEW s \in up[u].stale,
         RemoveStale(u, s) \/ RemoveStaleFails(u, s)
  PROVE  StageInv' /\ StaleInv'
  <1>1. TypeOK /\ StageInv /\ StaleInv
    BY DEF AInv
  <1>2. up[u].pc = "clean" /\ UNCHANGED row
    BY DEF RemoveStale, RemoveStaleFails, At
  <1>3. /\ s \in Debris /\ up[s[1]].pc \notin Early
        /\ up[u].stale \subseteq Debris /\ up[u].removed \subseteq Debris
    BY <1>1 DEF StaleInv, StaleOK, TypeOK, UploadState, Debris
  <1>4. s[1] \in Upload
    BY <1>3 DEF Debris
  <1>5. CASE UNCHANGED file /\ Becomes(u, "clean", up[u].stale, up[u].removed, up[u].outcome)
    <2>1. StageOK(u)'
      BY <1>1, <1>2, <1>5 DEF StageInv, StageOK, Becomes
    <2>. QED
      BY <1>1, <1>2, <1>3, <1>5, <2>1, OwnStep DEF Early, Places
  <1>6. CASE /\ RemoveStale(u, s)
             /\ Becomes(u, "clean", up[u].stale, up[u].removed \cup {s}, up[u].outcome)
    <2>1. /\ \A v \in Upload \ {u} : up'[v] = up[v]
          /\ up'[u].pc = "clean" /\ up'[u].stale = up[u].stale
          /\ up'[u].removed = up[u].removed \cup {s} /\ up'[u].outcome = up[u].outcome
      BY <1>6 DEF Becomes
    <2>2. \A v \in Upload : up'[v].pc = up[v].pc /\ up'[v].stale = up[v].stale
                            /\ up'[v].outcome = up[v].outcome
      BY <1>2, <2>1
    <2>3. file'[s[1]] = "none" /\ \A v \in Upload \ {s[1]} : file'[v] = file[v]
      BY <1>1, <1>4, <1>6 DEF RemoveStale, TypeOK
    <2>4. ASSUME NEW v \in Upload PROVE StageOK(v)'
      <3>1. StageOK(v)
        BY <1>1 DEF StageInv
      <3>2. CASE v # s[1]
        BY <1>2, <2>2, <2>3, <3>1, <3>2 DEF StageOK
      <3>3. CASE v = s[1]
        BY <1>2, <1>3, <2>2, <2>3, <3>1, <3>3 DEF StageOK, Early
      <3>. QED
        BY <3>2, <3>3
    <2>5. ASSUME NEW v \in Upload PROVE StaleOK(v)'
      <3>1. StaleOK(v) /\ up[v].stale \subseteq Debris /\ up[v].removed \subseteq Debris
        BY <1>1 DEF StaleInv, TypeOK, UploadState, Debris
      <3>2. \A t \in Debris : t[1] \in Upload
        BY DEF Debris
      <3>3. \A t \in up[v].removed : file'[t[1]] = "none"
        BY <2>3, <3>1, <3>2 DEF StaleOK
      <3>4. CASE v # u
        BY <2>1, <2>2, <3>1, <3>2, <3>3, <3>4 DEF StaleOK
      <3>5. CASE v = u
        BY <1>2, <2>1, <2>2, <2>3, <3>1, <3>2, <3>3, <3>5 DEF StaleOK, Early
      <3>. QED
        BY <3>4, <3>5
    <2>. QED
      BY <2>4, <2>5 DEF StageInv, StaleInv
  <1>. QED
    BY <1>1, <1>5, <1>6, RemoveBecomes

LEMMA DeleteKeeps ==
  ASSUME AInv, TypeOK', NEW u \in Upload, DeleteRecords(u)
  PROVE  StageInv' /\ StaleInv'
  <1>1. TypeOK /\ StageInv /\ StaleInv
    BY DEF AInv
  <1>2. PICK o \in {"replaced", "debris"} : Finish(u, o)
    BY DEF DeleteRecords
  <1>3. Becomes(u, "done", up[u].stale, up[u].removed, o)
    BY <1>1, <1>2, FinishBecomes DEF Outcomes
  <1>4. up[u].pc = "records" /\ UNCHANGED file
    BY DEF DeleteRecords, At
  <1>5. ASSUME NEW k \in Upload
        PROVE  row'[k] = row[k] \/ (row'[k] = "none" /\ file[k] = "none")
    <2>1. \A s \in up[u].removed : file[s[1]] = "none"
      BY <1>1 DEF StaleInv, StaleOK
    <2>. QED
      BY <2>1 DEF DeleteRecords
  <1>6. ASSUME NEW v \in Upload PROVE StageOK(v)'
    <2>1. StageOK(v)
      BY <1>1 DEF StageInv
    <2>2. row'[v] = row[v] \/ (row'[v] = "none" /\ file[v] = "none")
      BY <1>5
    <2>3. CASE v # u
      BY <1>3, <1>4, <2>1, <2>2, <2>3 DEF StageOK, Becomes
    <2>4. CASE v = u
      BY <1>3, <1>4, <2>1, <2>2, <2>4 DEF StageOK, Becomes
    <2>. QED
      BY <2>3, <2>4
  <1>7. ASSUME NEW v \in Upload PROVE StaleOK(v)'
    <2>1. StaleOK(v) /\ up[v].stale \subseteq Debris
      BY <1>1 DEF StaleInv, TypeOK, UploadState, Debris
    <2>2. \A t \in Debris : t[1] \in Upload
      BY DEF Debris
    <2>3. \A k \in Upload : up[k].pc \notin Early => up'[k].pc \notin Early
      BY <1>3 DEF Becomes, Early
    <2>4. up'[v].stale = up[v].stale /\ up'[v].removed = up[v].removed
      BY <1>3 DEF Becomes
    <2>5. up'[v].pc \in Early => up[v].pc \in Early
      BY <1>3 DEF Becomes, Early
    <2>. QED
      BY <1>4, <2>1, <2>2, <2>3, <2>4, <2>5 DEF StaleOK
  <1>. QED
    BY <1>6, <1>7 DEF StageInv, StaleInv

-----------------------------------------------------------------------------
(* The steps: types, stages and lists *)

\* The steps of an upload that change its own row and file only.
OwnSteps(u) ==
  \/ Accept(u) \/ Reject(u) \/ Begin(u) \/ WriteFile(u) \/ WriteFails(u)
  \/ Commit(u) \/ SaveFails(u) \/ CommitReplyLost(u) \/ EndClean(u)
  \/ DeleteRecordsFails(u) \/ Undo(u) \/ UndoFails(u) \/ SaveMarker(u)
  \/ MarkerFails(u) \/ Crash(u)

\* Where each of them goes.
LEMMA OwnMoves ==
  ASSUME TypeOK, NEW u \in Upload, OwnSteps(u)
  PROVE  \E l \in Places, o \in Outcomes, S \in SUBSET Debris :
           /\ Becomes(u, l, S, up[u].removed, o)
           /\ S = up[u].stale \/ Begin(u)
           /\ Begin(u) => S = {<<k, row[k]>> : k \in {k \in Upload : row[k] # "none"}}
           /\ \/ Goto(u, l) /\ o = up[u].outcome
              \/ Finish(u, o) /\ l = "done"
              \/ Begin(u) /\ l = "write" /\ o = up[u].outcome
  <1>. DEFINE Now == {<<k, row[k]>> : k \in {k \in Upload : row[k] # "none"}}
  <1>1. /\ up[u].stale \in SUBSET Debris /\ up[u].outcome \in Outcomes
        /\ Now \in SUBSET Debris
    BY DEF TypeOK, UploadState, Debris, Outcomes
  <1>2. ASSUME Begin(u)
        PROVE  Becomes(u, "write", Now, up[u].removed, up[u].outcome)
    BY <1>2, BeginBecomes
  <1>3. ASSUME NEW l \in Places \ {"write", "lock"}, Goto(u, l)
        PROVE  Becomes(u, l, up[u].stale, up[u].removed, up[u].outcome) /\ ~Begin(u)
    <2>1. Becomes(u, l, up[u].stale, up[u].removed, up[u].outcome)
      BY <1>3, GotoBecomes
    <2>. QED
      BY <1>2, <1>3, <2>1 DEF Becomes
  <1>4. ASSUME NEW o \in Outcomes, Finish(u, o)
        PROVE  Becomes(u, "done", up[u].stale, up[u].removed, o) /\ ~Begin(u)
    <2>1. Becomes(u, "done", up[u].stale, up[u].removed, o)
      BY <1>4, FinishBecomes
    <2>. QED
      BY <1>2, <2>1 DEF Becomes
  <1>5. CASE Accept(u)
    <2>1. Goto(u, "lock") /\ ~Begin(u)
      BY <1>5 DEF Accept, Begin, At
    <2>2. Becomes(u, "lock", up[u].stale, up[u].removed, up[u].outcome)
      BY <2>1, GotoBecomes DEF Places
    <2>. QED
      BY <1>1, <2>1, <2>2 DEF Places
  <1>6. CASE Begin(u)
    BY <1>1, <1>2, <1>6 DEF Places
  <1>7. CASE \E l \in Places \ {"write", "lock"} : Goto(u, l)
    BY <1>1, <1>3, <1>7
  <1>8. CASE \E o \in Outcomes : Finish(u, o)
    BY <1>1, <1>4, <1>8 DEF Places
  <1>9. \/ Accept(u) \/ Begin(u) \/ \E l \in Places \ {"write", "lock"} : Goto(u, l)
        \/ \E o \in Outcomes : Finish(u, o)
    <2>1. \A l \in {"save", "undo", "clean", "records", "mark"} :
            l \in Places \ {"write", "lock"}
      BY DEF Places
    <2>2. \A o \in {"failed", "replaced", "debris", "marked", "unmarked", "crashed"} :
            o \in Outcomes
      BY DEF Outcomes
    <2>. QED
      BY <2>1, <2>2 DEF OwnSteps, Reject, WriteFile, WriteFails, Commit, SaveFails,
         CommitReplyLost, EndClean, DeleteRecordsFails, Undo, UndoFails, SaveMarker,
         MarkerFails, Crash
  <1>. QED
    BY <1>5, <1>6, <1>7, <1>8, <1>9

LEMMA UploadTypes ==
  ASSUME TypeOK, NEW u \in Upload,
         OwnSteps(u) \/ DeleteRecords(u)
           \/ \E s \in up[u].stale : RemoveStale(u, s) \/ RemoveStaleFails(u, s)
  PROVE  TypeOK'
  <1>1. CASE OwnSteps(u)
    <2>1. up' \in [Upload -> UploadState]
      BY <1>1, OwnMoves DEF Becomes
    <2>2. /\ image' \in Image /\ lock' \in Upload \cup {None} /\ UNCHANGED <<put, read>>
          /\ row' \in [Upload -> {"none", "avatar", "marker"}]
      BY <1>1 DEF TypeOK, Image, OwnSteps, Accept, Reject, Begin, WriteFile, WriteFails, Commit,
         SaveFails, CommitReplyLost, Apply, EndClean, DeleteRecordsFails, Undo, UndoFails,
         SaveMarker, MarkerFails, Crash, Unlock, Others
    <2>3. file' \in [Upload -> {"none", "partial", "whole"}]
      BY <1>1 DEF TypeOK, OwnSteps, Accept, Reject, Begin, WriteFile, WriteFails, Commit,
         SaveFails, CommitReplyLost, EndClean, DeleteRecordsFails, Undo, UndoFails,
         SaveMarker, MarkerFails, Crash
    <2>. QED
      BY <2>1, <2>2, <2>3 DEF TypeOK
  <1>2. CASE DeleteRecords(u)
    <2>1. PICK o \in Outcomes : Finish(u, o)
      BY <1>2 DEF DeleteRecords, Outcomes
    <2>2. up' \in [Upload -> UploadState]
      BY <2>1, FinishBecomes DEF Becomes
    <2>. QED
      BY <1>2, <2>2 DEF TypeOK, DeleteRecords, Others
  <1>3. ASSUME NEW s \in up[u].stale, RemoveStale(u, s) \/ RemoveStaleFails(u, s)
        PROVE  TypeOK'
    <2>1. up' \in [Upload -> UploadState]
      BY <1>3, RemoveBecomes DEF Becomes
    <2>. QED
      BY <1>3, <2>1 DEF TypeOK, RemoveStale, RemoveStaleFails, Others
  <1>. QED
    BY <1>1, <1>2, <1>3

\* PUT /user and GET /files/:id touch the image and their own state only.
LEMMA OtherTypes ==
  ASSUME TypeOK, ReadInv,
         \/ \E p \in Put : LoadUser(p) \/ CompareUser(p) \/ UpdateUser(p)
         \/ \E r \in Reader : RequestFile(r) \/ FindAttachment(r) \/ ReadFile(r)
         \/ UNCHANGED vars
  PROVE  TypeOK' /\ ReadInv' /\ UNCHANGED <<row, file, up>>
  <1>1. ASSUME NEW p \in Put, LoadUser(p) \/ CompareUser(p) \/ UpdateUser(p)
        PROVE  TypeOK' /\ ReadInv' /\ UNCHANGED <<row, file, up>>
    <2>1. put[p] \in PutState /\ put \in [Put -> PutState] /\ image \in Image
      BY DEF TypeOK
    <2>2. put' \in [Put -> PutState]
      <3>1. CASE LoadUser(p)
        <4>1. PICK e \in Image :
                put' = [put EXCEPT ![p] = [[put[p] EXCEPT !.pc = "loaded"] EXCEPT !.entity = e]]
          BY <2>1, <3>1 DEF LoadUser, Image
        <4>2. [[put[p] EXCEPT !.pc = "loaded"] EXCEPT !.entity = e] \in PutState
          BY <2>1 DEF PutState
        <4>. QED
          BY <2>1, <4>1, <4>2
      <3>2. CASE CompareUser(p)
        <4>1. PICK d \in BOOLEAN : d = (put[p].entity # image)
          <5>1. CASE put[p].entity # image
            <6>1. TRUE = (put[p].entity # image)
              BY <5>1
            <6>. QED
              BY <6>1
          <5>2. CASE put[p].entity = image
            <6>1. FALSE = (put[p].entity # image)
              BY <5>2
            <6>. QED
              BY <6>1
          <5>. QED
            BY <5>1, <5>2
        <4>2. put' = [put EXCEPT ![p] = [[put[p] EXCEPT !.pc = "compared"] EXCEPT !.dirty = d]]
          BY <3>2, <4>1 DEF CompareUser
        <4>3. [[put[p] EXCEPT !.pc = "compared"] EXCEPT !.dirty = d] \in PutState
          BY <2>1 DEF PutState
        <4>. QED
          BY <2>1, <4>2, <4>3
      <3>3. CASE UpdateUser(p)
        BY <2>1, <3>3 DEF UpdateUser, PutState
      <3>. QED
        BY <1>1, <3>1, <3>2, <3>3
    <2>3. image' \in Image
      BY <1>1, <2>1 DEF LoadUser, CompareUser, UpdateUser, PutState
    <2>. QED
      BY <1>1, <2>2, <2>3 DEF TypeOK, ReadInv, LoadUser, CompareUser, UpdateUser
  <1>2. ASSUME NEW r \in Reader, RequestFile(r) \/ FindAttachment(r) \/ ReadFile(r)
        PROVE  TypeOK' /\ ReadInv' /\ UNCHANGED <<row, file, up>>
    <2>1. read[r] \in ReadState /\ read \in [Reader -> ReadState]
      BY DEF TypeOK
    <2>2. ASSUME NEW a \in {"200", "404", "500"}, Answer(r, a)
          PROVE  read' \in [Reader -> ReadState]
      BY <2>1, <2>2 DEF ReadState, Answer
    <2>3. read' \in [Reader -> ReadState]
      <3>1. CASE RequestFile(r)
        BY <2>1, <3>1 DEF ReadState, RequestFile
      <3>2. CASE FindAttachment(r)
        BY <2>1, <2>2, <3>2 DEF ReadState, FindAttachment
      <3>3. CASE ReadFile(r)
        <4>1. read[r].key \in Upload
          BY <3>3 DEF ReadFile, ReadInv
        <4>2. file[read[r].key] \in {"none", "partial", "whole"}
          BY <4>1 DEF TypeOK
        <4>. QED
          BY <2>2, <3>3, <4>2 DEF ReadFile
      <3>. QED
        BY <1>2, <3>1, <3>2, <3>3
    <2>4. ReadInv'
      <3>1. \A q \in Reader \ {r} : read'[q] = read[q]
        BY <1>2, <2>1 DEF RequestFile, FindAttachment, ReadFile, Answer
      <3>2. CASE RequestFile(r)
        <4>1. read'[r] = [[read[r] EXCEPT !.pc = "lookup"] EXCEPT !.key = image]
          BY <2>1, <3>2 DEF RequestFile
        <4>2. read'[r].key = image /\ image \in Upload
          BY <2>1, <3>2, <4>1 DEF RequestFile, ReadState
        <4>. QED
          BY <3>1, <4>2 DEF ReadInv
      <3>3. CASE FindAttachment(r) \/ ReadFile(r)
        <4>1. \/ read'[r].pc = "done"
              \/ read'[r].key = read[r].key /\ read[r].pc = "lookup"
          BY <2>1, <3>3 DEF FindAttachment, ReadFile, Answer, ReadState
        <4>. QED
          BY <3>1, <4>1 DEF ReadInv
      <3>. QED
        BY <1>2, <3>2, <3>3
    <2>. QED
      BY <1>2, <2>3, <2>4 DEF TypeOK, RequestFile, FindAttachment, ReadFile
  <1>3. CASE UNCHANGED vars
    BY <1>3 DEF TypeOK, ReadInv, vars
  <1>. QED
    BY <1>1, <1>2, <1>3

\* An own step leaves the upload in order.
LEMMA OwnKeeps ==
  ASSUME AInv, TypeOK', NEW u \in Upload, OwnSteps(u)
  PROVE  StageInv' /\ StaleInv'
  <1>1. TypeOK /\ StageInv /\ StaleInv /\ StageOK(u)
    BY DEF AInv, StageInv
  <1>2. PICK l \in Places, o \in Outcomes, S \in SUBSET Debris :
           /\ Becomes(u, l, S, up[u].removed, o)
           /\ S = up[u].stale \/ Begin(u)
           /\ Begin(u) => S = {<<k, row[k]>> : k \in {k \in Upload : row[k] # "none"}}
           /\ \/ Goto(u, l) /\ o = up[u].outcome
              \/ Finish(u, o) /\ l = "done"
              \/ Begin(u) /\ l = "write" /\ o = up[u].outcome
    BY <1>1, OwnMoves
  <1>3. up'[u].pc = l /\ up'[u].outcome = o
    BY <1>2 DEF Becomes
  <1>4. \A v \in Upload \ {u} : row'[v] = row[v] /\ file'[v] = file[v]
    BY <1>1 DEF TypeOK, OwnSteps, Accept, Reject, Begin, WriteFile, WriteFails, Commit, Apply,
       SaveFails, CommitReplyLost, EndClean, DeleteRecordsFails, Undo, UndoFails,
       SaveMarker, MarkerFails, Crash
  <1>5. /\ l \in Early => up[u].pc \in Early
        /\ up[u].pc \notin Early /\ file[u] = "none" => file'[u] = "none"
        /\ StageOK(u)'
    <2>1. \A x \in Places : Goto(u, x) => up'[u].pc = x
      BY <1>1, GotoBecomes DEF Becomes
    <2>2. \A x \in Outcomes : Finish(u, x) => up'[u].pc = "done" /\ up'[u].outcome = x
      BY <1>1, FinishBecomes DEF Becomes
    <2>3. row \in [Upload -> {"none", "avatar", "marker"}]
          /\ file \in [Upload -> {"none", "partial", "whole"}]
      BY <1>1 DEF TypeOK
    <2>4. CASE Accept(u)
      <3>1. up'[u].pc = "lock"
        BY <2>1, <2>4 DEF Accept, Places
      <3>. QED
        BY <1>1, <1>3, <2>4, <3>1 DEF Accept, At, StageOK, Early
    <2>5. CASE Begin(u)
      <3>1. up'[u].pc = "write"
        BY <1>1, <2>5, BeginBecomes DEF Becomes
      <3>. QED
        BY <1>1, <1>3, <2>5, <3>1 DEF Begin, At, StageOK, Early
    <2>6. CASE Reject(u) \/ Undo(u) \/ DeleteRecordsFails(u) \/ SaveMarker(u) \/ MarkerFails(u)
      <3>1. PICK x \in Outcomes : /\ Finish(u, x)
                                  /\ Reject(u) \/ Undo(u) => x = "failed"
                                  /\ DeleteRecordsFails(u) => x = "debris"
                                  /\ SaveMarker(u) => x = "marked"
                                  /\ MarkerFails(u) => x = "unmarked"
        <4>1. CASE Reject(u) \/ Undo(u)
          BY <4>1 DEF Reject, Undo, DeleteRecordsFails, SaveMarker, MarkerFails, At, Outcomes
        <4>2. CASE DeleteRecordsFails(u)
          BY <4>2 DEF Reject, Undo, DeleteRecordsFails, SaveMarker, MarkerFails, At, Outcomes
        <4>3. CASE SaveMarker(u)
          BY <2>2, <4>3 DEF Reject, Undo, DeleteRecordsFails, SaveMarker, MarkerFails, At, Outcomes
        <4>4. CASE MarkerFails(u)
          BY <2>2, <4>4 DEF Reject, Undo, DeleteRecordsFails, SaveMarker, MarkerFails, At, Outcomes
        <4>. QED
          BY <2>6, <4>1, <4>2, <4>3, <4>4
      <3>2. up'[u].pc = "done" /\ up'[u].outcome = x
        BY <2>2, <3>1
      <3>3. l \notin Early
        BY <1>3, <3>2 DEF Early
      <3>. QED
        BY <1>1, <2>3, <2>6, <3>1, <3>2, <3>3
           DEF Reject, Undo, DeleteRecordsFails, SaveMarker, MarkerFails, At, StageOK, Early
    <2>7. CASE WriteFile(u)
      <3>1. up'[u].pc = "save"
        BY <2>1, <2>7 DEF WriteFile, Places
      <3>. QED
        BY <1>1, <1>3, <2>3, <2>7, <3>1 DEF WriteFile, At, StageOK, Early
    <2>8. CASE WriteFails(u) \/ SaveFails(u) \/ CommitReplyLost(u)
      <3>1. up'[u].pc = "undo"
        BY <2>1, <2>8 DEF WriteFails, SaveFails, CommitReplyLost, Places
      <3>. QED
        BY <1>1, <1>3, <2>3, <2>8, <3>1
           DEF WriteFails, SaveFails, CommitReplyLost, Apply, At, StageOK, Early
    <2>9. CASE Commit(u)
      <3>1. up'[u].pc = "clean"
        BY <2>1, <2>9 DEF Commit, Places
      <3>. QED
        BY <1>1, <1>3, <2>3, <2>9, <3>1 DEF Commit, Apply, At, StageOK, Early
    <2>10. CASE EndClean(u)
      <3>1. \/ up'[u].pc = "records"
            \/ up'[u].pc = "done" /\ up'[u].outcome \in {"replaced", "debris"}
        BY <2>1, <2>2, <2>10 DEF EndClean, Places, Outcomes
      <3>. QED
        BY <1>1, <1>3, <2>10, <3>1 DEF EndClean, At, StageOK, Early
    <2>11. CASE UndoFails(u)
      <3>1. up'[u].pc = "mark"
        BY <2>1, <2>11 DEF UndoFails, Places
      <3>. QED
        BY <1>1, <1>3, <2>11, <3>1 DEF UndoFails, At, StageOK, Early
    <2>12. CASE Crash(u)
      <3>1. up'[u].pc = "done" /\ up'[u].outcome = "crashed"
        BY <2>2, <2>12 DEF Crash, Outcomes
      <3>. QED
        BY <1>1, <1>3, <2>3, <2>12, <3>1 DEF Crash, At, StageOK, Early
    <2>. QED
      BY <2>4, <2>5, <2>6, <2>7, <2>8, <2>9, <2>10, <2>11, <2>12 DEF OwnSteps
  <1>6. S = up[u].stale \/ (up[u].pc \in Early /\ \A s \in S : up[s[1]].pc \notin Early)
    <2>1. ASSUME Begin(u) PROVE \A s \in S : up[s[1]].pc \notin Early
      <3>1. \A k \in Upload : row[k] # "none" => up[k].pc \notin Early
        BY <1>1 DEF StageInv, StageOK, Early
      <3>. QED
        BY <1>2, <2>1, <3>1
    <2>. QED
      BY <1>2, <2>1 DEF Begin, At, Early
  <1>. QED
    BY <1>2, <1>4, <1>5, <1>6, OwnStep

-----------------------------------------------------------------------------
LEMMA InitAInv == ASSUME Init PROVE AInv
  <1>1. up \in [Upload -> UploadState]
    BY DEF Init, UploadState
  <1>2. TypeOK
    BY <1>1 DEF Init, TypeOK, Image, PutState, ReadState
  <1>. QED
    BY <1>2 DEF Init, AInv, StageInv, StageOK, StaleInv, StaleOK, ReadInv

LEMMA StepAInv == ASSUME AInv, [Next]_vars PROVE AInv'
  <1>1. TypeOK /\ StageInv /\ StaleInv /\ ReadInv
    BY DEF AInv
  <1>2. ASSUME NEW u \in Upload,
               Accept(u) \/ Reject(u) \/ Begin(u) \/ UploadStep(u) \/ Crash(u)
        PROVE  AInv'
    <2>1. \/ OwnSteps(u) \/ DeleteRecords(u)
          \/ \E s \in up[u].stale : RemoveStale(u, s) \/ RemoveStaleFails(u, s)
      BY <1>2 DEF UploadStep, OwnSteps
    <2>2. TypeOK'
      BY <1>1, <2>1, UploadTypes
    <2>3. StageInv' /\ StaleInv'
      BY <2>1, <2>2, OwnKeeps, DeleteKeeps, RemoveKeeps
    <2>4. UNCHANGED read
      BY <1>2 DEF Accept, Reject, Begin, Crash, UploadStep, WriteFile, WriteFails, Commit,
         SaveFails, CommitReplyLost, RemoveStale, RemoveStaleFails, EndClean, DeleteRecords,
         DeleteRecordsFails, Undo, UndoFails, SaveMarker, MarkerFails, Others
    <2>. QED
      BY <2>2, <2>3, <2>4 DEF AInv, ReadInv
  <1>3. CASE \/ \E p \in Put : LoadUser(p) \/ CompareUser(p) \/ UpdateUser(p)
             \/ \E r \in Reader : RequestFile(r) \/ FindAttachment(r) \/ ReadFile(r)
             \/ UNCHANGED vars
    <2>1. TypeOK' /\ ReadInv' /\ UNCHANGED <<row, file, up>>
      BY <1>1, <1>3, OtherTypes
    <2>. QED
      BY <1>1, <2>1 DEF AInv, StageInv, StageOK, StaleInv, StaleOK
  <1>. QED
    BY <1>2, <1>3 DEF Next, Done

\* The inductive invariant holds in every reachable state.
THEOREM Invariance == Spec => []AInv
  <1>1. Init => AInv
    BY InitAInv
  <1>2. AInv /\ [Next]_vars => AInv'
    BY StepAInv
  <1>. QED
    BY <1>1, <1>2, PTL DEF Spec

\* Every variable keeps its type.
THEOREM TypeCorrect == Spec => []TypeOK
  <1>1. AInv => TypeOK
    BY DEF AInv
  <1>. QED
    BY <1>1, Invariance, PTL

\* An attachment a reader can find never names a partly written file, whatever
\* fails and whoever writes the users row.
THEOREM NoReaderFindsTornFile == Spec => []NoTornFile
  <1>1. AInv => NoTornFile
    BY DEF AInv, StageInv, StageOK, NoTornFile
  <1>. QED
    BY <1>1, Invariance, PTL

\* An upload that ended leaves no file without a row, unless its process died or
\* its marker could not be saved.
THEOREM NoFileIsStranded == Spec => []NoStrandedFile
  <1>1. AInv => NoStrandedFile
    BY DEF AInv, StageInv, StageOK, NoStrandedFile, At, Ended
  <1>. QED
    BY <1>1, Invariance, PTL

-----------------------------------------------------------------------------
(* The image, while no COMMIT loses its reply and every PUT carries an image *)

\* What an own step does to the lock and the image.
LEMMA OwnImage ==
  ASSUME AInv, BInv, Undisturbed, NEW u \in Upload, OwnSteps(u)
  PROVE  /\ LockInv'
         /\ \A v \in Upload : ImageOK(v)' /\ ListOK(v)'
  <1>1. TypeOK /\ StageInv /\ StaleInv /\ LockInv /\ ImageOK(u) /\ ListOK(u)
    BY DEF AInv, BInv
  <1>2. PICK l \in Places, o \in Outcomes, S \in SUBSET Debris :
           /\ Becomes(u, l, S, up[u].removed, o)
           /\ S = up[u].stale \/ Begin(u)
           /\ Begin(u) => S = {<<k, row[k]>> : k \in {k \in Upload : row[k] # "none"}}
           /\ \/ Goto(u, l) /\ o = up[u].outcome
              \/ Finish(u, o) /\ l = "done"
              \/ Begin(u) /\ l = "write" /\ o = up[u].outcome
    BY <1>1, OwnMoves
  <1>3. up'[u].pc = l /\ up'[u].outcome = o /\ up'[u].stale = S
        /\ \A v \in Upload \ {u} : up'[v] = up[v]
    BY <1>2 DEF Becomes
  <1>4. \A v \in Upload \ {u} : row'[v] = row[v] /\ file'[v] = file[v]
    BY <1>1 DEF TypeOK, OwnSteps, Accept, Reject, Begin, WriteFile, WriteFails, Commit, Apply,
       SaveFails, CommitReplyLost, EndClean, DeleteRecordsFails, Undo, UndoFails,
       SaveMarker, MarkerFails, Crash
  <1>5. \A x \in Places : Goto(u, x) => up'[u].pc = x /\ up'[u].outcome = up[u].outcome
    BY <1>1, GotoBecomes DEF Becomes
  <1>6. \A x \in Outcomes : Finish(u, x) => up'[u].pc = "done" /\ up'[u].outcome = x
    BY <1>1, FinishBecomes DEF Becomes
  <1>7. /\ row \in [Upload -> {"none", "avatar", "marker"}]
        /\ file \in [Upload -> {"none", "partial", "whole"}]
        /\ None \notin Upload
    BY <1>1, NamesAssumption DEF TypeOK
  \* The stages it passes through, with the lock and the image.
  <1>8. /\ ~CommitReplyLost(u)
        /\ Begin(u) \/ lock' = lock \/ lock' = (IF lock = u THEN None ELSE lock)
        /\ Begin(u) => lock = None /\ lock' = u
        /\ image' = image \/ (image' = u /\ Commit(u))
    BY DEF Undisturbed, CommitReplyLost, MayFail, OwnSteps, Accept, Reject, Begin, WriteFile,
       WriteFails, Commit, Apply, SaveFails, EndClean, DeleteRecordsFails, Undo, UndoFails,
       SaveMarker, MarkerFails, Crash, Unlock
  <1>9. LockInv'
    <2>1. (up'[u].pc \in {"write", "save"}) <=> lock' = u
      <3>1. CASE Begin(u)
        <4>1. up'[u].pc = "write"
          BY <1>1, <3>1, BeginBecomes DEF Becomes
        <4>. QED
          BY <1>8, <3>1, <4>1
      <3>2. CASE WriteFile(u)
        <4>1. up'[u].pc = "save"
          BY <1>5, <3>2 DEF WriteFile, Places
        <4>. QED
          BY <1>1, <3>2, <4>1 DEF WriteFile, At, LockInv
      <3>3. CASE WriteFails(u) \/ SaveFails(u) \/ Commit(u) \/ Crash(u)
        <4>1. up'[u].pc \in {"undo", "clean", "done"}
          BY <1>5, <1>6, <3>3 DEF WriteFails, SaveFails, Commit, Crash, Places, Outcomes
        <4>2. lock' # u
          BY <1>7, <3>3 DEF WriteFails, SaveFails, Commit, Crash, Apply, Unlock
        <4>. QED
          BY <4>1, <4>2
      <3>4. CASE \/ Accept(u) \/ Reject(u) \/ EndClean(u) \/ DeleteRecordsFails(u)
                 \/ Undo(u) \/ UndoFails(u) \/ SaveMarker(u) \/ MarkerFails(u)
        <4>1. up[u].pc \notin {"write", "save"} /\ UNCHANGED lock
          BY <3>4 DEF Accept, Reject, EndClean, DeleteRecordsFails, Undo, UndoFails,
             SaveMarker, MarkerFails, At
        <4>2. up'[u].pc \in {"lock", "done", "records", "mark"}
          BY <1>5, <1>6, <3>4 DEF Accept, Reject, EndClean, DeleteRecordsFails, Undo,
             UndoFails, SaveMarker, MarkerFails, Places, Outcomes
        <4>. QED
          BY <1>1, <4>1, <4>2 DEF LockInv
      <3>. QED
        BY <1>8, <3>1, <3>2, <3>3, <3>4 DEF OwnSteps
    <2>2. ASSUME NEW v \in Upload \ {u}
          PROVE  (up'[v].pc \in {"write", "save"}) <=> lock' = v
      BY <1>1, <1>3, <1>7, <1>8, <2>2 DEF LockInv
    <2>. QED
      BY <2>1, <2>2 DEF LockInv
  <1>10. ASSUME NEW v \in Upload \ {u} PROVE ImageOK(v)' /\ ListOK(v)'
    <2>1. ImageOK(v) /\ ListOK(v) /\ up'[v] = up[v] /\ row'[v] = row[v] /\ file'[v] = file[v]
      BY <1>3, <1>4 DEF BInv
    <2>2. CASE image' = image
      BY <2>1, <2>2 DEF ImageOK, ListOK
    <2>3. CASE image' = u /\ Commit(u)
      <3>1. \A s \in up[v].stale : s[1] # u
        BY <1>1, <2>3 DEF Commit, At, StaleInv, StaleOK, Early
      <3>. QED
        BY <2>1, <2>3, <3>1 DEF ImageOK, ListOK
    <2>. QED
      BY <1>8, <2>2, <2>3
  <1>11. ImageOK(u)' /\ ListOK(u)'
    <2>1. CASE Commit(u)
      <3>1. up'[u].pc = "clean" /\ up'[u].outcome = up[u].outcome
        BY <1>5, <2>1 DEF Commit, Places
      <3>2. /\ image' = u /\ row'[u] = "avatar" /\ file'[u] = "whole"
            /\ up[u].outcome = "none"
        BY <1>1, <1>7, <2>1 DEF Commit, Apply, At, StageInv, StageOK, ImageOK
      <3>3. \A s \in S : s[1] # u
        BY <1>1, <1>2, <2>1 DEF Commit, Begin, At, StaleInv, StaleOK, Early
      <3>. QED
        BY <1>3, <3>1, <3>2, <3>3 DEF ImageOK, ListOK, Early
    <2>2. CASE Accept(u) \/ Begin(u) \/ WriteFile(u) \/ WriteFails(u) \/ SaveFails(u)
               \/ UndoFails(u)
      <3>1. up'[u].pc \in Early \cup {"undo", "mark"} /\ up'[u].outcome = up[u].outcome
        <4>1. CASE Begin(u)
          BY <1>1, <4>1, BeginBecomes DEF Becomes, Early
        <4>2. CASE ~Begin(u)
          BY <1>5, <2>2, <4>2 DEF Accept, WriteFile, WriteFails, SaveFails, UndoFails, Places, Early
        <4>. QED
          BY <4>1, <4>2
      <3>2. up[u].pc \in Early \cup {"undo", "mark"} /\ UNCHANGED <<image, row>>
        BY <2>2 DEF Accept, Begin, WriteFile, WriteFails, SaveFails, UndoFails, At, Early
      <3>3. up[u].outcome = "none" /\ image # u /\ row[u] # "avatar"
        BY <1>1, <3>2 DEF ImageOK, Early
      <3>. QED
        BY <3>1, <3>2, <3>3 DEF ImageOK, ListOK, Early
    <2>3. CASE Reject(u) \/ Undo(u) \/ SaveMarker(u) \/ MarkerFails(u)
      <3>1. up'[u].pc = "done"
        BY <1>6, <2>3 DEF Reject, Undo, SaveMarker, MarkerFails, Outcomes
      <3>2. up[u].pc \in Early \cup {"undo", "mark"} /\ UNCHANGED image
        BY <2>3 DEF Reject, Undo, SaveMarker, MarkerFails, At, Early
      <3>3. image # u /\ row[u] # "avatar"
        BY <1>1, <3>2 DEF ImageOK
      <3>4. row'[u] # "avatar"
        BY <1>7, <2>3, <3>3 DEF Reject, Undo, SaveMarker, MarkerFails
      <3>. QED
        BY <3>1, <3>2, <3>3, <3>4 DEF ImageOK, ListOK, Early
    <2>4. CASE EndClean(u) \/ DeleteRecordsFails(u)
      <3>1. /\ up[u].pc \in {"clean", "records"} /\ UNCHANGED <<image, row, file>>
            /\ S = up[u].stale
        BY <1>2, <2>4 DEF EndClean, DeleteRecordsFails, Begin, At
      <3>2. \/ up'[u].pc = "records" /\ up'[u].outcome = up[u].outcome
            \/ up'[u].pc = "done" /\ up'[u].outcome \in {"replaced", "debris"}
        BY <1>5, <1>6, <2>4 DEF EndClean, DeleteRecordsFails, Places, Outcomes
      <3>. QED
        BY <1>1, <1>3, <3>1, <3>2 DEF ImageOK, ListOK, Early
    <2>5. CASE Crash(u)
      <3>1. up'[u].pc = "done" /\ up'[u].outcome = "crashed"
        BY <1>6, <2>5 DEF Crash, Outcomes
      <3>2. /\ UNCHANGED <<image, row>>
            /\ file' = file \/ up[u].pc = "write"
        BY <2>5 DEF Crash, At
      <3>. QED
        BY <1>1, <3>1, <3>2 DEF ImageOK, ListOK, Early
    <2>. QED
      BY <1>8, <2>1, <2>2, <2>3, <2>4, <2>5 DEF OwnSteps
  <1>. QED
    BY <1>9, <1>10, <1>11

\* Clean-up keeps off the current image.
LEMMA CleanUpImage ==
  ASSUME AInv, BInv, NEW u \in Upload,
         DeleteRecords(u)
           \/ \E s \in up[u].stale : RemoveStale(u, s) \/ RemoveStaleFails(u, s)
  PROVE  /\ LockInv'
         /\ \A v \in Upload : ImageOK(v)' /\ ListOK(v)'
  <1>1. TypeOK /\ StageInv /\ StaleInv /\ LockInv /\ ListOK(u) /\ ImageOK(u)
    BY DEF AInv, BInv
  <1>2. /\ up[u].pc \in {"clean", "records"} /\ UNCHANGED <<image, lock>>
    BY DEF DeleteRecords, RemoveStale, RemoveStaleFails, At
  <1>3. \A s \in up[u].stale : s[1] # image
    BY <1>1, <1>2 DEF ListOK
  <1>4. up[u].outcome = "none"
    BY <1>1, <1>2 DEF ImageOK
  <1>5. /\ \A v \in Upload \ {u} : up'[v] = up[v]
        /\ up'[u].stale = up[u].stale
        /\ \/ up'[u].pc = "clean" /\ up'[u].outcome = "none"
           \/ up'[u].pc = "done" /\ up'[u].outcome \in {"replaced", "debris"}
    <2>1. CASE DeleteRecords(u)
      <3>1. PICK o \in {"replaced", "debris"} : Finish(u, o)
        BY <2>1 DEF DeleteRecords
      <3>2. Becomes(u, "done", up[u].stale, up[u].removed, o)
        BY <1>1, <3>1, FinishBecomes DEF Outcomes
      <3>. QED
        BY <3>2 DEF Becomes
    <2>2. ASSUME NEW s \in up[u].stale, RemoveStale(u, s) \/ RemoveStaleFails(u, s)
          PROVE  /\ \A v \in Upload \ {u} : up'[v] = up[v]
                 /\ up'[u].stale = up[u].stale
                 /\ up'[u].pc = "clean" /\ up'[u].outcome = "none"
      BY <1>1, <1>4, <2>2, RemoveBecomes DEF Becomes
    <2>. QED
      BY <2>1, <2>2
  <1>6. ASSUME NEW v \in Upload
        PROVE  /\ row'[v] = row[v] \/ row'[v] = "none"
               /\ image = v => row'[v] = row[v] /\ file'[v] = file[v]
    <2>1. CASE DeleteRecords(u)
      <3>1. up[u].removed \subseteq up[u].stale
        BY <1>1 DEF StaleInv, StaleOK
      <3>2. image = v => <<v, row[v]>> \notin up[u].removed
        BY <1>3, <3>1
      <3>. QED
        BY <2>1, <3>2 DEF DeleteRecords
    <2>2. ASSUME NEW s \in up[u].stale, RemoveStale(u, s) \/ RemoveStaleFails(u, s)
          PROVE  /\ row'[v] = row[v]
                 /\ image = v => row'[v] = row[v] /\ file'[v] = file[v]
      BY <1>1, <1>3, <2>2 DEF RemoveStale, RemoveStaleFails, TypeOK
    <2>. QED
      BY <2>1, <2>2
  <1>7. ASSUME NEW v \in Upload PROVE ImageOK(v)' /\ ListOK(v)'
    <2>1. ImageOK(v) /\ ListOK(v)
      BY DEF BInv
    <2>2. CASE v # u
      <3>1. up'[v] = up[v]
        BY <1>5, <2>2
      <3>. QED
        BY <1>2, <1>6, <2>1, <3>1 DEF ImageOK, ListOK
    <2>3. CASE v = u
      BY <1>2, <1>3, <1>5, <1>6, <2>1, <2>3 DEF ImageOK, ListOK, Early
    <2>. QED
      BY <2>2, <2>3
  <1>8. LockInv'
    BY <1>1, <1>2, <1>5 DEF LockInv
  <1>. QED
    BY <1>7, <1>8

\* A PUT /user with an image makes it the image; nobody else moves.
LEMMA PutImage ==
  ASSUME AInv, BInv, Undisturbed,
         \/ \E p \in Put : LoadUser(p) \/ CompareUser(p) \/ UpdateUser(p)
         \/ \E r \in Reader : RequestFile(r) \/ FindAttachment(r) \/ ReadFile(r)
         \/ UNCHANGED vars
  PROVE  BInv'
  <1>1. UNCHANGED <<row, file, up, lock>>
    BY DEF LoadUser, CompareUser, UpdateUser, RequestFile, FindAttachment, ReadFile, vars
  <1>2. Put = ImagePut /\ put \in [Put -> PutState]
    BY DEF Undisturbed, Put, AInv, TypeOK
  <1>3. PutInv' /\ image' \in {image, External}
    <2>1. ASSUME NEW p \in Put, LoadUser(p) \/ CompareUser(p) \/ UpdateUser(p)
          PROVE  PutInv' /\ image' \in {image, External}
      <3>1. CASE LoadUser(p)
        BY <1>2, <3>1 DEF LoadUser, PutInv, BInv, PutState
      <3>2. CASE CompareUser(p)
        BY <1>2, <3>2 DEF CompareUser, PutInv, BInv, PutState
      <3>3. CASE UpdateUser(p)
        BY <1>2, <3>3 DEF UpdateUser, PutInv, BInv, PutState
      <3>. QED
        BY <2>1, <3>1, <3>2, <3>3
    <2>2. ASSUME \/ \E r \in Reader : RequestFile(r) \/ FindAttachment(r) \/ ReadFile(r)
                 \/ UNCHANGED vars
          PROVE  PutInv' /\ image' \in {image, External}
      <3>1. UNCHANGED <<put, image>>
        BY <2>2 DEF RequestFile, FindAttachment, ReadFile, vars
      <3>. QED
        BY <3>1 DEF PutInv, BInv
    <2>. QED
      BY <2>1, <2>2
  <1>4. ASSUME NEW u \in Upload PROVE ImageOK(u)' /\ ListOK(u)'
    <2>1. ImageOK(u) /\ ListOK(u) /\ External \notin Upload /\ StaleOK(u)
      BY NamesAssumption DEF BInv, AInv, StaleInv
    <2>2. \A s \in up[u].stale : s[1] \in Upload
      BY DEF AInv, TypeOK, UploadState
    <2>. QED
      BY <1>1, <1>3, <2>1, <2>2 DEF ImageOK, ListOK
  <1>5. LockInv'
    BY <1>1 DEF LockInv, BInv
  <1>. QED
    BY <1>3, <1>4, <1>5 DEF BInv

LEMMA InitBInv == ASSUME Init PROVE BInv
  BY NamesAssumption DEF Init, BInv, LockInv, PutInv, ImageOK, ListOK

LEMMA StepBInv == ASSUME AInv, BInv, Undisturbed, [Next]_vars PROVE BInv'
  <1>1. ASSUME NEW u \in Upload,
               Accept(u) \/ Reject(u) \/ Begin(u) \/ UploadStep(u) \/ Crash(u)
        PROVE  BInv'
    <2>1. \/ OwnSteps(u) \/ DeleteRecords(u)
          \/ \E s \in up[u].stale : RemoveStale(u, s) \/ RemoveStaleFails(u, s)
      BY <1>1 DEF UploadStep, OwnSteps
    <2>2. LockInv' /\ \A v \in Upload : ImageOK(v)' /\ ListOK(v)'
      BY <2>1, OwnImage, CleanUpImage
    <2>3. UNCHANGED put
      BY <1>1 DEF Accept, Reject, Begin, Crash, UploadStep, WriteFile, WriteFails, Commit,
         SaveFails, CommitReplyLost, RemoveStale, RemoveStaleFails, EndClean, DeleteRecords,
         DeleteRecordsFails, Undo, UndoFails, SaveMarker, MarkerFails, Others
    <2>. QED
      BY <2>2, <2>3 DEF BInv, PutInv
  <1>2. CASE \/ \E p \in Put : LoadUser(p) \/ CompareUser(p) \/ UpdateUser(p)
             \/ \E r \in Reader : RequestFile(r) \/ FindAttachment(r) \/ ReadFile(r)
             \/ UNCHANGED vars
    BY <1>2, PutImage
  <1>. QED
    BY <1>1, <1>2 DEF Next, Done

\* Under these conditions the strengthened invariant holds as well.
THEOREM ImageInvariance == ASSUME Undisturbed PROVE Spec => [](AInv /\ BInv)
  <1>1. Init => AInv /\ BInv
    BY InitAInv, InitBInv
  <1>2. AInv /\ BInv /\ [Next]_vars => (AInv /\ BInv)'
    BY StepAInv, StepBInv
  <1>. QED
    BY <1>1, <1>2, PTL DEF Spec

\* While every COMMIT is answered and every PUT /user carries an image, the
\* avatar the user's image names has its row and its whole file.
THEOREM AvatarStaysReadable == ASSUME Undisturbed PROVE Spec => []ImageIsReadable
  <1>1. BInv => ImageIsReadable
    <2>. SUFFICES ASSUME BInv, image \in Upload PROVE row[image] = "avatar" /\ file[image] = "whole"
      BY DEF ImageIsReadable
    <2>1. ImageOK(image)
      BY DEF BInv
    <2>. QED
      BY <2>1 DEF ImageOK
  <1>. QED
    BY <1>1, ImageInvariance, PTL

\* Under the same conditions, an upload answered with an error has changed
\* neither the image nor the attachments a reader can find.
THEOREM ErrorsChangeNothing == ASSUME Undisturbed PROVE Spec => []FailureChangesNothing
  <1>1. BInv => FailureChangesNothing
    BY DEF BInv, ImageOK, FailureChangesNothing, Ended
  <1>. QED
    BY <1>1, ImageInvariance, PTL
-----------------------------------------------------------------------------
(* Clean-up: what an upload that ended without a failure has removed *)

Late == {"clean", "records", "done"}

\* A row is of an upload that has ended its transaction; what one replaces can
\* only have gone since it was listed, and is gone when it reports success.
LateOK(u) ==
  /\ row[u] # "none" => up[u].pc \in Late
  /\ up[u].pc # "done" => up[u].outcome = "none"
  /\ \A s \in up[u].stale : up[s[1]].pc \in Late /\ row[s[1]] \in {"none", s[2]}
  /\ up[u].pc = "records" => up[u].stale \subseteq up[u].removed \cup up[u].kept
  /\ up[u].outcome = "replaced" =>
       \A s \in up[u].stale : file[s[1]] = "none" /\ row[s[1]] = "none"

LateInv == \A u \in Upload : LateOK(u)

\* A committed avatar is the image, or on the list of the upload that replaced
\* it or is about to; a marker is of an upload that says so.
ChainInv ==
  /\ \A u \in Upload : row[u] = "avatar" /\ image # u =>
       image \in Upload /\ <<u, "avatar">> \in up[image].stale
  /\ \A u \in Upload : up[u].pc \in {"write", "save"} =>
       \A k \in Upload : row[k] = "avatar" => <<k, "avatar">> \in up[u].stale
  /\ \A u \in Upload : row[u] = "marker" => up[u].outcome = "marked"

\* What a reader looks for was the image once, and is whole or gone for good.
GoneOK(r) ==
  LET k == read[r].key IN
  /\ read[r].pc \in {"lookup", "open", "done"} =>
       k \in Upload /\ up[k].pc \in Late /\ file[k] # "partial"
  /\ read[r].pc = "done" =>
       read[r].reply = "200" \/ (read[r].reply = "404" /\ image # k)

GoneInv == \A r \in Reader : GoneOK(r)

NoLostCommit == "lost commit" \notin Faults

CleanSteps(u) ==
  DeleteRecords(u) \/ \E s \in up[u].stale : RemoveStale(u, s) \/ RemoveStaleFails(u, s)

\* An own step neither removes nor keeps an attachment.
LEMMA OwnKept ==
  ASSUME TypeOK, NEW u \in Upload, OwnSteps(u)
  PROVE  up'[u].kept = up[u].kept /\ up'[u].removed = up[u].removed
  <1>1. up \in [Upload -> UploadState]
    BY DEF TypeOK
  <1>2. ASSUME NEW l, Goto(u, l)
        PROVE  up'[u].kept = up[u].kept /\ up'[u].removed = up[u].removed
    BY <1>1, <1>2 DEF Goto, UploadState
  <1>3. ASSUME NEW o, Finish(u, o)
        PROVE  up'[u].kept = up[u].kept /\ up'[u].removed = up[u].removed
    BY <1>1, <1>3 DEF Finish, UploadState
  <1>4. CASE Begin(u)
    BY <1>1, <1>4 DEF Begin, UploadState
  <1>. QED
    BY <1>2, <1>3, <1>4 DEF OwnSteps, Accept, Reject, WriteFile, WriteFails, Commit, SaveFails,
       CommitReplyLost, EndClean, DeleteRecordsFails, Undo, UndoFails, SaveMarker,
       MarkerFails, Crash

\* A step of an upload touches no other's record; what belongs to an upload that
\* has ended its transaction can only go.
LEMMA Shrinks ==
  ASSUME AInv, NoLostCommit, NEW u \in Upload, OwnSteps(u) \/ CleanSteps(u)
  PROVE  /\ \A v \in Upload \ {u} : up'[v] = up[v]
         /\ \A k \in Upload : up[k].pc \in Late =>
              /\ up'[k].pc \in Late /\ row'[k] \in {"none", row[k]}
              /\ file'[k] \in {"none", file[k]}
         /\ \A v \in Upload \ {u} : row'[v] \in {"none", row[v]}
  <1>1. TypeOK
    BY DEF AInv
  <1>2. CASE OwnSteps(u)
    <2>1. \A v \in Upload \ {u} : up'[v] = up[v]
      BY <1>1, <1>2, OwnMoves DEF Becomes
    <2>2. \A v \in Upload \ {u} : row'[v] = row[v] /\ file'[v] = file[v]
      BY <1>1, <1>2 DEF TypeOK, OwnSteps, Accept, Reject, Begin, WriteFile, WriteFails, Commit,
         Apply, SaveFails, CommitReplyLost, EndClean, DeleteRecordsFails, Undo, UndoFails,
         SaveMarker, MarkerFails, Crash
    <2>3. ASSUME up[u].pc \in Late
          PROVE  up'[u].pc \in Late /\ UNCHANGED <<row, file>>
      <3>1. EndClean(u) \/ DeleteRecordsFails(u) \/ Crash(u)
        BY <1>2, <2>3 DEF OwnSteps, Accept, Reject, Begin, WriteFile, WriteFails, Commit,
           SaveFails, CommitReplyLost, Undo, UndoFails, SaveMarker, MarkerFails, At, Late
      <3>2. UNCHANGED <<row, file>>
        BY <2>3, <3>1 DEF EndClean, DeleteRecordsFails, Crash, At, Late
      <3>3. \A x \in {"records"} : Goto(u, x) => up'[u].pc \in Late
        BY <1>1, GotoBecomes DEF Becomes, Places, Late
      <3>4. \A x \in Outcomes : Finish(u, x) => up'[u].pc \in Late
        BY <1>1, FinishBecomes DEF Becomes, Late
      <3>. QED
        BY <3>1, <3>2, <3>3, <3>4 DEF EndClean, DeleteRecordsFails, Crash, Outcomes
    <2>. QED
      BY <2>1, <2>2, <2>3
  <1>3. CASE DeleteRecords(u)
    <2>1. PICK o \in Outcomes : Finish(u, o)
      BY <1>3 DEF DeleteRecords, Outcomes
    <2>2. Becomes(u, "done", up[u].stale, up[u].removed, o)
      BY <1>1, <2>1, FinishBecomes
    <2>. QED
      BY <1>3, <2>2 DEF DeleteRecords, Becomes, Late
  <1>4. ASSUME NEW s \in up[u].stale, RemoveStale(u, s) \/ RemoveStaleFails(u, s)
        PROVE  /\ \A v \in Upload \ {u} : up'[v] = up[v]
               /\ up'[u].pc = "clean"
               /\ \A k \in Upload : row'[k] = row[k] /\ file'[k] \in {"none", file[k]}
    <2>1. /\ \A v \in Upload \ {u} : up'[v] = up[v]
          /\ up'[u].pc = "clean"
      BY <1>1, <1>4, RemoveBecomes DEF Becomes
    <2>. QED
      BY <1>1, <1>4, <2>1 DEF RemoveStale, RemoveStaleFails, TypeOK
  <1>. QED
    BY <1>2, <1>3, <1>4 DEF CleanSteps, Late

\* Where an own step takes the upload that makes it.
LEMMA OwnLate ==
  ASSUME AInv, LateInv, NoLostCommit, NEW u \in Upload, OwnSteps(u)
  PROVE  LateOK(u)'
  <1>1. TypeOK /\ LateOK(u) /\ StageOK(u)
    BY DEF AInv, LateInv, StageInv
  <1>2. PICK l \in Places, o \in Outcomes, S \in SUBSET Debris :
           /\ Becomes(u, l, S, up[u].removed, o)
           /\ S = up[u].stale \/ Begin(u)
           /\ Begin(u) => S = {<<k, row[k]>> : k \in {k \in Upload : row[k] # "none"}}
           /\ \/ Goto(u, l) /\ o = up[u].outcome
              \/ Finish(u, o) /\ l = "done"
              \/ Begin(u) /\ l = "write" /\ o = up[u].outcome
    BY <1>1, OwnMoves
  <1>3. /\ up'[u].pc = l /\ up'[u].outcome = o /\ up'[u].stale = S
        /\ up'[u].kept = up[u].kept /\ up'[u].removed = up[u].removed
    BY <1>1, <1>2, OwnKept DEF Becomes
  <1>4. /\ row \in [Upload -> {"none", "avatar", "marker"}]
        /\ file \in [Upload -> {"none", "partial", "whole"}]
        /\ S \subseteq Debris /\ ~CommitReplyLost(u)
    BY <1>1 DEF TypeOK, NoLostCommit, CommitReplyLost, MayFail
  <1>5. \A s \in S : s[1] \in Upload /\ s = <<s[1], s[2]>>
    BY <1>4 DEF Debris
  <1>6. \A s \in S : up[s[1]].pc \in Late /\ row[s[1]] \in {"none", s[2]}
    <2>1. CASE Begin(u)
      <3>1. \A k \in Upload : row[k] # "none" => up[k].pc \in Late
        BY DEF LateInv, LateOK
      <3>. QED
        BY <1>2, <2>1, <3>1
    <2>2. CASE S = up[u].stale
      BY <1>1, <2>2 DEF LateOK
    <2>. QED
      BY <1>2, <2>1, <2>2
  <1>7. \A s \in S : up'[s[1]].pc \in Late /\ row'[s[1]] \in {"none", s[2]}
                     /\ file'[s[1]] \in {"none", file[s[1]]}
    <2>1. \A k \in Upload : up[k].pc \in Late =>
              /\ up'[k].pc \in Late /\ row'[k] \in {"none", row[k]}
              /\ file'[k] \in {"none", file[k]}
      BY Shrinks
    <2>. QED
      BY <1>5, <1>6, <2>1
  <1>8. \A x \in Places : Goto(u, x) => up'[u].pc = x /\ up'[u].outcome = up[u].outcome
    BY <1>1, GotoBecomes DEF Becomes
  <1>9. \A x \in Outcomes : Finish(u, x) => up'[u].pc = "done" /\ up'[u].outcome = x
    BY <1>1, FinishBecomes DEF Becomes
  <1>10. up[u].pc # "done"
    BY <1>2 DEF OwnSteps, Accept, Reject, Begin, WriteFile, WriteFails, Commit, SaveFails,
       CommitReplyLost, EndClean, DeleteRecordsFails, Undo, UndoFails, SaveMarker, MarkerFails,
       Crash, At
  <1>11. up[u].outcome = "none" /\ (l # "done" => o = "none")
    BY <1>1, <1>2, <1>3, <1>8, <1>9, <1>10 DEF LateOK
  <1>12. row'[u] # "none" => l \in Late
    <2>1. CASE Commit(u)
      BY <1>3, <1>8, <2>1 DEF Commit, Places, Late
    <2>2. CASE SaveMarker(u)
      BY <1>3, <1>9, <2>2 DEF SaveMarker, Outcomes, Late
    <2>3. CASE ~Commit(u) /\ ~SaveMarker(u)
      <3>1. row' = row
        BY <1>4, <2>3 DEF OwnSteps, Accept, Reject, Begin, WriteFile, WriteFails, SaveFails,
           EndClean, DeleteRecordsFails, Undo, UndoFails, MarkerFails, Crash
      <3>2. up[u].pc \in Late => l \in Late
        BY <1>3, Shrinks
      <3>. QED
        BY <1>1, <3>1, <3>2 DEF LateOK
    <2>. QED
      BY <2>1, <2>2, <2>3
  <1>13. l = "records" => S \subseteq up[u].removed \cup up[u].kept
    <2>. SUFFICES ASSUME l = "records" PROVE S \subseteq up[u].removed \cup up[u].kept
      OBVIOUS
    <2>1. EndClean(u)
      <3>1. \A x \in {"lock", "save", "undo", "clean", "mark"} : Goto(u, x) => l = x
        BY <1>3, <1>8 DEF Places
      <3>2. \A x \in Outcomes : ~Finish(u, x)
        BY <1>3, <1>9
      <3>3. ~Begin(u)
        BY <1>1, <1>3, BeginBecomes DEF Becomes
      <3>. QED
        BY <1>4, <3>1, <3>2, <3>3 DEF OwnSteps, Accept, Reject, WriteFile, WriteFails, Commit,
           SaveFails, DeleteRecordsFails, Undo, UndoFails, SaveMarker, MarkerFails,
           Crash, Outcomes
    <2>. QED
      BY <1>2, <2>1 DEF EndClean, Begin, At, Todo
  <1>14. o = "replaced" => \A s \in S : file'[s[1]] = "none" /\ row'[s[1]] = "none"
    <2>. SUFFICES ASSUME o = "replaced"
                  PROVE  \A s \in S : file'[s[1]] = "none" /\ row'[s[1]] = "none"
      OBVIOUS
    <2>1. EndClean(u)
      <3>1. \A x \in {"lock", "save", "undo", "clean", "records", "mark"} : Goto(u, x) => o = "none"
        BY <1>3, <1>8, <1>11 DEF Places
      <3>2. \A x \in {"failed", "debris", "crashed", "marked", "unmarked"} : ~Finish(u, x)
        BY <1>3, <1>9 DEF Outcomes
      <3>3. ~Begin(u)
        BY <1>1, <1>3, <1>11, BeginBecomes DEF Becomes
      <3>. QED
        BY <1>4, <3>1, <3>2, <3>3 DEF OwnSteps, Accept, Reject, WriteFile, WriteFails, Commit,
           SaveFails, DeleteRecordsFails, Undo, UndoFails, SaveMarker, MarkerFails, Crash
    <2>2. up[u].removed = {} /\ up[u].kept = {} /\ Todo(u) = {}
      <3>1. ~Goto(u, "records")
        BY <1>3, <1>8, <1>11 DEF Places
      <3>2. ~Finish(u, "debris")
        BY <1>3, <1>9 DEF Outcomes
      <3>. QED
        BY <2>1, <3>1, <3>2 DEF EndClean
    <2>3. up[u].stale = {} /\ S = up[u].stale
      BY <1>2, <2>1, <2>2 DEF Todo, EndClean, Begin, At
    <2>. QED
      BY <2>3
  <1>. QED
    BY <1>3, <1>7, <1>11, <1>12, <1>13, <1>14 DEF LateOK

\* Where a step of the clean-up takes it.
LEMMA CleanLate ==
  ASSUME AInv, LateInv, NoLostCommit, NEW u \in Upload, CleanSteps(u)
  PROVE  LateOK(u)'
  <1>1. TypeOK /\ LateOK(u) /\ StaleOK(u)
    BY DEF AInv, LateInv, StaleInv
  <1>2. up[u].pc \in {"clean", "records"} /\ up[u].outcome = "none"
    BY <1>1 DEF CleanSteps, DeleteRecords, RemoveStale, RemoveStaleFails, At, LateOK
  <1>3. \A s \in up[u].stale : s[1] \in Upload /\ s = <<s[1], s[2]>>
    BY <1>1 DEF TypeOK, UploadState
  <1>4. \A s \in up[u].stale : up'[s[1]].pc \in Late /\ row'[s[1]] \in {"none", s[2]}
                               /\ file'[s[1]] \in {"none", file[s[1]]}
    <2>1. \A k \in Upload : up[k].pc \in Late =>
              /\ up'[k].pc \in Late /\ row'[k] \in {"none", row[k]}
              /\ file'[k] \in {"none", file[k]}
      BY Shrinks
    <2>. QED
      BY <1>1, <1>3, <2>1 DEF LateOK
  <1>5. CASE DeleteRecords(u)
    <2>1. PICK o \in Outcomes : Finish(u, o) /\ (o = "replaced" => up[u].kept = {})
      BY <1>5 DEF DeleteRecords, Outcomes
    <2>2. up'[u].pc = "done" /\ up'[u].stale = up[u].stale /\ up'[u].outcome = o
      BY <1>1, <2>1, FinishBecomes DEF Becomes
    <2>3. up[u].stale \subseteq up[u].removed \cup up[u].kept
      BY <1>1, <1>5 DEF DeleteRecords, At, LateOK
    <2>4. o = "replaced" =>
            \A s \in up[u].stale : file'[s[1]] = "none" /\ row'[s[1]] = "none"
      <3>. SUFFICES ASSUME o = "replaced", NEW s \in up[u].stale
                    PROVE  file'[s[1]] = "none" /\ row'[s[1]] = "none"
        OBVIOUS
      <3>1. s \in up[u].removed
        BY <2>1, <2>3
      <3>2. file[s[1]] = "none" /\ UNCHANGED file
        BY <1>1, <1>5, <3>1 DEF StaleOK, DeleteRecords
      <3>3. row'[s[1]] = "none"
        <4>1. row[s[1]] = "none" \/ <<s[1], row[s[1]]>> = s
          BY <1>1, <1>3 DEF LateOK
        <4>. QED
          BY <1>3, <1>5, <3>1, <4>1 DEF DeleteRecords
      <3>. QED
        BY <3>2, <3>3
    <2>. QED
      BY <1>4, <2>2, <2>4 DEF LateOK, Late
  <1>6. ASSUME NEW s \in up[u].stale, RemoveStale(u, s) \/ RemoveStaleFails(u, s)
        PROVE  LateOK(u)'
    <2>1. /\ up'[u].pc = "clean" /\ up'[u].stale = up[u].stale
          /\ up'[u].outcome = up[u].outcome
      BY <1>1, <1>6, RemoveBecomes DEF Becomes
    <2>. QED
      BY <1>2, <1>4, <2>1 DEF LateOK, Late
  <1>. QED
    BY <1>5, <1>6 DEF CleanSteps

LEMMA UploadSteps ==
  ASSUME NEW u \in Upload, Accept(u) \/ Reject(u) \/ Begin(u) \/ UploadStep(u) \/ Crash(u)
  PROVE  (OwnSteps(u) \/ CleanSteps(u)) /\ UNCHANGED <<put, read>>
  <1>1. OwnSteps(u) \/ CleanSteps(u)
    BY DEF UploadStep, OwnSteps, CleanSteps
  <1>2. UNCHANGED <<put, read>>
    BY DEF Accept, Reject, Begin, Crash, UploadStep, WriteFile, WriteFails, Commit,
       SaveFails, CommitReplyLost, RemoveStale, RemoveStaleFails, EndClean, DeleteRecords,
       DeleteRecordsFails, Undo, UndoFails, SaveMarker, MarkerFails, Others
  <1>. QED
    BY <1>1, <1>2

LEMMA InitLate == ASSUME Init PROVE LateInv
  BY DEF Init, LateInv, LateOK

LEMMA StepLate == ASSUME AInv, LateInv, NoLostCommit, [Next]_vars PROVE LateInv'
  <1>1. ASSUME NEW u \in Upload,
               Accept(u) \/ Reject(u) \/ Begin(u) \/ UploadStep(u) \/ Crash(u)
        PROVE  LateInv'
    <2>1. OwnSteps(u) \/ CleanSteps(u)
      BY <1>1, UploadSteps
    <2>2. LateOK(u)'
      BY <2>1, OwnLate, CleanLate
    <2>3. ASSUME NEW v \in Upload \ {u} PROVE LateOK(v)'
      <3>1. LateOK(v) /\ \A s \in up[v].stale : s[1] \in Upload
        BY DEF LateInv, AInv, TypeOK, UploadState
      <3>2. up'[v] = up[v] /\ row'[v] \in {"none", row[v]}
        BY <2>1, Shrinks
      <3>3. \A s \in up[v].stale :
              /\ up'[s[1]].pc \in Late /\ row'[s[1]] \in {"none", row[s[1]]}
              /\ file'[s[1]] \in {"none", file[s[1]]}
        BY <2>1, <3>1, Shrinks DEF LateOK
      <3>. QED
        BY <3>1, <3>2, <3>3 DEF LateOK
    <2>. QED
      BY <2>2, <2>3 DEF LateInv
  <1>2. CASE \/ \E p \in Put : LoadUser(p) \/ CompareUser(p) \/ UpdateUser(p)
             \/ \E r \in Reader : RequestFile(r) \/ FindAttachment(r) \/ ReadFile(r)
             \/ UNCHANGED vars
    <2>1. UNCHANGED <<row, file, up>>
      BY <1>2 DEF LoadUser, CompareUser, UpdateUser, RequestFile, FindAttachment, ReadFile, vars
    <2>. QED
      BY <2>1 DEF LateInv, LateOK
  <1>. QED
    BY <1>1, <1>2 DEF Next, Done

\* As long as every COMMIT is answered, an upload that reports success has
\* removed every file and row it replaced, whatever earlier clean-ups left and
\* whoever cleans up beside it.
THEOREM SuccessIsClean == ASSUME NoLostCommit PROVE Spec => []RetryCleans
  <1>1. Init => AInv /\ LateInv
    BY InitAInv, InitLate
  <1>2. AInv /\ LateInv /\ [Next]_vars => (AInv /\ LateInv)'
    BY StepAInv, StepLate
  <1>3. LateInv => RetryCleans
    BY DEF LateInv, LateOK, RetryCleans, Ended
  <1>. QED
    BY <1>1, <1>2, <1>3, PTL DEF Spec

-----------------------------------------------------------------------------
(* Readers *)

LEMMA InitGone == ASSUME Init PROVE GoneInv
  BY DEF Init, GoneInv, GoneOK

LEMMA StepGone ==
  ASSUME AInv, BInv, LateInv, GoneInv, Undisturbed, [Next]_vars
  PROVE  GoneInv'
  <1>1. TypeOK /\ NoLostCommit
    BY DEF AInv, Undisturbed, NoLostCommit
  <1>2. ASSUME NEW u \in Upload,
               Accept(u) \/ Reject(u) \/ Begin(u) \/ UploadStep(u) \/ Crash(u)
        PROVE  GoneInv'
    <2>1. (OwnSteps(u) \/ CleanSteps(u)) /\ UNCHANGED <<put, read>>
      BY <1>2, UploadSteps
    <2>2. \A k \in Upload : up[k].pc \in Late =>
            up'[k].pc \in Late /\ file'[k] \in {"none", file[k]}
      BY <1>1, <2>1, Shrinks
    <2>3. image' = image \/ (image' = u /\ up[u].pc \notin Late)
      BY <1>1, <1>2 DEF Accept, Reject, Begin, Crash, UploadStep, WriteFile, WriteFails, Commit,
         Apply, SaveFails, CommitReplyLost, RemoveStale, RemoveStaleFails, EndClean,
         DeleteRecords, DeleteRecordsFails, Undo, UndoFails, SaveMarker, MarkerFails, At, Late
    <2>. QED
      BY <2>1, <2>2, <2>3 DEF GoneInv, GoneOK
  <1>3. ASSUME NEW p \in Put, LoadUser(p) \/ CompareUser(p) \/ UpdateUser(p)
        PROVE  GoneInv'
    <2>1. UNCHANGED <<file, up, read>>
      BY <1>3 DEF LoadUser, CompareUser, UpdateUser
    <2>2. image' \in {image, External}
      BY <1>1, <1>3 DEF LoadUser, CompareUser, UpdateUser, BInv, PutInv
    <2>3. External \notin Upload
      BY NamesAssumption
    <2>. QED
      BY <2>1, <2>2, <2>3 DEF GoneInv, GoneOK
  <1>4. ASSUME NEW r \in Reader, RequestFile(r) \/ FindAttachment(r) \/ ReadFile(r)
        PROVE  GoneInv'
    <2>1. UNCHANGED <<image, row, file, up>> /\ read[r] \in ReadState
          /\ read \in [Reader -> ReadState] /\ GoneOK(r)
      BY <1>1, <1>4 DEF RequestFile, FindAttachment, ReadFile, TypeOK, GoneInv
    <2>2. \A q \in Reader \ {r} : read'[q] = read[q]
      BY <1>4, <2>1 DEF RequestFile, FindAttachment, ReadFile, Answer
    <2>3. GoneOK(r)'
      <3>1. CASE RequestFile(r)
        <4>1. read'[r].pc = "lookup" /\ read'[r].key = image /\ image \in Upload
          BY <2>1, <3>1 DEF RequestFile, ReadState
        <4>2. ImageOK(image)
          BY <4>1 DEF BInv
        <4>. QED
          BY <2>1, <4>1, <4>2 DEF GoneOK, ImageOK, Late
      <3>2. CASE FindAttachment(r)
        <4>1. /\ read[r].pc = "lookup" /\ read[r].key \in Upload /\ read'[r].key = read[r].key
              /\ \/ read'[r].pc = "open"
                 \/ /\ read'[r].pc = "done" /\ read'[r].reply = "404"
                    /\ row[read[r].key] # "avatar"
          BY <2>1, <3>2 DEF FindAttachment, Answer, ReadState, GoneOK
        <4>2. ImageOK(read[r].key)
          BY <4>1 DEF BInv
        <4>. QED
          BY <2>1, <4>1, <4>2 DEF GoneOK, ImageOK
      <3>3. CASE ReadFile(r)
        <4>1. read[r].pc = "open" /\ read[r].key \in Upload /\ file[read[r].key] # "partial"
          BY <2>1, <3>3 DEF ReadFile, GoneOK
        <4>2. file[read[r].key] \in {"none", "whole"}
          BY <1>1, <4>1 DEF TypeOK
        <4>3. /\ read'[r].key = read[r].key /\ read'[r].pc = "done"
              /\ \/ read'[r].reply = "200"
                 \/ read'[r].reply = "404" /\ file[read[r].key] = "none"
          BY <2>1, <3>3, <4>2 DEF ReadFile, Answer, ReadState
        <4>4. ImageOK(read[r].key)
          BY <4>1 DEF BInv
        <4>. QED
          BY <2>1, <4>1, <4>3, <4>4 DEF GoneOK, ImageOK
      <3>. QED
        BY <1>4, <3>1, <3>2, <3>3
    <2>. QED
      BY <2>1, <2>2, <2>3 DEF GoneInv, GoneOK
  <1>5. CASE UNCHANGED vars
    BY <1>5 DEF GoneInv, GoneOK, vars
  <1>. QED
    BY <1>2, <1>3, <1>4, <1>5 DEF Next, Done

\* While every COMMIT is answered and every PUT /user carries an image, a reader
\* gets the whole file, or a 404 that is true: the image it asked for is not
\* the user's any more.
THEOREM ReadersGetTheTruth == ASSUME Undisturbed PROVE Spec => []HonestRead
  <1>. DEFINE All == AInv /\ BInv /\ LateInv /\ GoneInv
  <1>1. Init => All
    BY InitAInv, InitBInv, InitLate, InitGone
  <1>2. All /\ [Next]_vars => All'
    BY StepAInv, StepBInv, StepLate, StepGone DEF Undisturbed, NoLostCommit
  <1>3. All => HonestRead
    BY DEF GoneInv, GoneOK, HonestRead
  <1>. QED
    BY <1>1, <1>2, <1>3, PTL DEF Spec

-----------------------------------------------------------------------------
(* What is left when all is over, if nobody calls PUT /user *)

NoPut == NoLostCommit /\ Put = {}

LEMMA InitChain == ASSUME Init PROVE ChainInv
  BY DEF Init, ChainInv

LEMMA StepChain ==
  ASSUME AInv, BInv, LateInv, ChainInv, NoPut, [Next]_vars
  PROVE  ChainInv'
  <1>1. TypeOK /\ LockInv /\ NoLostCommit
    BY DEF AInv, BInv, NoPut
  <1>2. /\ row \in [Upload -> {"none", "avatar", "marker"}]
        /\ \A v \in Upload : up[v] \in UploadState
    BY <1>1 DEF TypeOK
  <1>3. ASSUME NEW u \in Upload,
               Accept(u) \/ Reject(u) \/ Begin(u) \/ UploadStep(u) \/ Crash(u)
        PROVE  ChainInv'
    <2>1. OwnSteps(u) \/ CleanSteps(u)
      BY <1>3, UploadSteps
    <2>2. /\ \A v \in Upload \ {u} : up'[v] = up[v] /\ row'[v] \in {"none", row[v]}
          /\ \A k \in Upload : up[k].pc \in Late =>
               up'[k].pc \in Late /\ row'[k] \in {"none", row[k]}
      BY <1>1, <2>1, Shrinks
    <2>3. CASE Commit(u)
      <3>1. up'[u].pc = "clean" /\ up'[u].stale = up[u].stale
        BY <1>1, <2>3, GotoBecomes DEF Commit, Becomes, Places
      <3>2. /\ up[u].pc = "save" /\ lock = u /\ image' = u /\ row'[u] = "avatar"
            /\ \A v \in Upload \ {u} : row'[v] = row[v]
        BY <1>1, <1>2, <2>3 DEF Commit, At, LockInv, Apply
      <3>3. \A v \in Upload \ {u} : up'[v].pc \notin {"write", "save"}
        BY <1>1, <2>2, <3>2 DEF LockInv
      <3>. QED
        BY <2>2, <3>1, <3>2, <3>3 DEF ChainInv
    <2>4. CASE ~Commit(u)
      <3>1. image' = image
        BY <1>1, <1>3, <2>4 DEF Accept, Reject, Begin, Crash, UploadStep, WriteFile, WriteFails,
           SaveFails, CommitReplyLost, NoLostCommit, MayFail, RemoveStale, RemoveStaleFails,
           EndClean, DeleteRecords, DeleteRecordsFails, Undo, UndoFails, SaveMarker, MarkerFails
      <3>2. \/ row'[u] \in {"none", row[u]}
            \/ row'[u] = "marker" /\ up'[u].outcome = "marked"
        <4>1. CASE SaveMarker(u)
          BY <1>1, <1>2, <4>1, FinishBecomes DEF SaveMarker, Becomes, Outcomes
        <4>2. CASE ~SaveMarker(u)
          BY <1>1, <1>3, <2>4, <4>2 DEF Accept, Reject, Begin, Crash, UploadStep, WriteFile,
             WriteFails, SaveFails, CommitReplyLost, NoLostCommit, MayFail, RemoveStale,
             RemoveStaleFails, EndClean, DeleteRecords, DeleteRecordsFails, Undo, UndoFails,
             MarkerFails
        <4>. QED
          BY <4>1, <4>2
      <3>3. \A k \in Upload : row'[k] = "avatar" => row[k] = "avatar"
        BY <2>2, <3>2
      <3>4. CASE Begin(u)
        <4>1. /\ up'[u].pc = "write" /\ UNCHANGED row /\ lock = None
              /\ up'[u].stale = {<<k, row[k]>> : k \in {k \in Upload : row[k] # "none"}}
              /\ up'[u].outcome = up[u].outcome
          BY <1>1, <3>4, BeginBecomes DEF Becomes, Begin
        <4>2. \A v \in Upload : up[v].pc \notin {"write", "save"}
          BY <1>1, <4>1, NamesAssumption DEF LockInv
        <4>3. image # u
          BY <3>4 DEF BInv, ImageOK, Begin, At
        <4>4. \A k \in Upload : row[k] = "avatar" => <<k, "avatar">> \in up'[u].stale
          BY <4>1
        <4>. QED
          BY <2>2, <3>1, <4>1, <4>2, <4>3, <4>4 DEF ChainInv
      <3>5. CASE ~Begin(u)
        <4>1. up'[u].stale = up[u].stale
          <5>1. CASE OwnSteps(u)
            BY <1>1, <3>5, <5>1, OwnMoves DEF Becomes
          <5>2. CASE DeleteRecords(u)
            <6>1. PICK o \in Outcomes : Finish(u, o)
              BY <5>2 DEF DeleteRecords, Outcomes
            <6>. QED
              BY <1>1, <6>1, FinishBecomes DEF Becomes
          <5>3. ASSUME NEW s \in up[u].stale, RemoveStale(u, s) \/ RemoveStaleFails(u, s)
                PROVE  up'[u].stale = up[u].stale
            BY <1>1, <5>3, RemoveBecomes DEF Becomes
          <5>. QED
            BY <2>1, <5>1, <5>2, <5>3 DEF CleanSteps
        <4>2. up'[u].pc \in {"write", "save"} => up[u].pc \in {"write", "save"}
          <5>1. LockInv'
            <6>1. CASE OwnSteps(u)
              <7>1. Undisturbed
                BY DEF NoPut, NoLostCommit, Put, Undisturbed
              <7>. QED
                BY <6>1, <7>1, OwnImage
            <6>2. CASE CleanSteps(u)
              BY <6>2, CleanUpImage DEF CleanSteps
            <6>. QED
              BY <2>1, <6>1, <6>2
          <5>2. lock' = lock \/ lock' = None
            BY <1>3, <3>5 DEF Accept, Reject, Crash, UploadStep, WriteFile, WriteFails, Commit,
               SaveFails, CommitReplyLost, RemoveStale, RemoveStaleFails, EndClean,
               DeleteRecords, DeleteRecordsFails, Undo, UndoFails, SaveMarker, MarkerFails,
               Apply, Unlock
          <5>. QED
            BY <1>1, <5>1, <5>2, NamesAssumption DEF LockInv
        <4>3. row'[u] = "marker" => up'[u].outcome = "marked"
          <5>1. CASE row'[u] = row[u] /\ row[u] = "marker"
            <6>1. up[u].outcome = "marked" /\ up[u].pc = "done"
              BY <5>1 DEF ChainInv, LateInv, LateOK
            <6>2. FALSE
              BY <1>3, <6>1 DEF Accept, Reject, Begin, Crash, UploadStep, WriteFile, WriteFails,
                 Commit, SaveFails, CommitReplyLost, RemoveStale, RemoveStaleFails, EndClean,
                 DeleteRecords, DeleteRecordsFails, Undo, UndoFails, SaveMarker, MarkerFails, At
            <6>. QED
              BY <6>2
          <5>. QED
            BY <3>2, <5>1
        <4>4. \A v \in Upload : up'[v].stale = up[v].stale
          BY <2>2, <4>1
        <4>. QED
          BY <2>2, <3>1, <3>3, <4>2, <4>3, <4>4 DEF ChainInv
      <3>. QED
        BY <3>4, <3>5
    <2>. QED
      BY <2>3, <2>4
  <1>4. CASE \/ \E r \in Reader : RequestFile(r) \/ FindAttachment(r) \/ ReadFile(r)
             \/ UNCHANGED vars
    <2>1. UNCHANGED <<row, up, image>>
      BY <1>4 DEF RequestFile, FindAttachment, ReadFile, vars
    <2>. QED
      BY <2>1 DEF ChainInv
  <1>. QED
    BY <1>3, <1>4 DEF Next, Done, NoPut

\* Without PUT /user and lost COMMIT replies: when every upload has ended in
\* success or in an undone failure, in whatever order they committed and cleaned
\* up, exactly the image the user has is stored, one row and one file.
THEOREM ExactlyOneIsLeft == ASSUME NoPut PROVE Spec => []OneAvatarLeft
  <1>. DEFINE All == AInv /\ BInv /\ LateInv /\ ChainInv
  <1>1. Init => All
    BY InitAInv, InitBInv, InitLate, InitChain
  <1>2. All /\ [Next]_vars => All'
    <2>1. Undisturbed /\ NoLostCommit
      BY DEF NoPut, NoLostCommit, Put, Undisturbed
    <2>. QED
      BY <2>1, StepAInv, StepBInv, StepLate, StepChain
  <1>3. All => OneAvatarLeft
    <2>. SUFFICES ASSUME All, \A u \in Upload : u \in Ended("replaced") \cup Ended("failed"),
                         NEW u \in Upload
                  PROVE  (row[u] # "none" <=> image = u) /\ (file[u] # "none" <=> image = u)
      BY DEF OneAvatarLeft
    <2>1. \A v \in Upload : up[v].outcome \in {"replaced", "failed"} /\ up[v].pc = "done"
      BY DEF Ended, LateInv, LateOK
    <2>2. image = u => row[u] = "avatar" /\ file[u] = "whole"
      BY DEF BInv, ImageOK
    <2>3. row[u] # "none" => image = u
      <3>. SUFFICES ASSUME row[u] # "none", image # u PROVE FALSE
        OBVIOUS
      <3>1. row[u] \in {"avatar", "marker"}
        BY DEF AInv, TypeOK
      <3>2. row[u] = "avatar"
        BY <2>1, <3>1 DEF ChainInv
      <3>3. image \in Upload /\ <<u, "avatar">> \in up[image].stale
        BY <3>2 DEF ChainInv
      <3>4. up[image].outcome = "replaced"
        BY <2>1, <3>3 DEF BInv, ImageOK
      <3>5. row[u] = "none"
        BY <3>3, <3>4 DEF LateInv, LateOK
      <3>. QED
        BY <3>5
    <2>4. file[u] # "none" => row[u] # "none"
      BY <2>1 DEF AInv, StageInv, StageOK
    <2>. QED
      BY <2>2, <2>3, <2>4
  <1>. QED
    BY <1>1, <1>2, <1>3, PTL DEF Spec
=============================================================================
