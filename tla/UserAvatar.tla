----------------------------- MODULE UserAvatar -----------------------------
(***************************************************************************)
(* The avatar of one user: concurrent PUT /user/avatar requests            *)
(* (src/auth/user-avatar-handler.ts), which change a users row, attachment *)
(* rows and private files that no transaction spans; PUT /user requests    *)
(* (src/users/user.service.ts), which write the same users row; and        *)
(* GET /files/:id (src/files/file-read-handler.ts).                        *)
(*                                                                         *)
(* An upload names its storage key and, once committed, its attachment:    *)
(* both are fresh UUIDs.  The owner is fixed, since every read and write   *)
(* here is restricted to the owner's rows.                                 *)
(***************************************************************************)
EXTENDS FiniteSets

CONSTANTS
  Upload,     \* avatar uploads
  BioPut,     \* PUT /user requests that carry only a bio
  ImagePut,   \* PUT /user requests that carry an image URL
  Reader,     \* GET /files/:id requests
  External,   \* the image URL an ImagePut carries
  None,       \* no image, no lock, no key
  Faults      \* what may fail

FaultKinds == {"write", "save", "lost commit", "remove", "records", "marker",
               "crash"}

ASSUME FaultsAssumption == Faults \subseteq FaultKinds
ASSUME NamesAssumption ==
  None \notin Upload /\ External \notin Upload /\ None # External

VARIABLES
  image,    \* users.image, committed
  lock,     \* the upload whose transaction holds the users row
  row,      \* the attachments table, by storage key
  file,     \* the private directory, by storage key
  up,       \* the uploads
  put,      \* the PUT /user requests
  read      \* the GET /files/:id requests

vars == <<image, lock, row, file, up, put, read>>

-----------------------------------------------------------------------------
(* State *)

Put == BioPut \cup ImagePut
Image == Upload \cup {External, None}

\* stale: the attachments the upload replaces, as <<key, row>>.  removed and
\* kept: those whose file it has removed, and failed to remove.
UploadState ==
  [pc : {"new", "lock", "write", "save", "clean", "records", "undo", "mark", "done"},
   stale : SUBSET (Upload \X {"avatar", "marker"}),
   removed : SUBSET (Upload \X {"avatar", "marker"}),
   kept : SUBSET (Upload \X {"avatar", "marker"}),
   \* replaced: 200, no debris; debris: 200, some clean-up failed; failed,
   \* marked, unmarked: an error, by what became of the file; crashed: none
   outcome : {"none", "replaced", "debris", "failed", "marked", "unmarked",
              "crashed"}]
PutState == [pc : {"new", "loaded", "compared", "done"},
             entity : Image,     \* image of the entity being saved
             dirty : BOOLEAN]    \* save found that the column differs
ReadState == [pc : {"new", "lookup", "open", "done"},
              key : Upload \cup {None},
              reply : {"none", "200", "404", "500"}]

TypeOK ==
  /\ image \in Image
  /\ lock \in Upload \cup {None}
  /\ row \in [Upload -> {"none", "avatar", "marker"}]
  /\ file \in [Upload -> {"none", "partial", "whole"}]
  /\ up \in [Upload -> UploadState]
  /\ put \in [Put -> PutState]
  /\ read \in [Reader -> ReadState]

Init ==
  /\ image = None
  /\ lock = None
  /\ row = [u \in Upload |-> "none"]
  /\ file = [u \in Upload |-> "none"]
  /\ up = [u \in Upload |-> [pc |-> "new", stale |-> {}, removed |-> {},
                             kept |-> {}, outcome |-> "none"]]
  /\ put = [p \in Put |-> [pc |-> "new", entity |-> None, dirty |-> FALSE]]
  /\ read = [r \in Reader |-> [pc |-> "new", key |-> None, reply |-> "none"]]

At(u, l) == up[u].pc = l
Goto(u, l) == up' = [up EXCEPT ![u].pc = l]
Finish(u, o) == up' = [up EXCEPT ![u].pc = "done", ![u].outcome = o]
MayFail(f) == f \in Faults
\* Mutant: the row stays locked when the transaction is over.
UnlockNever(u) == UNCHANGED lock
Unlock(u) == lock' = IF lock = u THEN None ELSE lock
Others == UNCHANGED <<put, read>>

-----------------------------------------------------------------------------
(* PUT /user/avatar: the transaction *)

\* The file passes getAvatarMediaType and the size limit.
Accept(u) ==
  /\ At(u, "new")
  /\ Goto(u, "lock")
  /\ UNCHANGED <<image, lock, row, file>> /\ Others

\* It does not (422), or the transaction fails before anything is written.
Reject(u) ==
  /\ At(u, "new") \/ (MayFail("save") /\ At(u, "lock"))
  /\ Finish(u, "failed")
  /\ UNCHANGED <<image, lock, row, file>> /\ Others

\* Mutant: no row lock.
BeginUnlocked(u) ==
  /\ At(u, "lock")
  /\ up' = [up EXCEPT ![u].pc = "write",
                      ![u].stale = {<<k, row[k]>> : k \in
                                      {k \in Upload : row[k] # "none"}}]
  /\ UNCHANGED <<image, lock, row, file>> /\ Others

\* SELECT ... FOR UPDATE on the users row, then every attachment of the user.
Begin(u) ==
  /\ At(u, "lock")
  /\ lock = None
  /\ lock' = u
  /\ up' = [up EXCEPT ![u].pc = "write",
                      ![u].stale = {<<k, row[k]>> : k \in
                                      {k \in Upload : row[k] # "none"}}]
  /\ UNCHANGED <<image, row, file>> /\ Others

WriteFile(u) ==
  /\ At(u, "write")
  /\ file' = [file EXCEPT ![u] = "whole"]
  /\ Goto(u, "save")
  /\ UNCHANGED <<image, lock, row>> /\ Others

\* Mutant: the write is not awaited.
WriteUnawaited(u) ==
  /\ MayFail("write")
  /\ At(u, "write")
  /\ file' = [file EXCEPT ![u] = "partial"]
  /\ Goto(u, "save")
  /\ UNCHANGED <<image, lock, row>> /\ Others

\* The write rejects, perhaps with part of the file on disk; roll back.
WriteFails(u) ==
  /\ MayFail("write")
  /\ At(u, "write")
  /\ \E f \in {"none", "partial"} : file' = [file EXCEPT ![u] = f]
  /\ Unlock(u)
  /\ Goto(u, "undo")
  /\ UNCHANGED <<image, row>> /\ Others

\* The attachment and the user are saved and committed together.
Apply(u) ==
  /\ row' = [row EXCEPT ![u] = "avatar"]
  /\ image' = u
  /\ Unlock(u)

\* Mutant: the attachments to replace are listed after the save.
CommitListsLate(u) ==
  /\ At(u, "save")
  /\ Apply(u)
  /\ up' = [up EXCEPT ![u].pc = "clean",
                      ![u].stale = {<<k, row'[k]>> : k \in
                                      {k \in Upload : row'[k] # "none"}}]
  /\ UNCHANGED file /\ Others

Commit(u) ==
  /\ At(u, "save")
  /\ Apply(u)
  /\ Goto(u, "clean")
  /\ UNCHANGED file /\ Others

\* Mutant: the attachment is saved outside of the transaction.
SaveFailsHalfway(u) ==
  /\ MayFail("save")
  /\ At(u, "save")
  /\ row' = [row EXCEPT ![u] = "avatar"]
  /\ Unlock(u)
  /\ Goto(u, "undo")
  /\ UNCHANGED <<image, file>> /\ Others

\* A save or the COMMIT fails and the transaction rolls back.
SaveFails(u) ==
  /\ MayFail("save")
  /\ At(u, "save")
  /\ Unlock(u)
  /\ Goto(u, "undo")
  /\ UNCHANGED <<image, row, file>> /\ Others

\* The COMMIT takes effect but its reply is lost: to the handler, a failure.
CommitReplyLost(u) ==
  /\ MayFail("lost commit")
  /\ At(u, "save")
  /\ Apply(u)
  /\ Goto(u, "undo")
  /\ UNCHANGED file /\ Others

-----------------------------------------------------------------------------
(* After the commit: remove the files, then the rows, it replaced *)

Todo(u) == up[u].stale \ (up[u].removed \cup up[u].kept)

RemoveStale(u, s) ==
  /\ At(u, "clean")
  /\ s \in Todo(u)
  /\ file' = [file EXCEPT ![s[1]] = "none"]
  /\ up' = [up EXCEPT ![u].removed = @ \cup {s}]
  /\ UNCHANGED <<image, lock, row>> /\ Others

\* Mutant: the id is listed before the file is removed.
RemoveStaleListed(u, s) ==
  /\ MayFail("remove")
  /\ At(u, "clean")
  /\ s \in Todo(u)
  /\ up' = [up EXCEPT ![u].removed = @ \cup {s}]
  /\ UNCHANGED <<image, lock, row, file>> /\ Others

RemoveStaleFails(u, s) ==
  /\ MayFail("remove")
  /\ At(u, "clean")
  /\ s \in Todo(u)
  /\ up' = [up EXCEPT ![u].kept = @ \cup {s}]
  /\ UNCHANGED <<image, lock, row, file>> /\ Others

EndClean(u) ==
  /\ At(u, "clean")
  /\ Todo(u) = {}
  /\ IF up[u].removed # {} THEN Goto(u, "records")
     ELSE Finish(u, IF up[u].kept = {} THEN "replaced" ELSE "debris")
  /\ UNCHANGED <<image, lock, row, file>> /\ Others

\* DELETE by attachment id, in a transaction of its own.
DeleteRecords(u) ==
  /\ At(u, "records")
  /\ row' = [k \in Upload |->
               IF <<k, row[k]>> \in up[u].removed THEN "none" ELSE row[k]]
  /\ Finish(u, IF up[u].kept = {} THEN "replaced" ELSE "debris")
  /\ UNCHANGED <<image, lock, file>> /\ Others

DeleteRecordsFails(u) ==
  /\ MayFail("records")
  /\ At(u, "records")
  /\ Finish(u, "debris")
  /\ UNCHANGED <<image, lock, row, file>> /\ Others

-----------------------------------------------------------------------------
(* After an error: remove the file, or leave a marker row for the next upload *)

Undo(u) ==
  /\ At(u, "undo")
  /\ file' = [file EXCEPT ![u] = "none"]
  /\ Finish(u, "failed")
  /\ UNCHANGED <<image, lock, row>> /\ Others

\* Mutant: no marker row.
UndoFailsSilently(u) ==
  /\ MayFail("remove")
  /\ At(u, "undo")
  /\ Finish(u, "failed")
  /\ UNCHANGED <<image, lock, row, file>> /\ Others

UndoFails(u) ==
  /\ MayFail("remove")
  /\ At(u, "undo")
  /\ Goto(u, "mark")
  /\ UNCHANGED <<image, lock, row, file>> /\ Others

\* The foreign key makes the insert wait for the users row.  A row with the
\* same storage key makes it fail, which is logged and ignored.
SaveMarker(u) ==
  /\ At(u, "mark")
  /\ lock = None
  /\ row' = IF row[u] = "none" THEN [row EXCEPT ![u] = "marker"] ELSE row
  /\ Finish(u, "marked")
  /\ UNCHANGED <<image, lock, file>> /\ Others

MarkerFails(u) ==
  /\ MayFail("marker")
  /\ At(u, "mark")
  /\ Finish(u, "unmarked")
  /\ UNCHANGED <<image, lock, row, file>> /\ Others

\* The process dies, perhaps in the middle of a write; PostgreSQL rolls an open
\* transaction back.
Crash(u) ==
  /\ MayFail("crash")
  /\ ~At(u, "new") /\ ~At(u, "done")
  /\ Unlock(u)
  /\ Finish(u, "crashed")
  /\ \/ file' = file
     \/ At(u, "write") /\ file' = [file EXCEPT ![u] = "partial"]
  /\ UNCHANGED <<image, row>> /\ Others

-----------------------------------------------------------------------------
(* PUT /user: findByUsername, then save *)

\* The entity takes the fields present in the request.
LoadUser(p) ==
  /\ put[p].pc = "new"
  /\ put' = [put EXCEPT ![p].pc = "loaded",
               ![p].entity = IF p \in ImagePut THEN External ELSE image]
  /\ UNCHANGED <<image, lock, row, file, up, read>>

\* save reads the row again and keeps the columns that differ.
CompareUser(p) ==
  /\ put[p].pc = "loaded"
  /\ put' = [put EXCEPT ![p].pc = "compared",
                        ![p].dirty = put[p].entity # image]
  /\ UNCHANGED <<image, lock, row, file, up, read>>

\* UPDATE of those columns; it waits for the row.
UpdateUser(p) ==
  /\ put[p].pc = "compared"
  /\ lock = None
  /\ image' = IF put[p].dirty THEN put[p].entity ELSE image
  /\ put' = [put EXCEPT ![p].pc = "done"]
  /\ UNCHANGED <<lock, row, file, up, read>>

-----------------------------------------------------------------------------
(* GET /files/:id for the attachment the user's image names *)

RequestFile(r) ==
  /\ read[r].pc = "new"
  /\ image \in Upload
  /\ read' = [read EXCEPT ![r].pc = "lookup", ![r].key = image]
  /\ UNCHANGED <<image, lock, row, file, up, put>>

Answer(r, a) == read' = [read EXCEPT ![r].pc = "done", ![r].reply = a]

FindAttachment(r) ==
  /\ read[r].pc = "lookup"
  /\ IF row[read[r].key] = "avatar" THEN read' = [read EXCEPT ![r].pc = "open"]
     ELSE Answer(r, "404")
  /\ UNCHANGED <<image, lock, row, file, up, put>>

\* ENOENT is 404, a length other than byte_size is 500.
ReadFile(r) ==
  /\ read[r].pc = "open"
  /\ Answer(r, CASE file[read[r].key] = "none" -> "404"
                 [] file[read[r].key] = "partial" -> "500"
                 [] file[read[r].key] = "whole" -> "200")
  /\ UNCHANGED <<image, lock, row, file, up, put>>

-----------------------------------------------------------------------------
\* What one upload does once its transaction has begun.
UploadStep(u) ==
  \/ WriteFile(u) \/ WriteFails(u)
  \/ Commit(u) \/ SaveFails(u) \/ CommitReplyLost(u)
  \/ \E s \in up[u].stale : RemoveStale(u, s) \/ RemoveStaleFails(u, s)
  \/ EndClean(u) \/ DeleteRecords(u) \/ DeleteRecordsFails(u)
  \/ Undo(u) \/ UndoFails(u) \/ SaveMarker(u) \/ MarkerFails(u)

Done ==
  /\ \A u \in Upload : At(u, "done")
  /\ \A p \in Put : put[p].pc = "done"
  /\ UNCHANGED vars

Next ==
  \/ \E u \in Upload : Accept(u) \/ Reject(u) \/ Begin(u) \/ UploadStep(u) \/ Crash(u)
  \/ \E p \in Put : LoadUser(p) \/ CompareUser(p) \/ UpdateUser(p)
  \/ \E r \in Reader : RequestFile(r) \/ FindAttachment(r) \/ ReadFile(r)
  \/ Done

Spec == Init /\ [][Next]_vars

\* Awaited file and database calls return; the row lock is granted in turn.
FairSpec ==
  /\ Spec
  /\ \A u \in Upload :
       WF_vars(UploadStep(u)) /\ SF_vars(Begin(u)) /\ SF_vars(SaveMarker(u))

-----------------------------------------------------------------------------
(* Properties *)

Ended(o) == {u \in Upload : up[u].outcome = o}

\* While no COMMIT loses its reply and no PUT /user writes the row, the avatar
\* the user's image names can be read: no other upload's clean-up, no failure
\* and no crash ever takes its row or its file away.
ImageIsReadable ==
  image \in Upload => row[image] = "avatar" /\ file[image] = "whole"

\* An upload answered with an error has changed neither the user nor the
\* attachments that can be read (README: "500 if avatar persistence fails").
FailureChangesNothing ==
  \A u \in Ended("failed") \cup Ended("marked") \cup Ended("unmarked") :
    image # u /\ row[u] # "avatar"

\* No file is left behind without a row by which a later upload finds it,
\* unless the process died or the marker itself could not be saved.
NoStrandedFile ==
  \A u \in Upload :
    At(u, "done") /\ file[u] # "none" => \/ row[u] # "none"
                                        \/ u \in Ended("crashed") \cup Ended("unmarked")

\* Whatever fails, and whoever writes the users row: an attachment a reader can
\* find is never a partly written file, so a read is never answered 500.
NoTornFile == \A u \in Upload : row[u] = "avatar" => file[u] # "partial"

\* The next upload retries what earlier clean-ups left: one that ends without
\* a failure of its own has removed every file and row it found.
RetryCleans ==
  \A u \in Ended("replaced") : \A s \in up[u].stale :
    file[s[1]] = "none" /\ row[s[1]] = "none"

\* When all is over and nothing was left to retry, exactly the current avatar
\* is stored, in whatever order concurrent uploads committed and cleaned up.
OneAvatarLeft ==
  (\A u \in Upload : u \in Ended("replaced") \cup Ended("failed")) =>
    \A u \in Upload : (row[u] # "none" <=> image = u) /\ (file[u] # "none" <=> image = u)

\* A reader gets the whole avatar, or 404 because a newer one has replaced it;
\* never part of a file.
HonestRead ==
  \A r \in Reader : read[r].pc = "done" =>
    \/ read[r].reply = "200"
    \/ read[r].reply = "404" /\ image # read[r].key

\* An upload that waits for the users row, or for anything after it, ends.
UploadsEnd == \A u \in Upload : At(u, "lock") ~> At(u, "done")

\* PUT /user changes the fields the request carries and no other
\* (plans/reports/researcher-260910-0930-api-contract-risks.md, point 5).
OnlyPresentFields ==
  [][\A p \in BioPut : put[p].pc = "compared" /\ put'[p].pc = "done"
                          => image' = image]_vars

\* Undoing a failed upload never removes a file the user's avatar needs (the
\* comment on the upload's key: it "is unique per upload, so cleanup is safe").
CleanupIsSafe ==
  [][\A u \in Upload : At(u, "undo") /\ file'[u] # file[u] => image # u]_vars
=============================================================================
