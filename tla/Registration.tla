---------------------------- MODULE Registration ----------------------------
(***************************************************************************)
(* POST /users: concurrent registration transactions over the tables users *)
(* and welcome_mail_outbox (src/auth/auth.service.ts, register).  Each     *)
(* looks the username and the email up, then inserts; the lookups of one   *)
(* interleave with the inserts and commits of the others, and only the     *)
(* unique indexes decide.  PostgreSQL is modelled from the migration and   *)
(* the error handling: an insert waits for an open transaction that holds  *)
(* the same key and fails with 23505 once it has committed.                *)
(***************************************************************************)
CONSTANTS Request,    \* register requests; a request also names its user
          Username,
          Email

VARIABLES
  form,     \* the credentials each request carries
  pc,       \* where each request is
  held,     \* what each open transaction has inserted: entries of the unique
            \* indexes, by field, and the outbox row
  users,    \* committed rows of users
  outbox,   \* committed rows of welcome_mail_outbox, by user
  reply     \* what each client was told

vars == <<form, pc, held, users, outbox, reply>>

Field == {"username", "email"}
Form == [username : Username, email : Email]
Write == Field \cup {"outbox"}
Reply == {"none", "created", "failed"} \cup Field
Location == {"new", "check username", "check email", "insert username",
             "insert email", "insert outbox", "commit", "done"}

TypeOK ==
  /\ form \in [Request -> Form]
  /\ pc \in [Request -> Location]
  /\ held \in [Request -> SUBSET Write]
  /\ users \subseteq Request
  /\ outbox \subseteq Request
  /\ reply \in [Request -> Reply]

Init ==
  /\ form \in [Request -> Form]
  /\ pc = [q \in Request |-> "new"]
  /\ held = [q \in Request |-> {}]
  /\ users = {}
  /\ outbox = {}
  /\ reply = [q \in Request |-> "none"]

Open(q) == pc[q] \notin {"new", "done"}
Taken(q, f) == \E u \in users \ {q} : form[u][f] = form[q][f]
Goto(q, l) == pc' = [pc EXCEPT ![q] = l]

\* Mutant: a transaction that failed is never rolled back and keeps its keys.
FinishLeaks(q, r) ==
  /\ Goto(q, "done")
  /\ UNCHANGED held
  /\ reply' = [reply EXCEPT ![q] = r]

\* The transaction ends and the client gets its answer.
Finish(q, r) ==
  /\ Goto(q, "done")
  /\ held' = [held EXCEPT ![q] = {}]
  /\ reply' = [reply EXCEPT ![q] = r]

RollBack(q, r) == Finish(q, r) /\ UNCHANGED <<form, users, outbox>>

-----------------------------------------------------------------------------
Begin(q) ==
  /\ pc[q] = "new"
  /\ Goto(q, "check username")
  /\ UNCHANGED <<form, held, users, outbox, reply>>

\* Mutant: the conflict always names the email.
AssertAvailableEmail(q, f, next) ==
  \/ Taken(q, f) /\ RollBack(q, "email")
  \/ ~Taken(q, f) /\ Goto(q, next) /\ UNCHANGED <<form, held, users, outbox, reply>>

\* assertAvailable: a lookup that sees committed users only.
AssertAvailable(q, f, next) ==
  \/ Taken(q, f) /\ RollBack(q, f)
  \/ ~Taken(q, f) /\ Goto(q, next) /\ UNCHANGED <<form, held, users, outbox, reply>>

CheckUsername(q) ==
  /\ pc[q] = "check username"
  /\ AssertAvailable(q, "username", "check email")

\* The password is hashed before the insert: others move on meanwhile.
CheckEmail(q) ==
  /\ pc[q] = "check email"
  /\ AssertAvailable(q, "email", "insert username")

\* Mutant: no unique index.
InsertUnchecked(q, f, next) ==
  /\ held' = [held EXCEPT ![q] = @ \cup {f}]
  /\ Goto(q, next)
  /\ UNCHANGED <<form, users, outbox, reply>>

\* Mutant: getDuplicateField does not know the constraint.
InsertNamesBody(q, f, next) ==
  IF Taken(q, f) THEN RollBack(q, "body") ELSE InsertUnchecked(q, f, next)

\* An entry in the unique index of f.  A duplicate rolls back with 409 and the
\* field getDuplicateField reads from the constraint's name.
InsertKey(q, f, next) ==
  /\ \A p \in Request \ {q} : f \in held[p] => form[p][f] # form[q][f]
  /\ \/ Taken(q, f) /\ RollBack(q, f)
     \/ /\ ~Taken(q, f)
        /\ held' = [held EXCEPT ![q] = @ \cup {f}]
        /\ Goto(q, next)
        /\ UNCHANGED <<form, users, outbox, reply>>

\* INSERT INTO users fills the indexes in the order they were created.
InsertUsername(q) ==
  /\ pc[q] = "insert username"
  /\ InsertKey(q, "username", "insert email")

InsertEmail(q) ==
  /\ pc[q] = "insert email"
  /\ InsertKey(q, "email", "insert outbox")

\* Mutant: the outbox row is saved outside of the transaction.
InsertOutboxAlone(q) ==
  /\ pc[q] = "insert outbox"
  /\ outbox' = outbox \cup {q}
  /\ Goto(q, "commit")
  /\ UNCHANGED <<form, held, users, reply>>

InsertOutbox(q) ==
  /\ pc[q] = "insert outbox"
  /\ held' = [held EXCEPT ![q] = @ \cup {"outbox"}]
  /\ Goto(q, "commit")
  /\ UNCHANGED <<form, users, outbox, reply>>

\* COMMIT publishes what the transaction has inserted.  When its reply is lost the client is told
\* 500 of a registration that took place.
Commit(q) ==
  /\ pc[q] = "commit"
  /\ users' = IF Field \subseteq held[q] THEN users \cup {q} ELSE users
  /\ outbox' = IF "outbox" \in held[q] THEN outbox \cup {q} ELSE outbox
  /\ \E r \in {"created", "failed"} : Finish(q, r)
  /\ UNCHANGED form

\* Any other database error, or a crash: rolled back, 500 or no answer.
Fail(q) == Open(q) /\ RollBack(q, "failed")

Step(q) ==
  \/ CheckUsername(q) \/ CheckEmail(q) \/ InsertUsername(q)
  \/ InsertEmail(q) \/ InsertOutbox(q) \/ Commit(q)

Done == (\A q \in Request : pc[q] = "done") /\ UNCHANGED vars

Next == Done \/ \E q \in Request : Begin(q) \/ Step(q) \/ Fail(q)

Spec == Init /\ [][Next]_vars

\* An awaited statement returns; one that waits for a key returns once the
\* key's holder has finished.
FairSpec == Spec /\ \A q \in Request : WF_vars(Step(q))

-----------------------------------------------------------------------------
(* Properties *)

\* Two lookups that both found a name free never both register it.
UniqueUsers ==
  \A u, v \in users : u # v => /\ form[u].username # form[v].username
                               /\ form[u].email # form[v].email

\* A user is committed with an outbox row or not at all: nobody registers
\* without a welcome mail owed, and none is owed for a registration that failed
\* (README: "in the same database transaction as the user").
UserWithMail == users = outbox

\* A client told "created" has an account; one told that a field is taken has
\* none, and a committed user does hold that value, however the lookup raced.
HonestReply ==
  \A q \in Request :
    /\ reply[q] = "created" => q \in users
    /\ reply[q] \in Field => q \notin users /\ Taken(q, reply[q])

\* Transactions that wait for each other's keys never wait in a circle, and a
\* rollback hands its keys on: every request that began is answered.
EveryRequestAnswered == \A q \in Request : Open(q) ~> reply[q] # "none"

-----------------------------------------------------------------------------
(* The inductive invariant *)

\* What a transaction has inserted, by where it is.
ProgressInv ==
  \A q \in Request :
    /\ ~Open(q) => held[q] = {}
    /\ pc[q] = "insert email" => "username" \in held[q]
    /\ pc[q] \in {"insert outbox", "commit"} => Field \subseteq held[q]
    /\ pc[q] = "commit" => "outbox" \in held[q]
    /\ q \in users \/ reply[q] # "none" => pc[q] = "done"

\* An entry of a unique index is one transaction's, and no committed user has it.
KeyInv ==
  \A q \in Request : \A f \in Field \cap held[q] :
    /\ \A p \in Request \ {q} : f \in held[p] => form[p][f] # form[q][f]
    /\ \A u \in users : form[u][f] # form[q][f]

\* What makes the safety properties above inductive.
RInv ==
  /\ TypeOK
  /\ ProgressInv
  /\ KeyInv
  /\ UniqueUsers
  /\ UserWithMail
  /\ HonestReply

=============================================================================
