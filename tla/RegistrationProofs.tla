------------------------- MODULE RegistrationProofs -------------------------
(***************************************************************************)
(* Proofs about Registration, for any requests and names: its safety       *)
(* properties, from the invariant RInv.                                    *)
(***************************************************************************)
EXTENDS Registration, TLAPS

\* A transaction that ends with nothing published keeps the invariant, when
\* what the client is told is true.
LEMMA RolledBack ==
  ASSUME RInv, NEW q \in Request, Open(q), NEW r \in Reply, RollBack(q, r),
         r # "created",
         r \in Field => Taken(q, r)
  PROVE  RInv'
<1>1. /\ pc' \in [Request -> Location] /\ pc'[q] = "done"
      /\ held' \in [Request -> SUBSET Write] /\ held'[q] = {}
      /\ reply' \in [Request -> Reply] /\ reply'[q] = r
      /\ \A p \in Request \ {q} : /\ pc'[p] = pc[p] /\ held'[p] = held[p]
                                  /\ reply'[p] = reply[p]
      /\ UNCHANGED <<form, users, outbox>>
      /\ q \notin users
  BY DEF RInv, TypeOK, RollBack, Finish, Goto, Location, ProgressInv, Open
<1>2. TypeOK'
  BY <1>1 DEF RInv, TypeOK
<1>3. ProgressInv'
  BY <1>1 DEF RInv, ProgressInv, Open
<1>4. KeyInv'
  BY <1>1 DEF RInv, KeyInv
<1>5. UniqueUsers' /\ UserWithMail'
  BY <1>1 DEF RInv, UniqueUsers, UserWithMail
<1>6. HonestReply'
  BY <1>1 DEF RInv, HonestReply, Taken
<1> QED
  BY <1>2, <1>3, <1>4, <1>5, <1>6 DEF RInv

\* No other open transaction, and no committed user, has q's value of f.
Free(q, f) ==
  /\ \A p \in Request \ {q} : f \in held[p] => form[p][f] # form[q][f]
  /\ \A u \in users : form[u][f] # form[q][f]

\* A transaction that moves on, perhaps with one more insert, keeps the
\* invariant when a key it inserts is free.
LEMMA MovedOn ==
  ASSUME RInv, NEW q \in Request, NEW l \in Location, Goto(q, l),
         pc[q] # "done", l \notin {"new", "done"},
         held' \in [Request -> SUBSET Write],
         \A p \in Request \ {q} : held'[p] = held[p],
         \A f \in Field : f \in held'[q] => f \in held[q] \/ Free(q, f),
         form' = form, users' = users, outbox' = outbox, reply' = reply,
         l = "insert email" => "username" \in held'[q],
         l \in {"insert outbox", "commit"} => Field \subseteq held'[q],
         l = "commit" => "outbox" \in held'[q]
  PROVE  RInv'
<1>1. /\ pc' \in [Request -> Location] /\ pc'[q] = l
      /\ \A p \in Request \ {q} : pc'[p] = pc[p]
      /\ q \notin users /\ reply[q] = "none"
  BY DEF RInv, TypeOK, Goto, ProgressInv
<1>2. TypeOK'
  BY <1>1 DEF RInv, TypeOK
<1>3. ProgressInv'
  BY <1>1 DEF RInv, ProgressInv, Open
<1>4. KeyInv'
  <2>1. \A f \in Field \cap held'[q] : Free(q, f)
    BY DEF RInv, KeyInv, Free
  <2>2. ASSUME NEW p \in Request, NEW f \in Field \cap held'[p]
        PROVE  /\ \A s \in Request \ {p} : f \in held'[s] => form[s][f] # form[p][f]
               /\ \A u \in users : form[u][f] # form[p][f]
    <3>1. CASE p = q
      BY <2>1, <3>1, <2>2 DEF Free
    <3>2. CASE p # q
      BY <2>1, <3>2, <2>2 DEF Free, RInv, KeyInv
    <3> QED
      BY <3>1, <3>2
  <2> QED
    BY <2>2 DEF KeyInv
<1>5. UniqueUsers' /\ UserWithMail'
  <2>1. UniqueUsers /\ UserWithMail /\ UNCHANGED <<form, users, outbox>>
    BY DEF RInv
  <2> QED
    BY <2>1 DEF UniqueUsers, UserWithMail
<1>6. HonestReply'
  BY DEF RInv, HonestReply, Taken
<1> QED
  BY <1>2, <1>3, <1>4, <1>5, <1>6 DEF RInv

\* A commit publishes a user whose keys nobody else has, and its outbox row.
LEMMA Committed ==
  ASSUME RInv, NEW q \in Request, Commit(q)
  PROVE  RInv'
<1>1. PICK r \in {"created", "failed"} : Finish(q, r)
  BY DEF Commit
<1>2. /\ pc' \in [Request -> Location] /\ pc'[q] = "done"
      /\ held' \in [Request -> SUBSET Write] /\ held'[q] = {}
      /\ reply' \in [Request -> Reply] /\ reply'[q] = r
      /\ \A p \in Request \ {q} : /\ pc'[p] = pc[p] /\ held'[p] = held[p]
                                  /\ reply'[p] = reply[p]
  BY <1>1 DEF RInv, TypeOK, Finish, Goto, Location, Reply
<1>3. /\ pc[q] = "commit" /\ Field \subseteq held[q] /\ q \notin users
      /\ users' = users \cup {q} /\ outbox' = outbox \cup {q}
      /\ UNCHANGED form
  BY DEF RInv, ProgressInv, Commit
<1>4. \A f \in Field : /\ \A u \in users : form[u][f] # form[q][f]
                       /\ \A p \in Request \ {q} : f \in held[p] => form[p][f] # form[q][f]
  BY <1>3 DEF RInv, KeyInv
<1>5. TypeOK'
  BY <1>2, <1>3 DEF RInv, TypeOK
<1>6. ProgressInv'
  BY <1>2, <1>3 DEF RInv, ProgressInv, Open
<1>7. KeyInv'
  <2>1. ASSUME NEW p \in Request, NEW f \in Field \cap held'[p]
        PROVE  /\ \A s \in Request \ {p} : f \in held'[s] => form[s][f] # form[p][f]
               /\ \A u \in users' : form[u][f] # form[p][f]
    BY <1>2, <1>3, <1>4, <2>1 DEF RInv, KeyInv
  <2> QED
    BY <1>3, <2>1 DEF KeyInv
<1>8. UniqueUsers'
  <2>1. "username" \in Field /\ "email" \in Field
    BY DEF Field
  <2>2. \A u \in users : /\ form[u]["username"] # form[q]["username"]
                         /\ form[u]["email"] # form[q]["email"]
    BY <1>4, <2>1
  <2> QED
    BY <1>3, <2>2 DEF RInv, UniqueUsers
<1>9. UserWithMail'
  BY <1>3 DEF RInv, UserWithMail
<1>10. HonestReply'
  <2>1. ASSUME NEW p \in Request
        PROVE  /\ reply'[p] = "created" => p \in users'
               /\ reply'[p] \in Field => p \notin users' /\ Taken(p, reply[p])'
    <3>1. CASE p = q
      BY <1>2, <1>3, <3>1 DEF Field
    <3>2. CASE p # q
      <4>1. /\ reply'[p] = reply[p] /\ (p \in users' <=> p \in users)
            /\ users \subseteq users' /\ form' = form
        BY <1>2, <1>3, <3>2
      <4> QED
        BY <4>1 DEF RInv, HonestReply, Taken
    <3> QED
      BY <3>1, <3>2
  <2> QED
    BY <2>1 DEF HonestReply
<1> QED
  BY <1>5, <1>6, <1>7, <1>8, <1>9, <1>10 DEF RInv

\* A lookup.
LEMMA LookedUp ==
  ASSUME RInv, NEW q \in Request, Open(q), NEW f \in Field,
         NEW l \in {"check email", "insert username"}, AssertAvailable(q, f, l)
  PROVE  RInv'
<1>1. CASE Taken(q, f) /\ RollBack(q, f)
  BY <1>1, RolledBack DEF Reply, Field
<1>2. CASE Goto(q, l) /\ UNCHANGED <<form, held, users, outbox, reply>>
  BY <1>2, MovedOn DEF Location, Open, RInv, TypeOK
<1> QED
  BY <1>1, <1>2 DEF AssertAvailable

\* An insert into a unique index.
LEMMA InsertedKey ==
  ASSUME RInv, NEW q \in Request, NEW f \in Field, NEW l \in Location,
         InsertKey(q, f, l),
         \/ pc[q] = "insert username" /\ f = "username" /\ l = "insert email"
         \/ pc[q] = "insert email" /\ f = "email" /\ l = "insert outbox"
  PROVE  RInv'
<1>1. CASE Taken(q, f) /\ RollBack(q, f)
  BY <1>1, RolledBack DEF Reply, Field, Open
<1>2. CASE /\ ~Taken(q, f)
           /\ held' = [held EXCEPT ![q] = @ \cup {f}]
           /\ Goto(q, l)
           /\ UNCHANGED <<form, users, outbox, reply>>
  <2>1. Free(q, f)
    BY <1>2 DEF InsertKey, Free, Taken, RInv, ProgressInv
  <2>2. /\ held' \in [Request -> SUBSET Write] /\ held'[q] = held[q] \cup {f}
        /\ \A p \in Request \ {q} : held'[p] = held[p]
    BY <1>2 DEF Write, RInv, TypeOK
  <2>3. l = "insert outbox" => Field \subseteq held'[q]
    BY <2>2 DEF RInv, ProgressInv, Field
  <2> QED
    BY <1>2, <2>1, <2>2, <2>3, MovedOn
<1> QED
  BY <1>1, <1>2 DEF InsertKey

\* Every step keeps the invariant.
LEMMA StepRInv == RInv /\ [Next]_vars => RInv'
<1> SUFFICES ASSUME RInv, [Next]_vars PROVE RInv'
  OBVIOUS
<1>1. ASSUME NEW q \in Request, Begin(q) PROVE RInv'
  BY <1>1, MovedOn DEF Begin, Location, RInv, TypeOK
<1>2. ASSUME NEW q \in Request, CheckUsername(q) \/ CheckEmail(q) PROVE RInv'
  BY <1>2, LookedUp DEF CheckUsername, CheckEmail, Open, Field
<1>3. ASSUME NEW q \in Request, InsertUsername(q) \/ InsertEmail(q) PROVE RInv'
  BY <1>3, InsertedKey DEF InsertUsername, InsertEmail, Field, Location
<1>4. ASSUME NEW q \in Request, InsertOutbox(q) PROVE RInv'
  <2>1. /\ held' \in [Request -> SUBSET Write] /\ held'[q] = held[q] \cup {"outbox"}
        /\ \A p \in Request \ {q} : held'[p] = held[p]
        /\ Field \subseteq held[q]
    BY <1>4 DEF InsertOutbox, Write, RInv, TypeOK, ProgressInv
  <2>2. "outbox" \notin Field
    BY DEF Field
  <2> QED
    BY <1>4, <2>1, <2>2, MovedOn DEF InsertOutbox, Location
<1>5. ASSUME NEW q \in Request, Commit(q) PROVE RInv'
  BY <1>5, Committed
<1>6. ASSUME NEW q \in Request, Fail(q) PROVE RInv'
  BY <1>6, RolledBack DEF Fail, Reply, Field
<1>7. CASE UNCHANGED vars
  <2>1. UNCHANGED <<form, pc, held, users, outbox, reply>>
    BY <1>7 DEF vars
  <2>2. TypeOK' /\ ProgressInv' /\ KeyInv'
    BY <2>1 DEF RInv, TypeOK, ProgressInv, KeyInv, Open
  <2>3. UniqueUsers' /\ UserWithMail' /\ HonestReply'
    BY <2>1 DEF RInv, UniqueUsers, UserWithMail, HonestReply, Taken
  <2> QED
    BY <2>2, <2>3 DEF RInv
<1> QED
  BY <1>1, <1>2, <1>3, <1>4, <1>5, <1>6, <1>7 DEF Next, Step, Done

\* The invariant holds in every reachable state.
THEOREM Invariance == Spec => []RInv
<1>1. Init => RInv
  BY DEF Init, RInv, TypeOK, ProgressInv, KeyInv, UniqueUsers, UserWithMail,
         HonestReply, Open, Location, Reply, Field
<1> QED
  BY <1>1, StepRInv, PTL DEF Spec

\* Every variable keeps its type.
THEOREM TypeCorrect == Spec => []TypeOK
<1>1. RInv => TypeOK
  BY DEF RInv
<1> QED
  BY <1>1, Invariance, PTL

\* However many registrations race, two users never share a name or an email.
THEOREM NoDuplicateUsers == Spec => []UniqueUsers
<1>1. RInv => UniqueUsers
  BY DEF RInv
<1> QED
  BY <1>1, Invariance, PTL

\* The users and the welcome mails owed are the same.
THEOREM MailForEveryUser == Spec => []UserWithMail
<1>1. RInv => UserWithMail
  BY DEF RInv
<1> QED
  BY <1>1, Invariance, PTL

\* A client told of success has an account; one told of a conflict has none,
\* and the conflict exists.
THEOREM RepliesAreTrue == Spec => []HonestReply
<1>1. RInv => HonestReply
  BY DEF RInv
<1> QED
  BY <1>1, Invariance, PTL

=============================================================================
