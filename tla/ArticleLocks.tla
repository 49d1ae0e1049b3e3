---------------------------- MODULE ArticleLocks ----------------------------
(***************************************************************************)
(* The transactions behind POST, PUT and DELETE of articles, favorites and *)
(* comments, statement by statement, with the row locks they take in       *)
(* PostgreSQL at READ COMMITTED: FOR UPDATE where the code asks for        *)
(* pessimistic_write, FOR KEY SHARE where an insert checks a foreign key,  *)
(* and the entries of the unique indexes of slugs and tag names.  Writes   *)
(* show when the transaction commits.  A request that waits in a cycle may *)
(* be chosen as the victim of the deadlock detector.                       *)
(***************************************************************************)
EXTENDS ArticleStore

VARIABLES
  pc,       \* where each transaction is
  held,     \* the locks it holds: <<resource, mode>>
  todo,     \* tag names it still has to insert
  draft,    \* the row of its article, as it will leave it
  seen      \* what getBySlug has read so far

tvars == <<pc, held, todo, draft, seen>>
vars == <<svars, tvars>>

Location == {"begin", "viewer", "locked", "slug", "tags", "reading", "ready", "done"}
Favoriting(r) == ask[r].op \in {"favorite", "unfavorite"}
ArticleOf(r) == ask[r].article

Users(u) == <<"user", u>>
Articles(a) == <<"article", a>>
Slugs(a) == <<"slug", a>>
Comments(c) == <<"comment", c>>
Tags(t) == <<"tag", t>>

\* None is not a lock.
ASSUME LockAssumption ==
  \A a \in Article : None # <<Articles(a), "update">> /\ None # <<Slugs(a), "update">>

Goto(r, l) == pc' = [pc EXCEPT ![r] = l]

TypeOK ==
  /\ StoreTypeOK
  /\ pc \in [Request -> Location]
  /\ todo \in [Request -> Seq(Tag)]
  /\ draft \in [Request -> Row \cup {None}]
  /\ DOMAIN held = Request /\ DOMAIN seen = Request
  /\ \A r \in Request : pc[r] = "done" <=> ~IsOpen(r)

Init ==
  /\ StoreInit
  /\ pc = [r \in Request |-> "begin"]
  /\ held = [r \in Request |-> {}]
  /\ todo = [r \in Request |-> <<>>]
  /\ draft = [r \in Request |-> None]
  /\ seen = [r \in Request |-> <<>>]

-----------------------------------------------------------------------------
(* Locks *)

Clash(m, n) == "update" \in {m, n}

\* Mutant: deleting an article locks its author after the article.
WantsAuthorLast(r) ==
  LET q == ask[r] IN
  CASE pc[r] = "begin" /\ Favoriting(r) -> <<Users(q.user), "update">>
    [] pc[r] = "begin" /\ q.op = "create" -> <<Slugs(q.article), "update">>
    [] pc[r] = "begin" /\ q.op \in {"update", "delete", "comment", "uncomment"}
         -> <<Articles(q.article), "update">>
    [] pc[r] = "viewer" -> <<Articles(q.article), "update">>
    [] pc[r] = "slug" \/ (pc[r] = "locked" /\ q.op = "comment") -> <<Users(q.user), "share">>
    [] pc[r] = "locked" /\ q.op = "delete" -> <<Users(q.user), "update">>
    [] pc[r] = "locked" /\ q.op = "uncomment" -> <<Comments(q.comment), "update">>
    [] pc[r] = "tags" /\ todo[r] # <<>> -> <<Tags(Head(todo[r])), "update">>
    [] OTHER -> None

\* The lock its next statement needs, None if it needs none: the viewer or the
\* article FOR UPDATE, the entry of a slug or a tag name, the author of a new
\* article or comment FOR KEY SHARE, the comment to delete.  The rows a deleted
\* article takes with it are only ever locked under its own lock.
Wants(r) ==
  LET q == ask[r] IN
  CASE pc[r] = "begin" /\ Favoriting(r) -> <<Users(q.user), "update">>
    [] pc[r] = "begin" /\ q.op = "create" -> <<Slugs(q.article), "update">>
    [] pc[r] = "begin" /\ q.op \in {"update", "delete", "comment", "uncomment"}
         -> <<Articles(q.article), "update">>
    [] pc[r] = "viewer" -> <<Articles(q.article), "update">>
    [] pc[r] = "slug" \/ (pc[r] = "locked" /\ q.op = "comment") -> <<Users(q.user), "share">>
    [] pc[r] = "locked" /\ q.op = "uncomment" -> <<Comments(q.comment), "update">>
    [] pc[r] = "tags" /\ todo[r] # <<>> -> <<Tags(Head(todo[r])), "update">>
    [] OTHER -> None

\* Mutant: rows are read without a lock.
WaitsForNobody(r) == {}

\* Those whose locks it has to wait for.
WaitsFor(r) ==
  IF Wants(r) = None THEN {}
  ELSE {s \in Request \ {r} :
          \E l \in held[s] : l[1] = Wants(r)[1] /\ Clash(l[2], Wants(r)[2])}

Granted(r) == WaitsFor(r) = {}
Lock(r) == held' = [held EXCEPT ![r] = @ \cup ({Wants(r)} \ {None})]

\* A smallest set of requests each of which waits for another of them.
Stuck(D) == D # {} /\ \A r \in D : WaitsFor(r) \cap D # {}
IsCycle(D) == Stuck(D) /\ \A E \in SUBSET D : Stuck(E) => E = D

-----------------------------------------------------------------------------
(* How a transaction ends *)

\* Mutant: a transaction that is rolled back keeps its locks.
EndLeaks(r, a) ==
  /\ Goto(r, "done")
  /\ AnswerWith(r, a)
  /\ held' = IF a.status = "ok" THEN [held EXCEPT ![r] = {}] ELSE held
  /\ todo' = [todo EXCEPT ![r] = <<>>]
  /\ draft' = [draft EXCEPT ![r] = None]
  /\ seen' = [seen EXCEPT ![r] = <<>>]
  /\ UNCHANGED ask

End(r, a) ==
  /\ Goto(r, "done")
  /\ AnswerWith(r, a)
  /\ held' = [held EXCEPT ![r] = {}]
  /\ todo' = [todo EXCEPT ![r] = <<>>]
  /\ draft' = [draft EXCEPT ![r] = None]
  /\ seen' = [seen EXCEPT ![r] = <<>>]
  /\ UNCHANGED ask

RollBack(r, status) == End(r, Refused(status)) /\ UNCHANGED store

\* Any statement may fail, the connection may break: 500.
Fail(r) == pc[r] # "done" /\ RollBack(r, "failed")

Victim(r) ==
  /\ \E D \in SUBSET Request : r \in D /\ IsCycle(D)
  /\ RollBack(r, "failed")

Changed(r) == Write(r, draft[r], {t \in Tag : <<Tags(t), "update">> \in held[r]})

\* The transaction commits, whether or not its reply arrives.
Commit(r) ==
  /\ pc[r] = "ready"
  /\ Changed(r)
  /\ \/ End(r, Ok(seen[r]))
     \/ End(r, Refused("failed"))

-----------------------------------------------------------------------------
(* Statements *)

\* favorite and unfavorite: the viewer FOR UPDATE.
LockViewer(r) ==
  /\ pc[r] = "begin" /\ Favoriting(r)
  /\ Granted(r)
  /\ Lock(r)
  /\ Goto(r, "viewer")
  /\ UNCHANGED <<svars, todo, draft, seen>>

\* The article FOR UPDATE, as it is once the lock is free; then the owner check.
LockArticle(r) ==
  LET q == ask[r] IN
  /\ \/ pc[r] = "viewer"
     \/ pc[r] = "begin" /\ q.op \in {"update", "delete", "comment", "uncomment"}
  /\ \/ ~Live(q.article) /\ RollBack(r, "notFound")
     \/ /\ Live(q.article) /\ Granted(r)
        /\ IF q.op \in {"update", "delete"} /\ articles[q.article].author # q.user
           THEN RollBack(r, "forbidden")
           ELSE /\ Lock(r)
                /\ Goto(r, "locked")
                /\ draft' = [draft EXCEPT ![r] = articles[q.article]]
                /\ UNCHANGED <<svars, todo, seen>>

\* The insert or delete of a favorite, or the delete of the article.
WriteRow(r) ==
  /\ pc[r] = "locked" /\ ask[r].op \in {"favorite", "unfavorite", "delete"}
  /\ Granted(r) /\ Lock(r)
  /\ draft' = [draft EXCEPT ![r] = Draft(ask[r], articles)]
  /\ Goto(r, IF ask[r].op = "delete" THEN "ready" ELSE "reading")
  /\ UNCHANGED <<svars, todo, seen>>

\* update: save and, unless the tags stay as they are, touchUpdatedAt.
Save(r) ==
  LET new == Updated(draft[r], ask[r]) IN
  /\ pc[r] = "locked" /\ ask[r].op = "update"
  /\ draft' = [draft EXCEPT ![r] = new]
  /\ IF new.tags = draft[r].tags
     THEN Goto(r, "reading") /\ UNCHANGED todo
     ELSE Goto(r, "tags") /\ todo' = [todo EXCEPT ![r] = new.tags]
  /\ UNCHANGED <<svars, held, seen>>

\* create: the index entry of the slug, then the foreign key on the author.
InsertArticle(r) ==
  LET q == ask[r] IN
  /\ pc[r] = "begin" /\ q.op = "create"
  /\ Granted(r)
  /\ IF Live(q.article) THEN RollBack(r, "conflict")
     ELSE /\ Lock(r)
          /\ Goto(r, "slug")
          /\ draft' = [draft EXCEPT ![r] = Created(q)]
          /\ UNCHANGED <<svars, todo, seen>>

CheckAuthor(r) ==
  /\ pc[r] = "slug"
  /\ Granted(r)
  /\ Lock(r)
  /\ Goto(r, "tags")
  /\ todo' = [todo EXCEPT ![r] = draft[r].tags]
  /\ UNCHANGED <<svars, draft, seen>>

\* ensureTagsExist inserts the names in the order of the request, or ignores
\* one that is there: while another transaction is inserting it, it waits.
InsertTag(r) ==
  /\ pc[r] = "tags" /\ todo[r] # <<>>
  /\ Granted(r)
  /\ IF Head(todo[r]) \in tagNames THEN UNCHANGED held
     ELSE Lock(r)
  /\ todo' = [todo EXCEPT ![r] = Tail(@)]
  /\ UNCHANGED <<svars, pc, draft, seen>>

\* replaceArticleTags, insertArticleTagLinks; create answers what it wrote.
LinkTags(r) ==
  /\ pc[r] = "tags" /\ todo[r] = <<>>
  /\ IF ask[r].op = "update"
     THEN Goto(r, "reading") /\ UNCHANGED seen
     ELSE /\ Goto(r, "ready")
          /\ seen' = [seen EXCEPT ![r] = <<draft[r].title, draft[r].tags, 0, FALSE>>]
  /\ UNCHANGED <<svars, held, todo, draft>>

\* The next statement of getBySlug: article, tags, count, favorite.  It sees the
\* committed rows and those of its own transaction.
Read(r) ==
  LET view == View([articles EXCEPT ![ArticleOf(r)] = draft[r]], FavoritesAfter(ask[r]),
                   ask[r].user, ArticleOf(r))
      next == Append(seen[r], view[Len(seen[r]) + 1])
  IN
  /\ pc[r] = "reading"
  /\ seen' = [seen EXCEPT ![r] = next]
  /\ IF Len(next) = 4 THEN Goto(r, "ready") ELSE UNCHANGED pc
  /\ UNCHANGED <<svars, held, todo, draft>>

\* The insert of a comment checks the foreign key on its author.
InsertComment(r) ==
  /\ pc[r] = "locked" /\ ask[r].op = "comment"
  /\ Granted(r)
  /\ Lock(r)
  /\ Goto(r, "ready")
  /\ UNCHANGED <<svars, todo, draft, seen>>

\* The comment of this article FOR UPDATE, its author, its deletion.
DeleteComment(r) ==
  LET found == {c \in comments : c.id = ask[r].comment /\ c.article = ArticleOf(r)} IN
  /\ pc[r] = "locked" /\ ask[r].op = "uncomment"
  /\ Granted(r)
  /\ \/ found = {} /\ RollBack(r, "notFound")
     \/ (\E c \in found : c.author # ask[r].user) /\ RollBack(r, "forbidden")
     \/ /\ \E c \in found : c.author = ask[r].user
        /\ Lock(r)
        /\ Goto(r, "ready")
        /\ UNCHANGED <<svars, todo, draft, seen>>

-----------------------------------------------------------------------------
Statement(r) ==
  \/ LockViewer(r) \/ LockArticle(r) \/ WriteRow(r) \/ Save(r)
  \/ InsertArticle(r) \/ CheckAuthor(r) \/ InsertTag(r) \/ LinkTags(r)
  \/ Read(r) \/ InsertComment(r) \/ DeleteComment(r) \/ Commit(r)

Next == \E r \in Request : Statement(r) \/ Fail(r) \/ Victim(r)

\* PostgreSQL runs the statements it is sent, wakes who waits for a lock, and
\* its deadlock detector ends a cycle; nobody promises that anything fails.
Fairness ==
  /\ \A r \in Request : WF_vars(Statement(r))
  /\ WF_vars(\E r \in Request : Victim(r))

Spec == Init /\ [][Next]_vars /\ Fairness

-----------------------------------------------------------------------------
(* Properties *)

\* Whatever statements interleave, every request takes effect at one moment,
\* and the article, the count and the flag a PUT or a favorite answers with
\* (getBySlug inside the transaction) are those of that moment: updates and
\* favorites are not lost, a comment or a favorite never joins a deleted
\* article, and a 404, 403 or 409 was true when it was given.
ImplementsStore == StoreSpec

\* updated_at moves exactly when the title or the tags of an article change, not
\* with its favorites or comments (applyScalarChanges, touchUpdatedAt).
StampFollowsContent ==
  [][\A a \in Article : Live(a) /\ articles'[a] # None =>
       (articles'[a].stamp # articles[a].stamp <=>
          <<articles'[a].title, articles'[a].tags>> # <<articles[a].title, articles[a].tags>>)]_vars

\* Transactions deadlock in two ways only: on tag names inserted in different
\* orders, and a favorite (user, then article) with a comment (article, then by
\* its foreign key the user).  Deleting never deadlocks.
DeadlocksKnown ==
  \A D \in SUBSET Request : IsCycle(D) =>
    \/ \A r \in D : pc[r] = "tags"
    \/ (\A r \in D : Favoriting(r) \/ ask[r].op = "comment")
       /\ \E r, s \in D : Favoriting(r) /\ ask[s].op = "comment"

\* Every request is answered, those that deadlock included.
RequestsEnd == \A r \in Request : <>(pc[r] = "done")
=============================================================================
