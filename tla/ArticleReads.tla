---------------------------- MODULE ArticleReads ----------------------------
(***************************************************************************)
(* GET of an article, of the lists and feeds of articles and of comments,  *)
(* while the writes of ArticleStore and follows and unfollows take place   *)
(* between their statements.  Only the list of comments reads in one       *)
(* transaction (REPEATABLE READ); everything else is a statement, hence a  *)
(* snapshot, of its own.                                                   *)
(***************************************************************************)
EXTENDS ArticleStore

CONSTANTS
  Reader,     \* reading requests
  Query,      \* what they may ask for
  Stranger,   \* the username of a valid token that no row of users has any more
  Newest      \* every slug, by created_at and id, newest first

\* Nobody is called None, and validation lets through an article and a page.
ASSUME ReadsAssumption ==
  /\ Newest \in Seq(Article) /\ ToSet(Newest) = Article /\ IsInjective(Newest)
  /\ None \notin User
  /\ \A q \in Query : /\ q.kind \in {"list", "feed", "detail", "comments"}
                     /\ q.offset \in Nat /\ q.limit \in Nat

VARIABLES
  follows,    \* rows of user_follows: <<follower, following>>
  query,      \* what each reader asks for
  at,         \* how far it has got
  got,        \* what its statements have returned
  could       \* what one snapshot would have answered, at each moment since it began

rvars == <<query, at, got>>
vars == <<svars, follows, rvars, could>>

Part == {"tags", "favorites", "follows"}
Listing(q) == q.kind \in {"list", "feed"}
Active(r) == at[r] \notin {"begin", "done"}
HasViewer(q) == q.viewer # None

-----------------------------------------------------------------------------
(* What the statements return *)

\* addFilters: the filters are combined with AND.
Matches(q, a) ==
  /\ Live(a)
  /\ q.author # None => articles[a].author = q.author
  /\ q.tag # None => Contains(articles[a].tags, q.tag)
  /\ q.favorited # None => <<q.favorited, a>> \in favorites
  /\ q.kind = "feed" => <<q.viewer, articles[a].author>> \in follows

Matching(q) == {a \in Article : Matches(q, a)}

\* ORDER BY created_at DESC, id DESC: the place of a in a list of the articles in S.
Rank == [a \in Article |-> CHOOSE i \in DOMAIN Newest : Newest[i] = a]
Place(S, a) == Cardinality({b \in S : Rank[b] <= Rank[a]})
InOrder(S) == [i \in 1..Cardinality(S) |-> CHOOSE a \in S : Place(S, a) = i]

Smaller(m, n) == IF m < n THEN m ELSE n
Window(q, s) == SubSeq(s, q.offset + 1, Smaller(q.offset + q.limit, Len(s)))

TagsOf(a) == IF Live(a) THEN articles[a].tags ELSE <<>>
Count(a) == Cardinality({f \in favorites : f[2] = a})
FavoritesOf(q, a) == <<Count(a), <<q.viewer, a>> \in favorites>>
CommentsOf(a) == {c \in comments : c.article = a}
Followed(q) == {u \in User : <<q.viewer, u>> \in follows}

\* Mutant: an article without favorites, for which the grouped statement returns
\* no row, gets no default.
ItemUndefaulted(head, tags, favs, authors) ==
  [head |-> head, tags |-> tags, favs |-> IF favs[1] = 0 THEN None ELSE favs,
   following |-> head.author \in authors]

\* One article of an answer, put together from what the statements returned.
Item(head, tags, favs, authors) ==
  [head |-> head, tags |-> tags, favs |-> favs, following |-> head.author \in authors]

\* The columns of the article itself.
Head_(a) == [slug |-> a, title |-> articles[a].title, author |-> articles[a].author]
Now(q, a) == [head |-> Head_(a), tags |-> TagsOf(a), favs |-> FavoritesOf(q, a),
              following |-> articles[a].author \in Followed(q)]

\* The answer, if the whole request were one statement; of a list, all pages.
AtOnce(q) ==
  IF Listing(q) THEN
    IF q.viewer = Stranger THEN Refused("unauthorized")
    ELSE LET found == InOrder(Matching(q)) IN Ok([i \in DOMAIN found |-> Now(q, found[i])])
  ELSE IF ~Live(q.article) THEN Refused("notFound")
  ELSE IF q.kind = "comments" THEN
    Ok({<<c, c.author \in Followed(q)>> : c \in CommentsOf(q.article)})
  ELSE IF q.viewer = Stranger THEN Refused("unauthorized")
  ELSE Ok(Now(q, q.article))

-----------------------------------------------------------------------------
(* The readers *)

NoParts == [snapshot |-> {}, total |-> 0, ids |-> <<>>, heads |-> <<>>, tags |-> None,
            favorites |-> None, follows |-> None, answer |-> Pending]

TypeOK ==
  /\ StoreTypeOK
  /\ follows \subseteq {p \in User \X User : p[1] # p[2]}
  /\ query \in [Reader -> Query]
  /\ at \in [Reader -> {"begin", "find", "count", "ids", "rows", "comments", "parts", "done"}]
  /\ \A r \in Reader : at[r] = "done" <=> got[r].answer # Pending

Init ==
  /\ StoreInit
  /\ follows = {}
  /\ query \in [Reader -> Query]
  /\ at = [r \in Reader |-> "begin"]
  /\ got = [r \in Reader |-> NoParts]
  /\ could = [r \in Reader |-> {}]

Quiet == UNCHANGED <<svars, follows, query>>
Goto(r, l) == at' = [at EXCEPT ![r] = l]
Answer(r, a) == Goto(r, "done") /\ got' = [got EXCEPT ![r] = [NoParts EXCEPT !.answer = a]]

Arrive(r) ==
  /\ at[r] = "begin"
  /\ Goto(r, "find")
  /\ Quiet /\ UNCHANGED got

\* A statement fails: 500.
Fail(r) == Active(r) /\ Answer(r, Refused("failed")) /\ Quiet

\* getBySlug: the article and its author, then the viewer.
FindArticle(r) ==
  LET q == query[r] IN
  /\ at[r] = "find" /\ q.kind = "detail"
  /\ IF ~Live(q.article) THEN Answer(r, Refused("notFound"))
     ELSE IF q.viewer = Stranger THEN Answer(r, Refused("unauthorized"))
     ELSE /\ got' = [got EXCEPT ![r].heads = <<Head_(q.article)>>]
          /\ Goto(r, "parts")
  /\ Quiet

\* list and feed: the viewer, then COUNT.
FindViewer(r) ==
  /\ at[r] = "find" /\ Listing(query[r])
  /\ IF query[r].viewer = Stranger THEN Answer(r, Refused("unauthorized"))
     ELSE Goto(r, "count") /\ UNCHANGED got
  /\ Quiet

CountMatches(r) ==
  /\ at[r] = "count"
  /\ got' = [got EXCEPT ![r].total = Cardinality(Matching(query[r]))]
  /\ Goto(r, "ids")
  /\ Quiet

\* With skip, take and a join TypeORM asks for the ids of the page, then for the
\* rows that have one of these ids and, still, match.
PageIds(r) ==
  /\ at[r] = "ids"
  /\ got' = [got EXCEPT ![r].ids = Window(query[r], InOrder(Matching(query[r])))]
  /\ Goto(r, "rows")
  /\ Quiet

\* Mutant: the rows are asked for by id alone, in no order.
RowsByIdOnly(r) ==
  LET rows == SelectSeq(Reverse(got[r].ids), LAMBDA a : Live(a)) IN
  /\ at[r] = "rows"
  /\ got' = [got EXCEPT ![r].heads = [i \in DOMAIN rows |-> Head_(rows[i])]]
  /\ Goto(r, "parts")
  /\ Quiet

PageRows(r) ==
  LET rows == InOrder({a \in ToSet(got[r].ids) : Matches(query[r], a)}) IN
  /\ at[r] = "rows"
  /\ IF rows = <<>> THEN Answer(r, Ok(<<got[r].total, <<>>>>))
     ELSE /\ got' = [got EXCEPT ![r].heads = [i \in DOMAIN rows |-> Head_(rows[i])]]
          /\ Goto(r, "parts")
  /\ Quiet

\* list of comments: the first statement takes the snapshot of the transaction.
OpenSnapshot(r) ==
  /\ at[r] = "find" /\ query[r].kind = "comments"
  /\ IF ~Live(query[r].article) THEN Answer(r, Refused("notFound"))
     ELSE /\ got' = [got EXCEPT ![r].snapshot = CommentsOf(query[r].article)]
          /\ Goto(r, "comments")
  /\ Quiet

\* Mutant: a transaction at READ COMMITTED.
ReadCommentsCommitted(r) ==
  /\ at[r] = "comments"
  /\ Answer(r, Ok({<<c, c.author \in Followed(query[r])>> : c \in CommentsOf(query[r].article)}))
  /\ Quiet

\* The comments of the snapshot; without a viewer, or any comment, that is all.
ReadComments(r) ==
  LET q == query[r] found == got[r].snapshot IN
  /\ at[r] = "comments"
  /\ IF found = {} \/ ~HasViewer(q)
     THEN Answer(r, Ok({<<c, FALSE>> : c \in found}))
     ELSE Goto(r, "parts") /\ UNCHANGED got
  /\ Quiet

\* loadFollowedAuthors, after the transaction has ended.
ReadFollowed(r) ==
  /\ at[r] = "parts" /\ query[r].kind = "comments"
  /\ Answer(r, Ok({<<c, c.author \in Followed(query[r])>> : c \in got[r].snapshot}))
  /\ Quiet

\* What a part of a detail or a page is read to.  The count of favorites and the
\* viewer's are one statement of the hydrator, and two of getBySlug.
Fetched(r, part) ==
  LET q == query[r] heads == got[r].heads IN
  CASE part = "tags" -> [i \in DOMAIN heads |-> TagsOf(heads[i].slug)]
    [] part = "favorites" -> [i \in DOMAIN heads |-> FavoritesOf(q, heads[i].slug)]
    [] part = "follows" -> IF HasViewer(q) THEN Followed(q) ELSE {}

\* Mutant: the hydrator counts in one statement and looks the viewer's favorites
\* up in the next, as getBySlug does.
FetchPageApart(r) ==
  LET fetched == Fetched(r, "favorites") IN
  /\ at[r] = "parts" /\ Listing(query[r])
  /\ \/ \E part \in {"tags", "follows"} :
          got[r][part] = None /\ got' = [got EXCEPT ![r][part] = Fetched(r, part)]
     \/ got[r].total # None /\ got[r].snapshot = {}
          /\ got' = [got EXCEPT ![r].snapshot = {fetched}]
     \/ got[r].favorites = None /\ \E early \in got[r].snapshot :
          got' = [got EXCEPT ![r].favorites =
                    [i \in DOMAIN fetched |-> <<early[i][1], fetched[i][2]>>]]
  /\ UNCHANGED at
  /\ Quiet

\* hydrate: three statements at once, in any order.
FetchPage(r) ==
  /\ at[r] = "parts" /\ Listing(query[r])
  /\ \E part \in Part :
       got[r][part] = None /\ got' = [got EXCEPT ![r][part] = Fetched(r, part)]
  /\ UNCHANGED at
  /\ Quiet

\* getBySlug: four statements at once; the count and the viewer's favorite may
\* come back with a write between them.
FetchDetail(r) ==
  LET fetched == Fetched(r, "favorites")[1] had == got[r].favorites IN
  /\ at[r] = "parts" /\ query[r].kind = "detail"
  /\ \/ \E part \in {"tags", "follows"} :
          got[r][part] = None /\ got' = [got EXCEPT ![r][part] = Fetched(r, part)]
     \/ had = None /\ \E half \in {<<fetched[1], None>>, <<None, fetched[2]>>} :
          got' = [got EXCEPT ![r].favorites = <<half>>]
     \/ /\ had # None /\ \E i \in 1..2 : had[1][i] = None
        /\ got' = [got EXCEPT ![r].favorites =
             <<[i \in 1..2 |-> IF had[1][i] = None THEN fetched[i] ELSE had[1][i]]>>]
  /\ UNCHANGED at
  /\ Quiet

Reply(r) ==
  LET g == got[r]
      items == [i \in DOMAIN g.heads |-> Item(g.heads[i], g.tags[i], g.favorites[i], g.follows)]
  IN
  /\ at[r] = "parts" /\ \A part \in Part : g[part] # None
  /\ query[r].kind = "detail" => \A i \in 1..2 : g.favorites[1][i] # None
  /\ query[r].kind # "comments"
  /\ Answer(r, Ok(IF Listing(query[r]) THEN <<g.total, items>> ELSE items[1]))
  /\ Quiet

Read(r) ==
  \/ Arrive(r) \/ FindArticle(r) \/ FindViewer(r) \/ CountMatches(r) \/ PageIds(r) \/ PageRows(r)
  \/ OpenSnapshot(r) \/ ReadComments(r) \/ ReadFollowed(r)
  \/ FetchPage(r) \/ FetchDetail(r) \/ Reply(r)

-----------------------------------------------------------------------------
(* Profiles *)

\* follow: nobody follows themselves, and following twice is following once.
Follow(u, v) ==
  /\ u # v
  /\ follows' = follows \cup {<<u, v>>}
  /\ UNCHANGED <<svars, rvars>>

Unfollow(u, v) ==
  /\ follows' = follows \ {<<u, v>>}
  /\ UNCHANGED <<svars, rvars>>

Writes ==
  \/ \E r \in Request : (Succeed(r) \/ Refuse(r)) /\ UNCHANGED <<follows, rvars>>
  \/ \E u, v \in User : Follow(u, v) \/ Unfollow(u, v)

\* Watches every moment of a request.
Observe ==
  could' = [r \in Reader |->
    IF at'[r] \in {"begin", "done"} THEN could[r] ELSE could[r] \cup {AtOnce(query[r])'}]

Next == (Writes \/ \E r \in Reader : Read(r) \/ Fail(r)) /\ Observe

Spec == Init /\ [][Next]_vars

-----------------------------------------------------------------------------
(* Properties *)

Answered(r, kinds) == at[r] = "done" /\ query[r].kind \in kinds /\ got[r].answer.status = "ok"
Slugs(items) == [i \in DOMAIN items |-> items[i].head.slug]

\* What of a moment's answer the request shows: the page, and how many there are.
Shown(q, m) ==
  IF Listing(q) /\ m.status = "ok" THEN Ok(<<Len(m.detail), Window(q, m.detail)>>) ELSE m

\* A request during which nothing it shows changes answers exactly that, put
\* together from half a dozen statements though it is (article.service.ts,
\* article-list-query.service.ts, article-list-hydrator.ts, comment.service.ts).
QuietAnswer ==
  \A r \in Reader :
    at[r] = "done" /\ got[r].answer # Refused("failed") /\ Cardinality(could[r]) = 1
      => \A m \in could[r] : got[r].answer = Shown(query[r], m)

\* Every variable keeps its type, and a request nothing disturbs answers exactly
\* what there is, see QuietAnswer.
AnswersAreExact == TypeOK /\ QuietAnswer

\* The comments listed are all comments the article had at one moment at which it
\* existed, and a 404 was true at one, whatever is written, deleted or cascades
\* meanwhile (comment.service.ts, list, REPEATABLE READ).
CommentsOfOneMoment ==
  LET listed(a) == [status |-> a.status,
                    ids |-> IF a.status = "ok" THEN {p[1] : p \in a.detail} ELSE {}]
  IN \A r \in Reader :
       at[r] = "done" /\ query[r].kind = "comments" /\ got[r].answer # Refused("failed")
         => \E m \in could[r] : listed(got[r].answer) = listed(m)

\* A page lists articles that all matched the filters at one moment, newest first
\* and none twice, at most as many as asked for; the total is that of a moment
\* too, not always of the same (article-list-query.service.ts).
PageOfOneMoment ==
  \A r \in Reader : Answered(r, {"list", "feed"}) =>
    LET total == got[r].answer.detail[1] page == got[r].answer.detail[2] IN
    /\ Len(page) <= query[r].limit
    /\ \E m \in could[r] : total = Len(m.detail)
    /\ Slugs(page) = InOrder(ToSet(Slugs(page)))
    /\ \E m \in could[r] : ToSet(Slugs(page)) \subseteq ToSet(Slugs(m.detail))

\* No article in a list is favorited by the viewer and yet by nobody
\* (article-list-hydrator.ts, loadFavorites counts both in one statement).
FlagIsCounted ==
  \A r \in Reader : Answered(r, {"list", "feed"}) =>
    \A i \in DOMAIN got[r].answer.detail[2] :
      LET favs == got[r].answer.detail[2][i].favs IN favs[2] => favs[1] > 0
=============================================================================
