---------------------------- MODULE ArticleStore ----------------------------
(***************************************************************************)
(* What the requests that write articles promise: each takes effect at one *)
(* moment, answers what it found at that moment, and a request answered    *)
(* 500 either did nothing or all of it.  ArticleLocks shows that the       *)
(* transactions of article.service.ts and comment.service.ts keep this     *)
(* promise; ArticleReads lets the reading requests run against it.         *)
(***************************************************************************)
EXTENDS Naturals, FiniteSets, SequencesExt

CONSTANTS
  Request, User, Article, Tag,
  Ask,           \* what a request may ask for
  OldComment,    \* a comment that is there at the start
  None,
  Stored         \* the database at the start: articles, favorites, comments

VARIABLES
  ask,        \* what each request asks for
  articles,   \* rows of articles by slug, each with its ordered tag names
  tagNames,   \* rows of tags
  favorites,  \* rows of article_favorites: <<user, article>>
  comments,   \* rows of comments
  answer      \* what each request was answered

store == <<articles, tagNames, favorites, comments>>
svars == <<ask, store, answer>>

-----------------------------------------------------------------------------
(* Rows, requests and answers *)

Op == {"create", "update", "delete", "favorite", "unfavorite", "comment", "uncomment"}
Reading == {"update", "favorite", "unfavorite"}    \* answer with getBySlug

Row == [author : User, title : STRING, tags : Seq(Tag), stamp : Nat]
CommentRow == [id : Request \cup {OldComment}, article : Article, author : User]

\* The rows at the start keep the constraints of the tables: a favorite is of an
\* article that exists, and the one comment has an id no insert will return.
ASSUME StoreAssumption ==
  /\ None \notin Row
  /\ OldComment \notin Request
  /\ Stored.articles \in [Article -> Row \cup {None}]
  /\ Stored.tagNames \subseteq Tag
  /\ Stored.favorites \subseteq User \X Article /\ IsFiniteSet(Stored.favorites)
  /\ \A f \in Stored.favorites : Stored.articles[f[2]] # None
  /\ Stored.comments \subseteq CommentRow
  /\ \A c, d \in Stored.comments : c = d /\ c.id = OldComment

Pending == [status |-> "pending"]
Refused(status) == [status |-> status]
Ok(detail) == [status |-> "ok", detail |-> detail]
IsOpen(r) == answer[r] = Pending
AnswerWith(r, a) == answer' = [answer EXCEPT ![r] = a]

Live(a) == articles[a] # None

\* uniqueArticleTagNames: the first of equal names stays.
Unique(names) ==
  FoldLeft(LAMBDA kept, n : IF Contains(kept, n) THEN kept ELSE Append(kept, n), <<>>, names)

\* What the validation of the requests lets through.
ASSUME AskAssumption ==
  \A q \in Ask :
    /\ q.op \in Op /\ q.user \in User /\ q.article \in Article
    /\ q.tags # None => Unique(q.tags) \in Seq(Tag)
    /\ q.op = "create" => q.title \in STRING
    /\ q.op = "update" => q.title = None \/ q.title \in STRING

\* What getBySlug and serializeArticleDetail show a user of an article.
View(rows, favs, u, a) ==
  <<rows[a].title, rows[a].tags, Cardinality({f \in favs : f[2] = a}), <<u, a>> \in favs>>

-----------------------------------------------------------------------------
(* What each request does to the rows *)

Stamped(row) == [row EXCEPT !.stamp = @ + 1]

\* Mutant: replacing tags alone leaves updated_at.
UpdatedUntouched(row, q) ==
  LET title == IF q.title = None THEN row.title ELSE q.title
      tags == IF q.tags = None THEN row.tags ELSE Unique(q.tags)
      new == [row EXCEPT !.title = title, !.tags = tags]
  IN  IF title = row.title THEN new ELSE Stamped(new)

\* applyScalarChanges, hasSameOrderedTagNames and touchUpdatedAt.
Updated(row, q) ==
  LET title == IF q.title = None THEN row.title ELSE q.title
      tags == IF q.tags = None THEN row.tags ELSE Unique(q.tags)
      new == [row EXCEPT !.title = title, !.tags = tags]
  IN  IF new = row THEN row ELSE Stamped(new)

Created(q) ==
  [author |-> q.user, title |-> q.title, stamp |-> 0,
   tags |-> IF q.tags = None THEN <<>> ELSE Unique(q.tags)]

\* The row of the article as the request leaves it; rows of article_tags,
\* article_favorites and comments go with a deleted article (ON DELETE CASCADE).
Draft(q, rows) ==
  CASE q.op = "create" -> Created(q)
    [] q.op = "update" -> Updated(rows[q.article], q)
    [] q.op = "delete" -> None
    [] OTHER -> rows[q.article]

FavoritesAfter(q) ==
  CASE q.op = "favorite" -> favorites \cup {<<q.user, q.article>>}
    [] q.op = "unfavorite" -> favorites \ {<<q.user, q.article>>}
    [] q.op = "delete" -> {f \in favorites : f[2] # q.article}
    [] OTHER -> favorites

CommentsAfter(r, q) ==
  CASE q.op = "comment" ->
         comments \cup {[id |-> r, article |-> q.article, author |-> q.user]}
    [] q.op = "uncomment" -> {c \in comments : c.id # q.comment}
    [] q.op = "delete" -> {c \in comments : c.article # q.article}
    [] OTHER -> comments

\* The request leaves draft as the row of its article.
Write(r, draft, names) ==
  LET q == ask[r] IN
  /\ articles' = [articles EXCEPT ![q.article] = draft]
  /\ tagNames' = tagNames \cup names
  /\ favorites' = FavoritesAfter(q)
  /\ comments' = CommentsAfter(r, q)

-----------------------------------------------------------------------------
(* The requests *)

StoreTypeOK ==
  /\ ask \in [Request -> Ask]
  /\ articles \in [Article -> Row \cup {None}]
  /\ tagNames \subseteq Tag
  /\ favorites \subseteq User \X Article
  /\ comments \subseteq CommentRow
  /\ DOMAIN answer = Request
  /\ \A r \in Request : answer[r].status \in {"pending", "ok", "failed", "notFound", "forbidden", "conflict"}

StoreInit ==
  /\ ask \in [Request -> Ask]
  /\ articles = Stored.articles
  /\ tagNames = Stored.tagNames
  /\ favorites = Stored.favorites
  /\ comments = Stored.comments
  /\ answer = [r \in Request |-> Pending]

\* When a request must be refused, and with what.
IsMissing(q) ==
  \/ q.op # "create" /\ ~Live(q.article)
  \/ q.op = "uncomment" /\ ~\E c \in comments : c.id = q.comment /\ c.article = q.article
IsForbidden(q) ==
  \/ q.op \in {"update", "delete"} /\ articles[q.article].author # q.user
  \/ q.op = "uncomment" /\ \E c \in comments : c.id = q.comment /\ c.author # q.user
IsConflict(q) == q.op = "create" /\ Live(q.article)

Refusal(q) ==
  IF IsMissing(q) THEN "notFound"
  ELSE IF IsForbidden(q) THEN "forbidden"
  ELSE IF IsConflict(q) THEN "conflict" ELSE "none"

Succeed(r) ==
  LET q == ask[r] IN
  /\ IsOpen(r) /\ Refusal(q) = "none"
  /\ \E names \in SUBSET Tag : Write(r, Draft(q, articles), names)
  /\ \/ AnswerWith(r, Refused("failed"))
     \/ AnswerWith(r, Ok(IF q.op \in Reading \cup {"create"}
                         THEN View(articles', favorites', q.user, q.article) ELSE <<>>))
  /\ UNCHANGED ask

Refuse(r) ==
  /\ IsOpen(r) /\ Refusal(ask[r]) # "none"
  /\ AnswerWith(r, Refused(Refusal(ask[r])))
  /\ UNCHANGED <<ask, store>>

GiveUp(r) ==
  /\ IsOpen(r)
  /\ AnswerWith(r, Refused("failed"))
  /\ UNCHANGED <<ask, store>>

StoreNext == \E r \in Request : Succeed(r) \/ Refuse(r) \/ GiveUp(r)

StoreSpec == StoreInit /\ [][StoreNext]_svars
=============================================================================
