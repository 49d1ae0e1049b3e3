------------------------- MODULE ArticleLocksProofs -------------------------
(***************************************************************************)
(* ArticleLocks implements ArticleStore, for any requests, users, articles *)
(* and tags: the transactions of article.service.ts and comment.service.ts *)
(* take effect at one moment, their commit.                                *)
(*                                                                         *)
(* The argument: locks that clash are never held together (Exclusion); a   *)
(* transaction that has got past LockArticle or InsertArticle holds its    *)
(* article or its slug, so no other commits a change of that article, its  *)
(* favorites or its comments (CommitSpares); hence what it has read and    *)
(* prepared is still what the store would do now (RequestOK).              *)
(***************************************************************************)
EXTENDS ArticleLocks, FiniteSetTheorems, SequenceTheorems, TLAPS

\* The favorites of one article.
FavoritesOf(favs, a) == {f \in favs : f[2] = a}

\* What the request will be answered if it commits now.
ViewOf(r) ==
  View([articles EXCEPT ![ArticleOf(r)] = draft[r]], FavoritesAfter(ask[r]),
       ask[r].user, ArticleOf(r))

HasArticle(r) ==
  /\ ask[r].op # "create" /\ pc[r] \in {"locked", "tags", "reading", "ready"}
HasSlug(r) ==
  /\ ask[r].op = "create" /\ pc[r] \in {"slug", "tags", "ready"}

Exclusion ==
  \A r, s \in Request : r # s =>
    \A l \in held[r], m \in held[s] : l[1] = m[1] => ~Clash(l[2], m[2])

\* Which operations pass where.
Route(r) ==
  /\ pc[r] = "viewer" => Favoriting(r)
  /\ pc[r] = "locked" => ask[r].op # "create"
  /\ pc[r] = "slug" => ask[r].op = "create"
  /\ pc[r] = "tags" => ask[r].op \in {"create", "update"}
  /\ pc[r] = "reading" => ask[r].op \in Reading

\* What a request holds, and what of the store depends on it.
Guarded(r) ==
  /\ HasArticle(r) =>
       /\ <<Articles(ArticleOf(r)), "update">> \in held[r]
       /\ Live(ArticleOf(r))
       /\ ask[r].op \in {"update", "delete"} => articles[ArticleOf(r)].author = ask[r].user
  /\ HasSlug(r) =>
       /\ <<Slugs(ArticleOf(r)), "update">> \in held[r]
       /\ ~Live(ArticleOf(r))
  /\ pc[r] = "ready" /\ ask[r].op = "uncomment" =>
       \E c \in comments :
         c.id = ask[r].comment /\ c.article = ArticleOf(r) /\ c.author = ask[r].user

\* What it has prepared and read is what it would prepare and read now.
Prepared(r) ==
  /\ pc[r] = "locked" => draft[r] = articles[ArticleOf(r)]
  /\ pc[r] \in {"slug", "tags", "reading", "ready"} => draft[r] = Draft(ask[r], articles)
Answers(r) ==
  /\ pc[r] \notin {"reading", "ready"} => seen[r] = <<>>
  /\ pc[r] = "reading" =>
       LET v == ViewOf(r) IN
       seen[r] \in {<<>>, <<v[1]>>, <<v[1], v[2]>>, <<v[1], v[2], v[3]>>}
  /\ pc[r] = "ready" =>
       seen[r] = IF ask[r].op \in Reading \cup {"create"} THEN ViewOf(r) ELSE <<>>

RequestOK(r) == Route(r) /\ Guarded(r) /\ Prepared(r) /\ Answers(r)

\* The constraints of the tables.
Constraints ==
  /\ \A f \in favorites : Live(f[2])
  /\ \A c \in comments : c.id \in Request => pc[c.id] = "done"
  /\ \A c, d \in comments : c.id = d.id => c = d

IInv == TypeOK /\ Exclusion /\ Constraints /\ \A r \in Request : RequestOK(r)

-----------------------------------------------------------------------------
(* Rows and views *)

LEMMA AskTypes ==
  ASSUME TypeOK, NEW r \in Request
  PROVE  /\ ask[r] \in Ask /\ ask[r].op \in Op
         /\ ask[r].user \in User /\ ask[r].article \in Article
         /\ ask[r].tags # None => Unique(ask[r].tags) \in Seq(Tag)
         /\ ask[r].op = "create" => ask[r].title \in STRING
         /\ ask[r].op = "update" => ask[r].title = None \/ ask[r].title \in STRING
  <1>1. ask[r] \in Ask
    BY DEF TypeOK, StoreTypeOK
  <1>. QED
    BY <1>1, AskAssumption

\* An update of a row is a row, and it moves the stamp when it moves the rest.
LEMMA UpdatedRow ==
  ASSUME NEW row \in Row, NEW q \in Ask, q.op = "update"
  PROVE  /\ Updated(row, q) \in Row
         /\ Updated(row, q).stamp # row.stamp <=>
              <<Updated(row, q).title, Updated(row, q).tags>> # <<row.title, row.tags>>
  <1> DEFINE title == IF q.title = None THEN row.title ELSE q.title
             tags == IF q.tags = None THEN row.tags ELSE Unique(q.tags)
             new == [row EXCEPT !.title = title, !.tags = tags]
  <1>1. title \in STRING /\ tags \in Seq(Tag)
    BY AskAssumption DEF Row
  <1>2. row = [author |-> row.author, title |-> row.title, tags |-> row.tags, stamp |-> row.stamp]
    BY DEF Row
  <1>. HIDE DEF title, tags
  <1>3. new \in Row /\ new.stamp = row.stamp /\ new.title = title /\ new.tags = tags
    <2>1. new \in Row
      BY <1>1 DEF Row
    <2>2. new.title = title /\ new.tags = tags
      BY DEF Row
    <2>3. new.stamp = row.stamp
      BY DEF Row
    <2>. QED
      BY <2>1, <2>2, <2>3
  <1>4. new = row <=> title = row.title /\ tags = row.tags
    <2>1. ASSUME title = row.title, tags = row.tags PROVE new = row
      BY <2>1 DEF Row
    <2>. QED
      BY <1>3, <2>1
  <1> HIDE DEF new
  <1>5. /\ Stamped(new) \in Row /\ Stamped(new).stamp # row.stamp
        /\ Stamped(new).title = title /\ Stamped(new).tags = tags
    <2>1. new.stamp \in Nat /\ new.stamp + 1 # new.stamp /\ new.stamp + 1 \in Nat
      BY <1>3 DEF Row
    <2>2. Stamped(new) \in Row
      BY <1>3, <2>1 DEF Stamped, Row
    <2>3. /\ Stamped(new).stamp = new.stamp + 1
          /\ Stamped(new).title = new.title /\ Stamped(new).tags = new.tags
      BY <1>3 DEF Stamped, Row
    <2>. QED
      BY <1>3, <2>1, <2>2, <2>3
  <1>6. Updated(row, q) = IF new = row THEN row ELSE Stamped(new)
    BY DEF Updated, title, tags, new
  <1>. QED
    BY <1>4, <1>5, <1>6

LEMMA CreatedRow ==
  ASSUME NEW q \in Ask, q.op = "create"
  PROVE  Created(q) \in Row
  <1>1. q.title \in STRING /\ q.user \in User /\ (q.tags # None => Unique(q.tags) \in Seq(Tag))
    BY AskAssumption
  <1>. QED
    BY <1>1 DEF Created, Row

LEMMA DraftTypes ==
  ASSUME TypeOK, NEW r \in Request, ask[r].op # "create" => Live(ArticleOf(r))
  PROVE  /\ Draft(ask[r], articles) \in Row \cup {None}
         /\ ask[r].op # "delete" => Draft(ask[r], articles) \in Row
         /\ ask[r].op = "delete" => Draft(ask[r], articles) = None
  <1>1. ask[r] \in Ask /\ ask[r].op \in Op /\ ask[r].article \in Article
    BY AskTypes
  <1>2. ask[r].op # "create" => articles[ask[r].article] \in Row
    BY <1>1 DEF TypeOK, StoreTypeOK, Live, ArticleOf
  <1>3. CASE ask[r].op = "create"
    BY <1>1, <1>3, CreatedRow DEF Draft
  <1>4. CASE ask[r].op = "update"
    BY <1>1, <1>2, <1>4, UpdatedRow DEF Draft
  <1>5. CASE ask[r].op \notin {"create", "update"}
    BY <1>2, <1>5 DEF Draft
  <1>. QED
    BY <1>3, <1>4, <1>5

\* A view shows one row and the favorites of one article.
LEMMA ViewDepends ==
  ASSUME NEW rows, NEW rows2, NEW favs, NEW favs2, NEW u, NEW a,
         rows[a] = rows2[a], FavoritesOf(favs, a) = FavoritesOf(favs2, a)
  PROVE  View(rows, favs, u, a) = View(rows2, favs2, u, a)
  <1>1. <<u, a>> \in favs <=> <<u, a>> \in favs2
    BY DEF FavoritesOf
  <1>2. {f \in favs : f[2] = a} = {f \in favs2 : f[2] = a}
    BY DEF FavoritesOf
  <1>3. Cardinality({f \in favs : f[2] = a}) = Cardinality({f \in favs2 : f[2] = a})
    BY <1>2
  <1>4. (<<u, a>> \in favs) = (<<u, a>> \in favs2)
    BY <1>1
  <1>5. rows[a].title = rows2[a].title /\ rows[a].tags = rows2[a].tags
    OBVIOUS
  <1>. QED
    BY <1>3, <1>4, <1>5 DEF View

LEMMA ViewFields ==
  ASSUME NEW rows, NEW favs, NEW u, NEW a
  PROVE  LET v == View(rows, favs, u, a) IN v = <<v[1], v[2], v[3], v[4]>>
  BY DEF View

-----------------------------------------------------------------------------
(* Locks, and the requests that do not move *)

LEMMA LockKeeps ==
  ASSUME IInv, NEW r \in Request, Granted(r), Lock(r)
  PROVE  /\ Exclusion' /\ DOMAIN held' = Request
         /\ held[r] \subseteq held'[r]
         /\ Wants(r) # None => Wants(r) \in held'[r]
         /\ \A s \in Request \ {r} : held'[s] = held[s]
  <1>1. DOMAIN held = Request /\ Exclusion
    BY DEF IInv, TypeOK
  <1>2. /\ held'[r] = held[r] \cup ({Wants(r)} \ {None}) /\ DOMAIN held' = Request
        /\ \A s \in Request \ {r} : held'[s] = held[s]
    BY <1>1 DEF Lock
  <1>3. Wants(r) # None => \A s \in Request \ {r} : \A l \in held[s] :
          l[1] = Wants(r)[1] => ~Clash(l[2], Wants(r)[2])
    BY DEF Granted, WaitsFor
  <1>4. \A m, n : Clash(m, n) <=> Clash(n, m)
    BY DEF Clash
  <1>5. SUFFICES ASSUME NEW t \in Request, NEW s \in Request, t # s,
                        NEW l \in held'[t], NEW m \in held'[s], l[1] = m[1]
                 PROVE  ~Clash(l[2], m[2])
    BY <1>2 DEF Exclusion
  <1>6. CASE l \in held[t] /\ m \in held[s]
    BY <1>1, <1>5, <1>6 DEF Exclusion
  <1>7. CASE l \notin held[t]
    <2>1. t = r /\ l = Wants(r) /\ Wants(r) # None /\ m \in held[s]
      BY <1>2, <1>5, <1>7
    <2>. QED
      BY <1>3, <1>4, <1>5, <2>1
  <1>8. CASE m \notin held[s]
    <2>1. s = r /\ m = Wants(r) /\ Wants(r) # None /\ l \in held[t]
      BY <1>2, <1>5, <1>8
    <2>. QED
      BY <1>3, <1>5, <2>1
  <1>. QED
    BY <1>6, <1>7, <1>8

LEMMA EndKeeps ==
  ASSUME IInv, NEW r \in Request, NEW a, End(r, a), a # Pending,
         a.status \in {"ok", "failed", "notFound", "forbidden", "conflict"}
  PROVE  /\ Exclusion' /\ RequestOK(r)'
         /\ pc'[r] = "done" /\ answer'[r] = a
         /\ \A s \in Request \ {r} :
              /\ pc'[s] = pc[s] /\ held'[s] = held[s]
              /\ draft'[s] = draft[s] /\ seen'[s] = seen[s] /\ answer'[s] = answer[s]
         /\ ask' = ask
         /\ pc' \in [Request -> Location] /\ todo' \in [Request -> Seq(Tag)]
         /\ draft' \in [Request -> Row \cup {None}]
         /\ DOMAIN held' = Request /\ DOMAIN seen' = Request /\ DOMAIN answer' = Request
         /\ \A s \in Request : pc'[s] = "done" <=> ~IsOpen(s)'
         /\ \A s \in Request : answer'[s].status \in
              {"pending", "ok", "failed", "notFound", "forbidden", "conflict"}
  <1>1. TypeOK /\ StoreTypeOK /\ Exclusion
    BY DEF IInv, TypeOK
  <1>2. /\ pc'[r] = "done" /\ answer'[r] = a /\ held'[r] = {} /\ seen'[r] = <<>>
        /\ \A s \in Request \ {r} :
             /\ pc'[s] = pc[s] /\ held'[s] = held[s]
             /\ draft'[s] = draft[s] /\ seen'[s] = seen[s] /\ answer'[s] = answer[s]
        /\ DOMAIN held' = Request /\ DOMAIN seen' = Request /\ DOMAIN answer' = Request
    BY <1>1 DEF End, Goto, AnswerWith, TypeOK, StoreTypeOK
  <1>3. /\ pc' \in [Request -> Location] /\ todo' \in [Request -> Seq(Tag)]
        /\ draft' \in [Request -> Row \cup {None}] /\ ask' = ask
    BY <1>1 DEF End, Goto, TypeOK, Location
  <1>4. Exclusion'
    BY <1>1, <1>2 DEF Exclusion
  <1>5. RequestOK(r)'
    BY <1>2 DEF RequestOK, Route, Guarded, HasArticle, HasSlug, Prepared, Answers
  <1>6. \A s \in Request : pc'[s] = "done" <=> ~IsOpen(s)'
    BY <1>1, <1>2 DEF TypeOK, IsOpen
  <1>7. \A s \in Request : answer'[s].status \in
          {"pending", "ok", "failed", "notFound", "forbidden", "conflict"}
    BY <1>1, <1>2 DEF StoreTypeOK
  <1>. QED
    BY <1>2, <1>3, <1>4, <1>5, <1>6, <1>7

\* What a request relies on is its own state and the store.
LEMMA OthersKeep ==
  ASSUME IInv, NEW s \in Request, UNCHANGED <<ask, store>>,
         pc'[s] = pc[s], held'[s] = held[s], draft'[s] = draft[s], seen'[s] = seen[s]
  PROVE  RequestOK(s)'
  <1>1. RequestOK(s)
    BY DEF IInv
  <1>2. ViewOf(s)' = ViewOf(s)
    BY DEF ViewOf, View, ArticleOf, FavoritesAfter, store
  <1>. HIDE DEF ViewOf
  <1>3. Route(s)' /\ Guarded(s)'
    BY <1>1 DEF RequestOK, Route, Guarded, HasArticle, HasSlug, ArticleOf, Live, Favoriting,
                store
  <1>4. Prepared(s)' /\ Answers(s)'
    BY <1>1, <1>2 DEF RequestOK, Prepared, Answers, ArticleOf, store
  <1>. QED
    BY <1>3, <1>4 DEF RequestOK

\* A statement that neither commits nor ends the transaction.
LEMMA StatementKeeps ==
  ASSUME IInv, NEW r \in Request, UNCHANGED svars, pc[r] # "done", pc'[r] # "done",
         pc' \in [Request -> Location], todo' \in [Request -> Seq(Tag)],
         draft' \in [Request -> Row \cup {None}],
         DOMAIN held' = Request, DOMAIN seen' = Request,
         \A s \in Request \ {r} :
           pc'[s] = pc[s] /\ held'[s] = held[s] /\ draft'[s] = draft[s] /\ seen'[s] = seen[s],
         Exclusion', RequestOK(r)'
  PROVE  IInv'
  <1>1. TypeOK'
    BY DEF IInv, TypeOK, StoreTypeOK, svars, store, IsOpen
  <1>2. Constraints'
    BY DEF IInv, Constraints, svars, store, Live
  <1>3. \A s \in Request : RequestOK(s)'
    BY OthersKeep DEF svars
  <1>. QED
    BY <1>1, <1>2, <1>3 DEF IInv

LEMMA RollBackKeeps ==
  ASSUME IInv, NEW r \in Request, NEW status, RollBack(r, status), pc[r] # "done",
         status \in {"failed", "notFound", "forbidden", "conflict"}
  PROVE  IInv'
  <1>1. Refused(status) # Pending /\ Refused(status).status = status
    BY DEF Refused, Pending
  <1>2. End(r, Refused(status)) /\ UNCHANGED <<ask, store>>
    BY DEF RollBack, End
  <1>3. TypeOK'
    BY <1>1, <1>2, EndKeeps DEF IInv, TypeOK, StoreTypeOK, store
  <1>4. Constraints'
    BY <1>1, <1>2, EndKeeps DEF IInv, Constraints, store, Live
  <1>5. \A s \in Request : RequestOK(s)'
    BY <1>1, <1>2, EndKeeps, OthersKeep
  <1>6. Exclusion'
    BY <1>1, <1>2, EndKeeps
  <1>. QED
    BY <1>3, <1>4, <1>5, <1>6 DEF IInv

-----------------------------------------------------------------------------
(* The statements *)

LEMMA InitIInv == Init => IInv
  <1>. SUFFICES ASSUME Init PROVE IInv
    OBVIOUS
  <1>1. TypeOK
    BY StoreAssumption DEF Init, StoreInit, TypeOK, StoreTypeOK, Location, Pending, IsOpen
  <1>2. Constraints
    BY StoreAssumption DEF Init, StoreInit, Constraints, Live
  <1>3. Exclusion /\ \A r \in Request : RequestOK(r)
    BY DEF Init, StoreInit, Exclusion, RequestOK, Route, Guarded, HasArticle, HasSlug,
           Prepared, Answers
  <1>. QED
    BY <1>1, <1>2, <1>3 DEF IInv

\* Where the article and the slug are locked.
LEMMA WantsArticle ==
  ASSUME NEW r \in Request,
         \/ pc[r] = "viewer"
         \/ pc[r] = "begin" /\ ask[r].op \in {"update", "delete", "comment", "uncomment"}
  PROVE  Wants(r) = <<Articles(ask[r].article), "update">>
  BY DEF Wants, Favoriting

LEMMA WantsSlug ==
  ASSUME NEW r \in Request, pc[r] = "begin", ask[r].op = "create"
  PROVE  Wants(r) = <<Slugs(ask[r].article), "update">>
  BY DEF Wants, Favoriting

LEMMA LockViewerKeeps ==
  ASSUME IInv, NEW r \in Request, LockViewer(r)
  PROVE  IInv'
  <1>1. /\ TypeOK /\ RequestOK(r) /\ UNCHANGED svars
        /\ pc' = [pc EXCEPT ![r] = "viewer"] /\ UNCHANGED <<todo, draft, seen>>
    BY DEF IInv, LockViewer, Goto
  <1>2. /\ Exclusion' /\ DOMAIN held' = Request
        /\ \A s \in Request \ {r} : held'[s] = held[s]
    BY LockKeeps DEF LockViewer
  <1>3. /\ pc' \in [Request -> Location] /\ pc'[r] = "viewer" /\ pc[r] = "begin"
        /\ \A s \in Request \ {r} : pc'[s] = pc[s]
    BY <1>1 DEF TypeOK, Location, LockViewer
  <1>4. RequestOK(r)'
    BY <1>1, <1>3 DEF RequestOK, Route, Guarded, HasArticle, HasSlug, Prepared, Answers,
                      Favoriting, LockViewer, svars
  <1>. QED
    BY <1>1, <1>2, <1>3, <1>4, StatementKeeps DEF TypeOK

LEMMA LockArticleKeeps ==
  ASSUME IInv, NEW r \in Request, LockArticle(r)
  PROVE  IInv'
  <1>1. /\ TypeOK /\ RequestOK(r) /\ Route(r) /\ ask[r].op \in Op
        /\ ask[r].article \in Article /\ pc[r] \in {"viewer", "begin"}
    BY AskTypes DEF IInv, RequestOK, LockArticle
  <1>2. CASE RollBack(r, "notFound") \/ RollBack(r, "forbidden")
    BY <1>1, <1>2, RollBackKeeps
  <1>3. CASE ~(RollBack(r, "notFound") \/ RollBack(r, "forbidden"))
    <2>1. /\ Live(ask[r].article) /\ Granted(r) /\ Lock(r)
          /\ ask[r].op \in {"update", "delete"} => articles[ask[r].article].author = ask[r].user
          /\ pc' = [pc EXCEPT ![r] = "locked"]
          /\ draft' = [draft EXCEPT ![r] = articles[ask[r].article]]
          /\ UNCHANGED svars /\ UNCHANGED <<todo, seen>>
      BY <1>3 DEF LockArticle, Goto
    <2>2. Wants(r) = <<Articles(ask[r].article), "update">> /\ ask[r].op # "create"
      BY <1>1, WantsArticle DEF LockArticle, Route, Favoriting
    <2>3. /\ Exclusion' /\ DOMAIN held' = Request
          /\ <<Articles(ask[r].article), "update">> \in held'[r]
          /\ \A s \in Request \ {r} : held'[s] = held[s]
      BY <1>1, <2>1, <2>2, LockKeeps, LockAssumption
    <2>4. articles[ask[r].article] \in Row
      BY <1>1, <2>1 DEF TypeOK, StoreTypeOK, Live
    <2>5. /\ pc' \in [Request -> Location] /\ pc'[r] = "locked"
          /\ draft' \in [Request -> Row \cup {None}] /\ draft'[r] = articles[ask[r].article]
          /\ \A s \in Request \ {r} : pc'[s] = pc[s] /\ draft'[s] = draft[s]
      BY <1>1, <2>1, <2>4 DEF TypeOK, Location
    <2>6. RequestOK(r)'
      BY <1>1, <2>1, <2>2, <2>3, <2>5
         DEF RequestOK, Route, Guarded, HasArticle, HasSlug, Prepared, Answers, ArticleOf,
             Favoriting, svars, store, Live
    <2>. QED
      BY <1>1, <2>1, <2>3, <2>5, <2>6, StatementKeeps DEF TypeOK
  <1>. QED
    BY <1>2, <1>3

LEMMA WriteRowKeeps ==
  ASSUME IInv, NEW r \in Request, WriteRow(r)
  PROVE  IInv'
  <1> DEFINE l == IF ask[r].op = "delete" THEN "ready" ELSE "reading"
  <1>1. /\ TypeOK /\ RequestOK(r) /\ pc[r] = "locked" /\ Granted(r) /\ Lock(r)
        /\ ask[r].op \in {"favorite", "unfavorite", "delete"}
        /\ pc' = [pc EXCEPT ![r] = l]
        /\ draft' = [draft EXCEPT ![r] = Draft(ask[r], articles)]
        /\ UNCHANGED svars /\ UNCHANGED <<todo, seen>>
    BY DEF IInv, WriteRow, Goto
  <1>2. /\ Exclusion' /\ DOMAIN held' = Request /\ held[r] \subseteq held'[r]
        /\ \A s \in Request \ {r} : held'[s] = held[s]
    BY <1>1, LockKeeps
  <1>3. /\ <<Articles(ArticleOf(r)), "update">> \in held'[r] /\ Live(ArticleOf(r))
        /\ ask[r].op = "delete" => articles[ArticleOf(r)].author = ask[r].user
    BY <1>1, <1>2 DEF RequestOK, Guarded, HasArticle
  <1>4. Draft(ask[r], articles) \in Row \cup {None}
    BY <1>1, <1>3, DraftTypes
  <1>5. /\ pc' \in [Request -> Location] /\ pc'[r] = l /\ l # "done"
        /\ draft' \in [Request -> Row \cup {None}] /\ draft'[r] = Draft(ask[r], articles)
        /\ \A s \in Request \ {r} : pc'[s] = pc[s] /\ draft'[s] = draft[s]
    BY <1>1, <1>4 DEF TypeOK, Location
  <1>6. Route(r)' /\ Guarded(r)' /\ Prepared(r)'
    BY <1>1, <1>3, <1>5 DEF Route, Guarded, HasArticle, HasSlug, Prepared, ArticleOf,
                            Favoriting, Reading, svars, store, Live
  <1>7. Answers(r)'
    BY <1>1, <1>5 DEF RequestOK, Answers, Reading, svars
  <1>. HIDE DEF l
  <1>. QED
    BY <1>1, <1>2, <1>5, <1>6, <1>7, StatementKeeps DEF TypeOK, RequestOK

LEMMA SaveKeeps ==
  ASSUME IInv, NEW r \in Request, Save(r)
  PROVE  IInv'
  <1> DEFINE new == Updated(draft[r], ask[r])
  <1>1. /\ TypeOK /\ RequestOK(r) /\ pc[r] = "locked" /\ ask[r].op = "update"
        /\ draft' = [draft EXCEPT ![r] = new]
        /\ UNCHANGED svars /\ UNCHANGED <<held, seen>>
    BY DEF IInv, Save
  <1>2. /\ <<Articles(ArticleOf(r)), "update">> \in held[r] /\ Live(ArticleOf(r))
        /\ articles[ArticleOf(r)].author = ask[r].user
        /\ draft[r] = articles[ArticleOf(r)] /\ seen[r] = <<>>
    BY <1>1 DEF RequestOK, Guarded, HasArticle, Prepared, Answers
  <1>3. new = Draft(ask[r], articles)
    BY <1>1, <1>2 DEF Draft, ArticleOf
  <1>4. new \in Row
    BY <1>1, <1>2, <1>3, DraftTypes
  <1>. HIDE DEF new
  <1>5. \/ pc' = [pc EXCEPT ![r] = "reading"] /\ todo' = todo
        \/ pc' = [pc EXCEPT ![r] = "tags"] /\ todo' = [todo EXCEPT ![r] = new.tags]
    BY DEF Save, Goto, new
  <1>6. /\ pc' \in [Request -> Location] /\ pc'[r] \in {"reading", "tags"}
        /\ \A s \in Request \ {r} : pc'[s] = pc[s]
    BY <1>1, <1>5 DEF TypeOK, Location
  <1>7. todo' \in [Request -> Seq(Tag)]
    BY <1>1, <1>4, <1>5 DEF TypeOK, Row
  <1>8. /\ draft' \in [Request -> Row \cup {None}] /\ draft'[r] = new
        /\ \A s \in Request \ {r} : draft'[s] = draft[s]
    BY <1>1, <1>4 DEF TypeOK
  <1>9. Route(r)' /\ Guarded(r)' /\ Prepared(r)'
    BY <1>1, <1>2, <1>3, <1>6, <1>8
       DEF Route, Guarded, HasArticle, HasSlug, Prepared, ArticleOf, Reading, svars, store, Live
  <1>10. Answers(r)'
    BY <1>1, <1>2, <1>6 DEF Answers
  <1>11. DOMAIN held' = Request /\ DOMAIN seen' = Request /\ Exclusion'
    BY <1>1 DEF TypeOK, IInv, Exclusion
  <1>. QED
    BY <1>1, <1>6, <1>7, <1>8, <1>9, <1>10, <1>11, StatementKeeps DEF RequestOK

LEMMA InsertArticleKeeps ==
  ASSUME IInv, NEW r \in Request, InsertArticle(r)
  PROVE  IInv'
  <1>1. /\ TypeOK /\ RequestOK(r) /\ ask[r].op = "create" /\ pc[r] = "begin" /\ Granted(r)
        /\ ask[r] \in Ask /\ ask[r].article \in Article
    BY AskTypes DEF IInv, InsertArticle
  <1>2. CASE RollBack(r, "conflict")
    BY <1>1, <1>2, RollBackKeeps
  <1>3. CASE ~RollBack(r, "conflict")
    <2>1. /\ ~Live(ask[r].article) /\ Lock(r)
          /\ pc' = [pc EXCEPT ![r] = "slug"]
          /\ draft' = [draft EXCEPT ![r] = Created(ask[r])]
          /\ UNCHANGED svars /\ UNCHANGED <<todo, seen>>
      BY <1>3 DEF InsertArticle, Goto
    <2>2. /\ Exclusion' /\ DOMAIN held' = Request
          /\ <<Slugs(ask[r].article), "update">> \in held'[r]
          /\ \A s \in Request \ {r} : held'[s] = held[s]
      BY <1>1, <2>1, WantsSlug, LockKeeps, LockAssumption
    <2>3. Created(ask[r]) \in Row /\ Created(ask[r]) = Draft(ask[r], articles)
      BY <1>1, CreatedRow DEF Draft
    <2>4. /\ pc' \in [Request -> Location] /\ pc'[r] = "slug"
          /\ draft' \in [Request -> Row \cup {None}] /\ draft'[r] = Draft(ask[r], articles)
          /\ \A s \in Request \ {r} : pc'[s] = pc[s] /\ draft'[s] = draft[s]
      BY <1>1, <2>1, <2>3 DEF TypeOK, Location
    <2>5. RequestOK(r)'
      BY <1>1, <2>1, <2>2, <2>4
         DEF RequestOK, Route, Guarded, HasArticle, HasSlug, Prepared, Answers, ArticleOf,
             svars, store, Live
    <2>. QED
      BY <1>1, <2>1, <2>2, <2>4, <2>5, StatementKeeps DEF TypeOK
  <1>. QED
    BY <1>2, <1>3

LEMMA CheckAuthorKeeps ==
  ASSUME IInv, NEW r \in Request, CheckAuthor(r)
  PROVE  IInv'
  <1>1. /\ TypeOK /\ RequestOK(r) /\ pc[r] = "slug" /\ Granted(r) /\ Lock(r)
        /\ pc' = [pc EXCEPT ![r] = "tags"]
        /\ todo' = [todo EXCEPT ![r] = draft[r].tags]
        /\ UNCHANGED svars /\ UNCHANGED <<draft, seen>>
    BY DEF IInv, CheckAuthor, Goto
  <1>2. /\ Exclusion' /\ DOMAIN held' = Request /\ held[r] \subseteq held'[r]
        /\ \A s \in Request \ {r} : held'[s] = held[s]
    BY <1>1, LockKeeps
  <1>3. ask[r].op = "create" /\ draft[r] = Draft(ask[r], articles)
    BY <1>1 DEF RequestOK, Route, Prepared
  <1>4. draft[r].tags \in Seq(Tag)
    <2>1. draft[r] \in Row
      BY <1>1, <1>3, DraftTypes
    <2>. QED
      BY <2>1 DEF Row
  <1>5. /\ pc' \in [Request -> Location] /\ pc'[r] = "tags" /\ todo' \in [Request -> Seq(Tag)]
        /\ \A s \in Request \ {r} : pc'[s] = pc[s]
    BY <1>1, <1>4 DEF TypeOK, Location
  <1>6. RequestOK(r)'
    BY <1>1, <1>2, <1>3, <1>5
       DEF RequestOK, Route, Guarded, HasArticle, HasSlug, Prepared, Answers, ArticleOf,
           svars, store, Live
  <1>. QED
    BY <1>1, <1>2, <1>5, <1>6, StatementKeeps DEF TypeOK

LEMMA InsertTagKeeps ==
  ASSUME IInv, NEW r \in Request, InsertTag(r)
  PROVE  IInv'
  <1>1. /\ TypeOK /\ RequestOK(r) /\ pc[r] = "tags" /\ todo[r] # <<>>
        /\ todo' = [todo EXCEPT ![r] = Tail(@)]
        /\ UNCHANGED svars /\ UNCHANGED <<pc, draft, seen>>
    BY DEF IInv, InsertTag
  <1>2. /\ Exclusion' /\ DOMAIN held' = Request /\ held[r] \subseteq held'[r]
        /\ \A s \in Request \ {r} : held'[s] = held[s]
    <2>1. CASE UNCHANGED held
      BY <1>1, <2>1 DEF IInv, Exclusion, TypeOK
    <2>2. CASE Granted(r) /\ Lock(r)
      BY <2>2, LockKeeps
    <2>. QED
      BY <2>1, <2>2 DEF InsertTag
  <1>3. todo' \in [Request -> Seq(Tag)]
    <2>1. todo[r] \in Seq(Tag)
      BY <1>1 DEF TypeOK
    <2>2. Tail(todo[r]) \in Seq(Tag)
      BY <1>1, <2>1
    <2>. QED
      BY <1>1, <2>2 DEF TypeOK
  <1>4. RequestOK(r)'
    BY <1>1, <1>2
       DEF RequestOK, Route, Guarded, HasArticle, HasSlug, Prepared, Answers, ArticleOf,
           Favoriting, svars, store, Live
  <1>. QED
    BY <1>1, <1>2, <1>3, <1>4, StatementKeeps DEF TypeOK

LEMMA InsertCommentKeeps ==
  ASSUME IInv, NEW r \in Request, InsertComment(r)
  PROVE  IInv'
  <1>1. /\ TypeOK /\ RequestOK(r) /\ pc[r] = "locked" /\ ask[r].op = "comment"
        /\ Granted(r) /\ Lock(r)
        /\ pc' = [pc EXCEPT ![r] = "ready"]
        /\ UNCHANGED svars /\ UNCHANGED <<todo, draft, seen>>
    BY DEF IInv, InsertComment, Goto
  <1>2. /\ Exclusion' /\ DOMAIN held' = Request /\ held[r] \subseteq held'[r]
        /\ \A s \in Request \ {r} : held'[s] = held[s]
    BY <1>1, LockKeeps
  <1>3. draft[r] = Draft(ask[r], articles)
    BY <1>1 DEF RequestOK, Prepared, Draft, ArticleOf
  <1>4. /\ pc' \in [Request -> Location] /\ pc'[r] = "ready"
        /\ \A s \in Request \ {r} : pc'[s] = pc[s]
    BY <1>1 DEF TypeOK, Location
  <1>5. RequestOK(r)'
    BY <1>1, <1>2, <1>3, <1>4
       DEF RequestOK, Route, Guarded, HasArticle, HasSlug, Prepared, Answers, ArticleOf,
           Reading, svars, store, Live
  <1>. QED
    BY <1>1, <1>2, <1>4, <1>5, StatementKeeps DEF TypeOK

LEMMA DeleteCommentKeeps ==
  ASSUME IInv, NEW r \in Request, DeleteComment(r)
  PROVE  IInv'
  <1>1. /\ TypeOK /\ RequestOK(r) /\ pc[r] = "locked" /\ ask[r].op = "uncomment" /\ Granted(r)
    BY DEF IInv, DeleteComment
  <1>2. CASE RollBack(r, "notFound") \/ RollBack(r, "forbidden")
    BY <1>1, <1>2, RollBackKeeps
  <1>3. CASE ~(RollBack(r, "notFound") \/ RollBack(r, "forbidden"))
    <2>1. /\ \E c \in comments :
               c.id = ask[r].comment /\ c.article = ArticleOf(r) /\ c.author = ask[r].user
          /\ Lock(r)
          /\ pc' = [pc EXCEPT ![r] = "ready"]
          /\ UNCHANGED svars /\ UNCHANGED <<todo, draft, seen>>
      BY <1>3 DEF DeleteComment, Goto
    <2>2. /\ Exclusion' /\ DOMAIN held' = Request /\ held[r] \subseteq held'[r]
          /\ \A s \in Request \ {r} : held'[s] = held[s]
      BY <1>1, <2>1, LockKeeps
    <2>3. draft[r] = Draft(ask[r], articles)
      BY <1>1 DEF RequestOK, Prepared, Draft, ArticleOf
    <2>4. /\ pc' \in [Request -> Location] /\ pc'[r] = "ready"
          /\ \A s \in Request \ {r} : pc'[s] = pc[s]
      BY <1>1, <2>1 DEF TypeOK, Location
    <2>5. RequestOK(r)'
      BY <1>1, <2>1, <2>2, <2>3, <2>4
         DEF RequestOK, Route, Guarded, HasArticle, HasSlug, Prepared, Answers, ArticleOf,
             Reading, svars, store, Live
    <2>. QED
      BY <1>1, <2>1, <2>2, <2>4, <2>5, StatementKeeps DEF TypeOK
  <1>. QED
    BY <1>2, <1>3

\* Nobody has favored an article that is not there yet.
LEMMA NewView ==
  ASSUME IInv, NEW r \in Request, HasSlug(r)
  PROVE  ViewOf(r) = <<draft[r].title, draft[r].tags, 0, FALSE>>
  <1> DEFINE a == ArticleOf(r)
  <1>1. /\ ask[r].op = "create" /\ ~Live(a) /\ a \in Article /\ DOMAIN articles = Article
    BY AskTypes DEF IInv, HasSlug, RequestOK, Guarded, ArticleOf, TypeOK, StoreTypeOK
  <1>2. FavoritesAfter(ask[r]) = favorites
    BY <1>1 DEF FavoritesAfter
  <1>3. {f \in favorites : f[2] = a} = {} /\ <<ask[r].user, a>> \notin favorites
    BY <1>1 DEF IInv, Constraints
  <1>4. Cardinality({f \in favorites : f[2] = a}) = 0
    BY <1>3, FS_EmptySet
  <1>5. [articles EXCEPT ![a] = draft[r]][a] = draft[r]
    BY <1>1
  <1>6. (<<ask[r].user, a>> \in favorites) = FALSE
    BY <1>3
  <1>. HIDE DEF a
  <1>7. View([articles EXCEPT ![a] = draft[r]], favorites, ask[r].user, a)
          = <<draft[r].title, draft[r].tags, 0, FALSE>>
    BY <1>4, <1>5, <1>6 DEF View
  <1>. QED
    BY <1>2, <1>7 DEF ViewOf, a

LEMMA LinkTagsKeeps ==
  ASSUME IInv, NEW r \in Request, LinkTags(r)
  PROVE  IInv'
  <1>1. /\ TypeOK /\ RequestOK(r) /\ pc[r] = "tags" /\ ask[r].op \in {"create", "update"}
        /\ UNCHANGED svars /\ UNCHANGED <<held, todo, draft>>
    BY DEF IInv, LinkTags, RequestOK, Route
  <1>2. Exclusion' /\ DOMAIN held' = Request
    BY <1>1 DEF IInv, Exclusion, TypeOK
  <1>3. ViewOf(r)' = ViewOf(r)
    BY <1>1 DEF ViewOf, View, ArticleOf, FavoritesAfter, svars, store
  <1>4. CASE ask[r].op = "update"
    <2>1. pc' = [pc EXCEPT ![r] = "reading"] /\ seen' = seen
      BY <1>4 DEF LinkTags, Goto
    <2>2. /\ pc' \in [Request -> Location] /\ pc'[r] = "reading"
          /\ \A s \in Request \ {r} : pc'[s] = pc[s]
      BY <1>1, <2>1 DEF TypeOK, Location
    <2>3. RequestOK(r)'
      BY <1>1, <1>4, <2>1, <2>2
         DEF RequestOK, Route, Guarded, HasArticle, HasSlug, Prepared, Answers, ArticleOf,
             Reading, svars, store, Live
    <2>. QED
      BY <1>1, <1>2, <2>1, <2>2, <2>3, StatementKeeps DEF TypeOK
  <1>5. CASE ask[r].op = "create"
    <2>1. /\ pc' = [pc EXCEPT ![r] = "ready"]
          /\ seen' = [seen EXCEPT ![r] = <<draft[r].title, draft[r].tags, 0, FALSE>>]
      BY <1>5 DEF LinkTags, Goto
    <2>2. /\ pc' \in [Request -> Location] /\ pc'[r] = "ready" /\ DOMAIN seen' = Request
          /\ \A s \in Request \ {r} : pc'[s] = pc[s] /\ seen'[s] = seen[s]
      BY <1>1, <2>1 DEF TypeOK, Location
    <2>3. seen'[r] = ViewOf(r)'
      BY <1>1, <1>3, <1>5, <2>1, NewView DEF TypeOK, HasSlug
    <2>4. Answers(r)'
      BY <1>1, <1>5, <2>2, <2>3 DEF Answers, svars
    <2>5. RequestOK(r)'
      BY <1>1, <1>5, <2>2, <2>4
         DEF RequestOK, Route, Guarded, HasArticle, HasSlug, Prepared, ArticleOf,
             Reading, svars, store, Live
    <2>. QED
      BY <1>1, <1>2, <2>2, <2>5, StatementKeeps DEF TypeOK
  <1>. QED
    BY <1>1, <1>4, <1>5

LEMMA Appends ==
  ASSUME NEW a, NEW b, NEW c, NEW d
  PROVE  /\ Append(<<>>, a) = <<a>> /\ Len(<<>>) = 0 /\ Len(<<a>>) = 1
         /\ Append(<<a>>, b) = <<a, b>> /\ Len(<<a, b>>) = 2
         /\ Append(<<a, b>>, c) = <<a, b, c>> /\ Len(<<a, b, c>>) = 3
         /\ Append(<<a, b, c>>, d) = <<a, b, c, d>> /\ Len(<<a, b, c, d>>) = 4
  <1> DEFINE S == {a, b, c, d}
  <1>1. /\ <<a>> \in Seq(S) /\ <<a, b>> \in Seq(S)
        /\ <<a, b, c>> \in Seq(S) /\ <<a, b, c, d>> \in Seq(S)
    OBVIOUS
  <1>2. Append(<<>>, a) = <<a>> /\ Len(<<>>) = 0 /\ Len(<<a>>) = 1
    OBVIOUS
  <1>3. Len(<<a, b>>) = 2 /\ Len(<<a, b, c>>) = 3 /\ Len(<<a, b, c, d>>) = 4
    OBVIOUS
  <1>4. Append(<<a>>, b) = <<a, b>>
    <2>1. /\ Append(<<a>>, b) \in Seq(S) /\ Len(Append(<<a>>, b)) = 2
          /\ Append(<<a>>, b)[1] = a /\ Append(<<a>>, b)[2] = b
      BY <1>1, <1>2, AppendProperties
    <2>2. /\ Len(Append(<<a>>, b)) = Len(<<a, b>>)
          /\ \A i \in 1..Len(Append(<<a>>, b)) : Append(<<a>>, b)[i] = <<a, b>>[i]
      BY <1>3, <2>1
    <2>. HIDE DEF S
    <2>. QED
      BY <1>1, <2>1, <2>2, SeqEqual, Zenon
  <1>5. Append(<<a, b>>, c) = <<a, b, c>>
    <2>1. /\ Append(<<a, b>>, c) \in Seq(S) /\ Len(Append(<<a, b>>, c)) = 3
          /\ Append(<<a, b>>, c)[1] = a /\ Append(<<a, b>>, c)[2] = b
          /\ Append(<<a, b>>, c)[3] = c
      BY <1>1, <1>3, AppendProperties
    <2>2. /\ Len(Append(<<a, b>>, c)) = Len(<<a, b, c>>)
          /\ \A i \in 1..Len(Append(<<a, b>>, c)) : Append(<<a, b>>, c)[i] = <<a, b, c>>[i]
      BY <1>3, <2>1
    <2>. HIDE DEF S
    <2>. QED
      BY <1>1, <2>1, <2>2, SeqEqual, Zenon
  <1>6. Append(<<a, b, c>>, d) = <<a, b, c, d>>
    <2>1. /\ Append(<<a, b, c>>, d) \in Seq(S) /\ Len(Append(<<a, b, c>>, d)) = 4
          /\ Append(<<a, b, c>>, d)[1] = a /\ Append(<<a, b, c>>, d)[2] = b
          /\ Append(<<a, b, c>>, d)[3] = c /\ Append(<<a, b, c>>, d)[4] = d
      BY <1>1, <1>3, AppendProperties
    <2>2. /\ Len(Append(<<a, b, c>>, d)) = Len(<<a, b, c, d>>)
          /\ \A i \in 1..Len(Append(<<a, b, c>>, d)) : Append(<<a, b, c>>, d)[i] = <<a, b, c, d>>[i]
      BY <1>3, <2>1
    <2>. HIDE DEF S
    <2>. QED
      BY <1>1, <2>1, <2>2, SeqEqual, Zenon
  <1>. QED
    BY <1>2, <1>3, <1>4, <1>5, <1>6

LEMMA ReadKeeps ==
  ASSUME IInv, NEW r \in Request, Read(r)
  PROVE  IInv'
  <1> DEFINE v == ViewOf(r)
             next == Append(seen[r], v[Len(seen[r]) + 1])
  <1>1. /\ TypeOK /\ RequestOK(r) /\ pc[r] = "reading" /\ ask[r].op \in Reading
        /\ seen' = [seen EXCEPT ![r] = next]
        /\ IF Len(next) = 4 THEN pc' = [pc EXCEPT ![r] = "ready"] ELSE UNCHANGED pc
        /\ UNCHANGED svars /\ UNCHANGED <<held, todo, draft>>
    BY DEF IInv, Read, Goto, RequestOK, Route, ViewOf
  <1>2. Exclusion' /\ DOMAIN held' = Request
    BY <1>1 DEF IInv, Exclusion, TypeOK
  <1>3. ViewOf(r)' = v
    BY <1>1 DEF ViewOf, View, ArticleOf, FavoritesAfter, svars, store
  <1>4. v = <<v[1], v[2], v[3], v[4]>>
    BY ViewFields DEF ViewOf
  <1>. HIDE DEF v
  <1>5. seen[r] \in {<<>>, <<v[1]>>, <<v[1], v[2]>>, <<v[1], v[2], v[3]>>}
    BY <1>1 DEF RequestOK, Answers, v
  <1>. HIDE DEF next
  <1>6. \/ next \in {<<v[1]>>, <<v[1], v[2]>>, <<v[1], v[2], v[3]>>} /\ Len(next) # 4
        \/ next = v /\ Len(next) = 4
    <2>1. ASSUME seen[r] = <<>> PROVE next = <<v[1]>> /\ Len(next) = 1
      <3>1. Len(seen[r]) + 1 = 1 /\ next = Append(<<>>, v[1])
        BY <2>1, Appends DEF next
      <3>. QED
        BY <3>1, Appends
    <2>2. ASSUME seen[r] = <<v[1]>> PROVE next = <<v[1], v[2]>> /\ Len(next) = 2
      <3>1. Len(seen[r]) + 1 = 2 /\ next = Append(<<v[1]>>, v[2])
        BY <2>2, Appends DEF next
      <3>. QED
        BY <3>1, Appends
    <2>3. ASSUME seen[r] = <<v[1], v[2]>> PROVE next = <<v[1], v[2], v[3]>> /\ Len(next) = 3
      <3>1. Len(seen[r]) + 1 = 3 /\ next = Append(<<v[1], v[2]>>, v[3])
        BY <2>3, Appends DEF next
      <3>. QED
        BY <3>1, Appends
    <2>4. ASSUME seen[r] = <<v[1], v[2], v[3]>> PROVE next = <<v[1], v[2], v[3], v[4]>> /\ Len(next) = 4
      <3>1. Len(seen[r]) + 1 = 4 /\ next = Append(<<v[1], v[2], v[3]>>, v[4])
        BY <2>4, Appends DEF next
      <3>. QED
        BY <3>1, Appends
    <2>. QED
      BY <1>4, <1>5, <2>1, <2>2, <2>3, <2>4
  <1>7. /\ pc' \in [Request -> Location] /\ DOMAIN seen' = Request /\ seen'[r] = next
        /\ pc'[r] \in {"reading", "ready"}
        /\ pc'[r] = "ready" <=> Len(next) = 4
        /\ \A s \in Request \ {r} : pc'[s] = pc[s] /\ seen'[s] = seen[s]
    BY <1>1 DEF TypeOK, Location
  <1>8. Answers(r)'
    BY <1>1, <1>3, <1>6, <1>7 DEF Answers, svars
  <1>9. RequestOK(r)'
    BY <1>1, <1>7, <1>8
       DEF RequestOK, Route, Guarded, HasArticle, HasSlug, Prepared, ArticleOf,
           Reading, svars, store, Live
  <1>. QED
    BY <1>1, <1>2, <1>7, <1>9, StatementKeeps DEF TypeOK

-----------------------------------------------------------------------------
(* The commit *)

\* What a commit changes, in terms of the store.
LEMMA CommitWrites ==
  ASSUME IInv, NEW r \in Request, Commit(r)
  PROVE  /\ ask[r] \in Ask /\ ask[r].op \in Op /\ ask[r].user \in User /\ ArticleOf(r) \in Article
         /\ HasArticle(r) \/ HasSlug(r)
         /\ draft[r] = Draft(ask[r], articles)
         /\ articles' = [articles EXCEPT ![ArticleOf(r)] = draft[r]]
         /\ favorites' = FavoritesAfter(ask[r])
         /\ comments' = CommentsAfter(r, ask[r])
         /\ tagNames' \subseteq Tag
         /\ \E a : /\ End(r, a) /\ a # Pending
                   /\ a.status \in {"ok", "failed", "notFound", "forbidden", "conflict"}
  <1>1. TypeOK /\ RequestOK(r) /\ pc[r] = "ready" /\ Changed(r)
    BY DEF IInv, Commit
  <1>2. /\ ask[r] \in Ask /\ ask[r].op \in Op /\ ask[r].user \in User /\ ArticleOf(r) \in Article
    BY <1>1, AskTypes DEF ArticleOf
  <1>3. HasArticle(r) \/ HasSlug(r)
    BY <1>1 DEF HasArticle, HasSlug
  <1>4. draft[r] = Draft(ask[r], articles)
    BY <1>1 DEF RequestOK, Prepared
  <1>5. /\ articles' = [articles EXCEPT ![ArticleOf(r)] = draft[r]]
        /\ favorites' = FavoritesAfter(ask[r])
        /\ comments' = CommentsAfter(r, ask[r])
        /\ tagNames' \subseteq Tag
    BY <1>1 DEF Changed, Write, ArticleOf, TypeOK, StoreTypeOK
  <1>6. \E a : /\ End(r, a) /\ a # Pending
               /\ a.status \in {"ok", "failed", "notFound", "forbidden", "conflict"}
    <2>1. End(r, Ok(seen[r])) \/ End(r, Refused("failed"))
      BY DEF Commit
    <2>2. /\ Ok(seen[r]) # Pending /\ Ok(seen[r]).status = "ok"
          /\ Refused("failed") # Pending /\ Refused("failed").status = "failed"
      BY DEF Ok, Refused, Pending
    <2>. QED
      BY <2>1, <2>2
  <1>. QED
    BY <1>1, <1>2, <1>3, <1>4, <1>5, <1>6

\* No other transaction that has its article or its slug can see the change.
LEMMA CommitSpares ==
  ASSUME IInv, NEW r \in Request, Commit(r), NEW s \in Request \ {r},
         HasArticle(s) \/ HasSlug(s)
  PROVE  /\ ArticleOf(s) # ArticleOf(r)
         /\ articles'[ArticleOf(s)] = articles[ArticleOf(s)]
         /\ FavoritesOf(favorites', ArticleOf(s)) = FavoritesOf(favorites, ArticleOf(s))
         /\ \A c \in comments : c.article = ArticleOf(s) => c \in comments'
  <1>1. /\ Guarded(r) /\ Guarded(s) /\ Exclusion /\ Constraints
        /\ ArticleOf(s) \in Article /\ DOMAIN articles = Article
    BY AskTypes DEF IInv, RequestOK, TypeOK, StoreTypeOK, ArticleOf
  <1>2. HasArticle(r) \/ HasSlug(r)
    BY CommitWrites
  <1>3. ArticleOf(s) # ArticleOf(r)
    <2>1. SUFFICES ASSUME ArticleOf(s) = ArticleOf(r) PROVE FALSE
      OBVIOUS
    <2>2. CASE HasArticle(r) /\ HasArticle(s)
      <3>1. /\ <<Articles(ArticleOf(r)), "update">> \in held[r]
            /\ <<Articles(ArticleOf(r)), "update">> \in held[s]
        BY <1>1, <2>1, <2>2 DEF Guarded
      <3>. QED
        BY <1>1, <3>1 DEF Exclusion, Clash
    <2>3. CASE HasSlug(r) /\ HasSlug(s)
      <3>1. /\ <<Slugs(ArticleOf(r)), "update">> \in held[r]
            /\ <<Slugs(ArticleOf(r)), "update">> \in held[s]
        BY <1>1, <2>1, <2>3 DEF Guarded
      <3>. QED
        BY <1>1, <3>1 DEF Exclusion, Clash
    <2>. QED
      BY <1>1, <1>2, <2>1, <2>2, <2>3 DEF Guarded
  <1>4. articles'[ArticleOf(s)] = articles[ArticleOf(s)]
    BY <1>1, <1>3, CommitWrites
  <1>5. FavoritesOf(favorites', ArticleOf(s)) = FavoritesOf(favorites, ArticleOf(s))
    <2>1. favorites' = FavoritesAfter(ask[r])
      BY CommitWrites
    <2>. QED
      BY <1>3, <2>1 DEF FavoritesAfter, FavoritesOf, ArticleOf
  <1>6. ASSUME NEW c \in comments, c.article = ArticleOf(s) PROVE c \in comments'
    <2>1. comments' = CommentsAfter(r, ask[r])
      BY CommitWrites
    <2>2. CASE ask[r].op = "uncomment"
      <3>1. PICK d \in comments : d.id = ask[r].comment /\ d.article = ArticleOf(r)
        BY <1>1, <2>2 DEF Guarded, Commit
      <3>2. c.id # ask[r].comment
        BY <1>1, <1>3, <1>6, <3>1 DEF Constraints
      <3>. QED
        BY <2>1, <2>2, <3>2 DEF CommentsAfter
    <2>3. CASE ask[r].op # "uncomment"
      BY <1>3, <1>6, <2>1, <2>3 DEF CommentsAfter, ArticleOf
    <2>. QED
      BY <2>2, <2>3
  <1>. QED
    BY <1>3, <1>4, <1>5, <1>6

LEMMA CommitOthers ==
  ASSUME IInv, NEW r \in Request, Commit(r), NEW s \in Request \ {r}
  PROVE  RequestOK(s)'
  <1> DEFINE a == ArticleOf(s)
  <1>1. /\ RequestOK(s) /\ ask' = ask /\ pc'[s] = pc[s] /\ held'[s] = held[s]
        /\ draft'[s] = draft[s] /\ seen'[s] = seen[s]
        /\ a \in Article /\ DOMAIN articles = Article /\ DOMAIN articles' = Article
    BY CommitWrites, EndKeeps, AskTypes DEF IInv, TypeOK, StoreTypeOK, ArticleOf
  <1>2. CASE HasArticle(s) \/ HasSlug(s)
    <2>1. /\ articles'[a] = articles[a]
          /\ FavoritesOf(favorites', a) = FavoritesOf(favorites, a)
          /\ \A c \in comments : c.article = a => c \in comments'
      BY <1>2, CommitSpares
    <2>2. ViewOf(s)' = ViewOf(s)
      <3> DEFINE rows == [articles EXCEPT ![a] = draft[s]]
                 rows2 == [articles' EXCEPT ![a] = draft[s]]
                 favs == FavoritesAfter(ask[s])
                 favs2 == FavoritesAfter(ask[s])'
      <3>1. FavoritesOf(favs, a) = FavoritesOf(favs2, a)
        BY <1>1, <2>1 DEF FavoritesAfter, FavoritesOf, ArticleOf
      <3>2. rows[a] = rows2[a]
        BY <1>1
      <3>3. /\ ViewOf(s)' = View(rows2, favs2, ask[s].user, a)
            /\ ViewOf(s) = View(rows, favs, ask[s].user, a)
        BY <1>1 DEF ViewOf, ArticleOf, FavoritesAfter
      <3>. HIDE DEF a, rows, rows2, favs, favs2
      <3>4. View(rows, favs, ask[s].user, a) = View(rows2, favs2, ask[s].user, a)
        BY <3>1, <3>2, ViewDepends
      <3>. QED
        BY <3>3, <3>4
    <2>3. Draft(ask[s], articles') = Draft(ask[s], articles)
      BY <2>1 DEF Draft, ArticleOf
    <2>4. Route(s)' /\ Prepared(s)'
      BY <1>1, <2>1, <2>3 DEF RequestOK, Route, Prepared, ArticleOf, Favoriting
    <2>5. Guarded(s)'
      BY <1>1, <1>2, <2>1 DEF RequestOK, Guarded, HasArticle, HasSlug, ArticleOf, Live
    <2>6. Answers(s)'
      BY <1>1, <2>2 DEF RequestOK, Answers
    <2>. QED
      BY <2>4, <2>5, <2>6 DEF RequestOK
  <1>3. CASE ~(HasArticle(s) \/ HasSlug(s))
    <2>1. pc[s] \in {"begin", "viewer", "done"}
      BY <1>1, <1>3 DEF RequestOK, Route, HasArticle, HasSlug, IInv, TypeOK, Location, Reading
    <2>. QED
      BY <1>1, <2>1 DEF RequestOK, Route, Guarded, HasArticle, HasSlug, Prepared, Answers,
                        Favoriting
  <1>. QED
    BY <1>2, <1>3

LEMMA CommitKeeps ==
  ASSUME IInv, NEW r \in Request, Commit(r)
  PROVE  IInv'
  <1> DEFINE q == ask[r]
             a == ArticleOf(r)
  <1>1. /\ TypeOK /\ StoreTypeOK /\ Constraints /\ Guarded(r) /\ pc[r] = "ready"
        /\ a = q.article /\ q.user \in User /\ a \in Article /\ q.op \in Op
        /\ DOMAIN articles = Article
    BY CommitWrites DEF IInv, TypeOK, StoreTypeOK, RequestOK, Commit, ArticleOf
  <1>2. draft[r] \in Row \cup {None} /\ (q.op # "delete" => draft[r] # None)
    <2>1. q.op # "create" => Live(a)
      BY CommitWrites DEF IInv, RequestOK, Guarded, HasSlug
    <2>. QED
      BY <1>1, <2>1, DraftTypes, CommitWrites, StoreAssumption
  <1>3. /\ articles' = [articles EXCEPT ![a] = draft[r]]
        /\ favorites' = FavoritesAfter(q) /\ comments' = CommentsAfter(r, q)
        /\ tagNames' \subseteq Tag
        /\ q.op \in {"favorite", "unfavorite", "comment", "uncomment"} => Live(a)
    BY CommitWrites DEF IInv, RequestOK, Guarded, HasSlug
  <1>4. PICK e : /\ End(r, e) /\ e # Pending
                 /\ e.status \in {"ok", "failed", "notFound", "forbidden", "conflict"}
    BY CommitWrites
  <1>5. /\ pc'[r] = "done" /\ \A s \in Request \ {r} : pc'[s] = pc[s]
    BY <1>4, EndKeeps
  <1>. HIDE DEF q, a
  <1>6. TypeOK'
    <2>1. articles' \in [Article -> Row \cup {None}]
      BY <1>1, <1>2, <1>3 DEF StoreTypeOK
    <2>2. favorites' \subseteq User \X Article
      BY <1>1, <1>3 DEF StoreTypeOK, FavoritesAfter
    <2>3. comments' \subseteq CommentRow
      BY <1>1, <1>3 DEF StoreTypeOK, CommentsAfter, CommentRow
    <2>4. ask' \in [Request -> Ask]
      BY <1>1, <1>4, EndKeeps DEF StoreTypeOK
    <2>. QED
      BY <1>3, <1>4, <2>1, <2>2, <2>3, <2>4, EndKeeps DEF TypeOK, StoreTypeOK
  <1>7. Constraints'
    <2>1. \A f \in favorites' : articles'[f[2]] # None
      <3>1. SUFFICES ASSUME NEW f \in favorites' PROVE articles'[f[2]] # None
        OBVIOUS
      <3>2. f[2] = a \/ f \in favorites
        BY <1>1, <1>3, <3>1 DEF FavoritesAfter
      <3>3. q.op = "delete" => f[2] # a
        BY <1>1, <1>3, <3>1 DEF FavoritesAfter
      <3>4. f[2] = a => articles'[f[2]] # None
        BY <1>1, <1>2, <1>3, <3>3
      <3>5. f[2] # a => articles'[f[2]] # None
        BY <1>1, <1>3, <3>2 DEF Constraints, Live, StoreTypeOK
      <3>. QED
        BY <3>4, <3>5
    <2>2. \A c \in comments' : c \in comments \/ c.id = r
      BY <1>3 DEF CommentsAfter
    <2>3. \A c \in comments : c.id # r
      BY <1>1 DEF Constraints
    <2>4. \A c, d \in comments' : c.id = d.id => c = d
      BY <1>1, <1>3, <2>3 DEF CommentsAfter, Constraints
    <2>5. \A c \in comments' : c.id \in Request => pc'[c.id] = "done"
      BY <1>1, <1>5, <2>2 DEF Constraints
    <2>. QED
      BY <2>1, <2>4, <2>5 DEF Constraints, Live
  <1>8. Exclusion' /\ RequestOK(r)'
    BY <1>4, EndKeeps
  <1>9. \A s \in Request : RequestOK(s)'
    BY <1>8, CommitOthers
  <1>. QED
    BY <1>6, <1>7, <1>8, <1>9 DEF IInv

-----------------------------------------------------------------------------
(* The theorems *)

LEMMA StepIInv == IInv /\ [Next]_vars => IInv'
  <1>. SUFFICES ASSUME IInv, [Next]_vars PROVE IInv'
    OBVIOUS
  <1>1. ASSUME NEW r \in Request, Statement(r) PROVE IInv'
    BY <1>1, LockViewerKeeps, LockArticleKeeps, WriteRowKeeps, SaveKeeps, InsertArticleKeeps,
       CheckAuthorKeeps, InsertTagKeeps, LinkTagsKeeps, ReadKeeps, InsertCommentKeeps,
       DeleteCommentKeeps, CommitKeeps DEF Statement
  <1>2. ASSUME NEW r \in Request, Fail(r) PROVE IInv'
    BY <1>2, RollBackKeeps DEF Fail
  <1>3. ASSUME NEW r \in Request, Victim(r) PROVE IInv'
    <2>1. RollBack(r, "failed") /\ Wants(r) # None
      BY <1>3 DEF Victim, IsCycle, Stuck, WaitsFor
    <2>2. pc[r] # "done"
      BY <2>1 DEF Wants
    <2>. QED
      BY <2>1, <2>2, RollBackKeeps
  <1>4. CASE UNCHANGED vars
    <2>1. UNCHANGED <<ask, articles, tagNames, favorites, comments, answer,
                      pc, held, todo, draft, seen>>
      BY <1>4 DEF vars, svars, store, tvars
    <2>2. TypeOK' /\ Exclusion' /\ Constraints'
      BY <2>1 DEF IInv, TypeOK, StoreTypeOK, IsOpen, Exclusion, Constraints, Live
    <2>3. \A s \in Request : RequestOK(s)'
      BY <2>1, OthersKeep DEF store
    <2>. QED
      BY <2>2, <2>3 DEF IInv
  <1>. QED
    BY <1>1, <1>2, <1>3, <1>4 DEF Next

\* The inductive invariant holds in every reachable state: what a transaction
\* has locked, prepared and read is what it would find now.
THEOREM Invariance == Spec => []IInv
  <1>1. Init => IInv
    BY InitIInv
  <1>2. IInv /\ [Next]_vars => IInv'
    BY StepIInv
  <1>. QED
    BY <1>1, <1>2, PTL DEF Spec

\* Every variable keeps its type.
THEOREM TypeCorrect == Spec => []TypeOK
  <1>1. IInv => TypeOK
    BY DEF IInv
  <1>. QED
    BY <1>1, Invariance, PTL

\* Row locks that exclude each other are never held by two transactions at once.
THEOREM LocksExclude == Spec => []Exclusion
  <1>1. IInv => Exclusion
    BY DEF IInv
  <1>. QED
    BY <1>1, Invariance, PTL

-----------------------------------------------------------------------------
(* The transactions implement the store *)

LEMMA Open ==
  ASSUME IInv, NEW r \in Request, pc[r] # "done"
  PROVE  IsOpen(r)
  BY DEF IInv, TypeOK

LEMMA GivesUp ==
  ASSUME IInv, NEW r \in Request, pc[r] # "done", RollBack(r, "failed")
  PROVE  GiveUp(r)
  BY Open DEF GiveUp, RollBack, End

LEMMA Refuses ==
  ASSUME IInv, NEW r \in Request, pc[r] # "done", RollBack(r, Refusal(ask[r])),
         Refusal(ask[r]) # "none"
  PROVE  Refuse(r)
  BY Open DEF Refuse, RollBack, End

LEMMA LockArticleMaps ==
  ASSUME IInv, NEW r \in Request, LockArticle(r)
  PROVE  Refuse(r) \/ UNCHANGED svars
  <1>1. RequestOK(r) /\ ask[r].op \in Op
    BY AskTypes DEF IInv
  <1>2. /\ pc[r] # "done" /\ ask[r].op \notin {"create"}
    BY <1>1 DEF LockArticle, RequestOK, Route, Favoriting
  <1>3. CASE ~Live(ask[r].article) /\ RollBack(r, "notFound")
    <2>1. Refusal(ask[r]) = "notFound"
      BY <1>2, <1>3 DEF Refusal, IsMissing
    <2>. QED
      BY <1>2, <1>3, <2>1, Refuses
  <1>4. CASE /\ Live(ask[r].article) /\ ask[r].op \in {"update", "delete"}
             /\ articles[ask[r].article].author # ask[r].user /\ RollBack(r, "forbidden")
    <2>1. Refusal(ask[r]) = "forbidden"
      BY <1>4 DEF Refusal, IsMissing, IsForbidden
    <2>. QED
      BY <1>2, <1>4, <2>1, Refuses
  <1>. QED
    BY <1>3, <1>4 DEF LockArticle

LEMMA InsertArticleMaps ==
  ASSUME IInv, NEW r \in Request, InsertArticle(r)
  PROVE  Refuse(r) \/ UNCHANGED svars
  <1>1. pc[r] # "done" /\ ask[r].op = "create"
    BY DEF InsertArticle
  <1>2. CASE Live(ask[r].article) /\ RollBack(r, "conflict")
    <2>1. Refusal(ask[r]) = "conflict"
      BY <1>1, <1>2 DEF Refusal, IsMissing, IsForbidden, IsConflict
    <2>. QED
      BY <1>1, <1>2, <2>1, Refuses
  <1>. QED
    BY <1>2 DEF InsertArticle

LEMMA DeleteCommentMaps ==
  ASSUME IInv, NEW r \in Request, DeleteComment(r)
  PROVE  Refuse(r) \/ UNCHANGED svars
  <1> DEFINE found == {c \in comments : c.id = ask[r].comment /\ c.article = ArticleOf(r)}
  <1>1. /\ pc[r] = "locked" /\ ask[r].op = "uncomment" /\ Live(ask[r].article)
    BY DEF DeleteComment, IInv, RequestOK, Guarded, HasArticle, ArticleOf
  <1>2. CASE found = {} /\ RollBack(r, "notFound")
    <2>1. Refusal(ask[r]) = "notFound"
      BY <1>1, <1>2 DEF Refusal, IsMissing, ArticleOf
    <2>. QED
      BY <1>1, <1>2, <2>1, Refuses
  <1>3. CASE (\E c \in found : c.author # ask[r].user) /\ RollBack(r, "forbidden")
    <2>1. Refusal(ask[r]) = "forbidden"
      BY <1>1, <1>3 DEF Refusal, IsMissing, IsForbidden, ArticleOf
    <2>. QED
      BY <1>1, <1>3, <2>1, Refuses
  <1>. QED
    BY <1>2, <1>3 DEF DeleteComment

LEMMA CommitMaps ==
  ASSUME IInv, NEW r \in Request, Commit(r)
  PROVE  Succeed(r)
  <1> DEFINE q == ask[r]
             a == ArticleOf(r)
  <1>1. /\ TypeOK /\ Constraints /\ RequestOK(r) /\ pc[r] = "ready" /\ q.op \in Op
        /\ draft[r] = Draft(q, articles) /\ (HasArticle(r) \/ HasSlug(r)) /\ a = q.article
    BY CommitWrites DEF IInv, Commit, ArticleOf
  <1>2. Refusal(q) = "none"
    <2>1. CASE q.op = "create"
      BY <1>1, <2>1 DEF RequestOK, Guarded, HasSlug, Refusal, IsMissing, IsForbidden, IsConflict
    <2>2. CASE q.op = "uncomment"
      <3>1. Live(a)
        BY <1>1, <2>2 DEF RequestOK, Guarded, HasSlug
      <3>2. PICK c \in comments : c.id = q.comment /\ c.article = a /\ c.author = q.user
        BY <1>1, <2>2 DEF RequestOK, Guarded
      <3>3. \A d \in comments : d.id = q.comment => d = c
        BY <1>1, <3>2 DEF Constraints
      <3>4. ~IsMissing(q)
        BY <1>1, <2>2, <3>1, <3>2 DEF IsMissing
      <3>5. ~IsForbidden(q)
        BY <1>1, <2>2, <3>2, <3>3 DEF IsForbidden
      <3>6. ~IsConflict(q)
        BY <2>2 DEF IsConflict
      <3>. QED
        BY <3>4, <3>5, <3>6 DEF Refusal
    <2>3. CASE q.op \notin {"create", "uncomment"}
      BY <1>1, <2>3 DEF RequestOK, Guarded, HasSlug, Refusal, IsMissing, IsForbidden, IsConflict
    <2>. QED
      BY <2>1, <2>2, <2>3
  <1>3. \E names \in SUBSET Tag : Write(r, Draft(q, articles), names)
    BY <1>1 DEF Commit, Changed
  <1>4. seen[r] = IF q.op \in Reading \cup {"create"}
                  THEN View(articles', favorites', q.user, q.article) ELSE <<>>
    <2>1. ViewOf(r) = View(articles', favorites', q.user, q.article)
      BY <1>1, CommitWrites DEF ViewOf
    <2>. QED
      BY <1>1, <2>1 DEF RequestOK, Answers
  <1>5. \/ AnswerWith(r, Ok(seen[r]))
        \/ AnswerWith(r, Refused("failed"))
    BY DEF Commit, End
  <1>6. IsOpen(r) /\ UNCHANGED ask
    BY <1>1, Open DEF Commit, End
  <1>. HIDE DEF q, a
  <1>7. \/ AnswerWith(r, Refused("failed"))
        \/ AnswerWith(r, Ok(IF q.op \in Reading \cup {"create"}
                            THEN View(articles', favorites', q.user, q.article) ELSE <<>>))
    BY <1>4, <1>5
  <1>. QED
    BY <1>2, <1>3, <1>6, <1>7 DEF Succeed, q

LEMMA StepMaps == IInv /\ [Next]_vars => [StoreNext]_svars
  <1>. SUFFICES ASSUME IInv, [Next]_vars PROVE [StoreNext]_svars
    OBVIOUS
  <1>1. ASSUME NEW r \in Request, Fail(r) PROVE GiveUp(r)
    BY <1>1, GivesUp DEF Fail
  <1>2. ASSUME NEW r \in Request, Victim(r) PROVE GiveUp(r)
    <2>1. RollBack(r, "failed") /\ Wants(r) # None
      BY <1>2 DEF Victim, IsCycle, Stuck, WaitsFor
    <2>2. pc[r] # "done"
      BY <2>1 DEF Wants
    <2>. QED
      BY <2>1, <2>2, GivesUp
  <1>3. ASSUME NEW r \in Request, Statement(r) PROVE Succeed(r) \/ Refuse(r) \/ UNCHANGED svars
    <2>1. CASE Commit(r)
      BY <2>1, CommitMaps
    <2>2. CASE LockArticle(r) \/ InsertArticle(r) \/ DeleteComment(r)
      BY <2>2, LockArticleMaps, InsertArticleMaps, DeleteCommentMaps
    <2>3. CASE \/ LockViewer(r) \/ WriteRow(r) \/ Save(r) \/ CheckAuthor(r)
               \/ InsertTag(r) \/ LinkTags(r) \/ Read(r) \/ InsertComment(r)
      BY <2>3 DEF LockViewer, WriteRow, Save, CheckAuthor, InsertTag, LinkTags, Read,
                  InsertComment
    <2>. QED
      BY <1>3, <2>1, <2>2, <2>3 DEF Statement
  <1>4. CASE UNCHANGED vars
    BY <1>4 DEF vars
  <1>. QED
    BY <1>1, <1>2, <1>3, <1>4 DEF Next, StoreNext

\* Whatever statements interleave, fail or deadlock, every transaction on an
\* article takes effect at one moment, and its answer is true of that moment.
THEOREM Implements == Spec => ImplementsStore
  <1>1. Init => StoreInit
    BY DEF Init
  <1>2. IInv /\ [Next]_vars => [StoreNext]_svars
    BY StepMaps
  <1>. QED
    BY <1>1, <1>2, Invariance, PTL DEF Spec, ImplementsStore, StoreSpec

\* updated_at moves exactly when the title or the tags of an article move.
THEOREM StampIsTrue == Spec => StampFollowsContent
  <1> DEFINE A == \A a \in Article : Live(a) /\ articles'[a] # None =>
                    (articles'[a].stamp # articles[a].stamp <=>
                       <<articles'[a].title, articles'[a].tags>>
                         # <<articles[a].title, articles[a].tags>>)
  <1>1. ASSUME IInv, [Next]_vars PROVE [A]_vars
    <2>1. [StoreNext]_svars
      BY <1>1, StepMaps
    <2>2. CASE articles' = articles
      BY <2>2
    <2>3. ASSUME NEW r \in Request, Succeed(r) PROVE A
      <3>1. /\ TypeOK /\ ask[r] \in Ask /\ ask[r].op \in Op /\ DOMAIN articles = Article
            /\ articles' = [articles EXCEPT ![ask[r].article] = Draft(ask[r], articles)]
        BY <1>1, <2>3, AskTypes DEF IInv, TypeOK, StoreTypeOK, Succeed, Write
      <3>2. SUFFICES ASSUME NEW a \in Article, Live(a), articles'[a] # None
                     PROVE  articles'[a].stamp # articles[a].stamp <=>
                              <<articles'[a].title, articles'[a].tags>>
                                # <<articles[a].title, articles[a].tags>>
        OBVIOUS
      <3>3. articles[a] \in Row
        BY <3>1, <3>2 DEF TypeOK, StoreTypeOK, Live
      <3>4. CASE a # ask[r].article
        BY <3>1, <3>4
      <3>5. CASE a = ask[r].article
        <4>1. articles'[a] = Draft(ask[r], articles) /\ ask[r].op # "create"
          BY <2>3, <3>1, <3>2, <3>5 DEF Succeed, Refusal, IsConflict
        <4>2. CASE ask[r].op = "update"
          BY <3>1, <3>3, <3>5, <4>1, <4>2, UpdatedRow DEF Draft
        <4>3. CASE ask[r].op = "delete"
          BY <3>2, <4>1, <4>3 DEF Draft
        <4>4. CASE ask[r].op \notin {"create", "update", "delete"}
          BY <3>5, <4>1, <4>4 DEF Draft
        <4>. QED
          BY <4>1, <4>2, <4>3, <4>4
      <3>. QED
        BY <3>4, <3>5
    <2>. QED
      BY <2>1, <2>2, <2>3 DEF StoreNext, Refuse, GiveUp, svars, store
  <1>. HIDE DEF A
  <1>2. Spec => [][A]_vars
    BY <1>1, Invariance, PTL DEF Spec
  <1>. QED
    BY <1>2 DEF StampFollowsContent, A

-----------------------------------------------------------------------------
(* Deadlocks.  Every lock is of a kind its holder can hold where it is; so a  *)
(* request that waits on a tag name waits for one that is at its tags, and of *)
(* the others only a favorite that waits for its article and a comment that   *)
(* waits for its author have somebody waiting behind them in a cycle.         *)

Kind(l) == l[1][1]

HeldOK(r) ==
  \A l \in held[r] :
    \/ Kind(l) = "user" /\ Favoriting(r) /\ pc[r] \in {"viewer", "locked", "reading", "ready"}
    \/ /\ Kind(l) = "user" /\ l[2] = "share"
       /\ ask[r].op \in {"create", "comment"} /\ pc[r] \in {"tags", "ready"}
    \/ Kind(l) = "article" /\ HasArticle(r)
    \/ Kind(l) = "slug" /\ HasSlug(r)
    \/ Kind(l) = "comment" /\ pc[r] = "ready"
    \/ Kind(l) = "tag" /\ pc[r] \in {"tags", "reading", "ready"}

HInv == \A r \in Request : HeldOK(r)

\* What a request may be waiting for.
LEMMA WantsWhat ==
  ASSUME IInv, NEW r \in Request, Wants(r) # None
  PROVE  \/ pc[r] = "begin" /\ Favoriting(r) /\ Wants(r) = <<Users(ask[r].user), "update">>
         \/ /\ pc[r] = "begin" /\ ask[r].op = "create"
            /\ Wants(r) = <<Slugs(ask[r].article), "update">>
         \/ /\ pc[r] = "begin" /\ ask[r].op \in {"update", "delete", "comment", "uncomment"}
            /\ Wants(r) = <<Articles(ask[r].article), "update">>
         \/ /\ pc[r] = "viewer" /\ Favoriting(r)
            /\ Wants(r) = <<Articles(ask[r].article), "update">>
         \/ /\ pc[r] = "slug" /\ ask[r].op = "create"
            /\ Wants(r) = <<Users(ask[r].user), "share">>
         \/ /\ pc[r] = "locked" /\ ask[r].op = "comment"
            /\ Wants(r) = <<Users(ask[r].user), "share">>
         \/ /\ pc[r] = "locked" /\ ask[r].op = "uncomment"
            /\ Wants(r) = <<Comments(ask[r].comment), "update">>
         \/ pc[r] = "tags" /\ Wants(r) = <<Tags(Head(todo[r])), "update">>
  <1>1. Route(r) /\ ask[r].op \in Op
    BY AskTypes DEF IInv, RequestOK
  <1>. QED
    BY <1>1 DEF Route, Wants, Favoriting

LEMMA HeldKeeps ==
  ASSUME HInv, NEW r \in Request, UNCHANGED ask, HeldOK(r)',
         \A s \in Request \ {r} : pc'[s] = pc[s] /\ held'[s] = held[s]
  PROVE  HInv'
  BY DEF HInv, HeldOK, HasArticle, HasSlug, Favoriting

\* A transaction that takes the lock it wants, or none, and moves on.
LEMMA MoveKeeps ==
  ASSUME IInv, HInv, NEW r \in Request, NEW l \in Location, UNCHANGED ask,
         pc' = [pc EXCEPT ![r] = l],
         Lock(r) \/ UNCHANGED held,
         \/ pc[r] = "begin" /\ Favoriting(r) /\ l = "viewer"
         \/ pc[r] = "viewer" /\ l = "locked"
         \/ /\ pc[r] = "begin" /\ ask[r].op \in {"update", "delete", "comment", "uncomment"}
            /\ l = "locked"
         \/ pc[r] = "locked" /\ ask[r].op \in {"favorite", "unfavorite"} /\ l = "reading"
         \/ pc[r] = "locked" /\ ask[r].op \in {"delete", "comment", "uncomment"} /\ l = "ready"
         \/ pc[r] = "locked" /\ ask[r].op = "update" /\ l \in {"tags", "reading"}
         \/ pc[r] = "begin" /\ ask[r].op = "create" /\ l = "slug"
         \/ pc[r] = "slug" /\ l = "tags"
         \/ pc[r] = "tags" /\ ask[r].op = "update" /\ l \in {"tags", "reading"}
         \/ pc[r] = "tags" /\ ask[r].op = "create" /\ l \in {"tags", "ready"}
         \/ pc[r] = "reading" /\ l \in {"reading", "ready"}
  PROVE  HInv'
  <1>1. /\ pc'[r] = l /\ HeldOK(r) /\ Route(r) /\ ask[r].op \in Op
        /\ \A s \in Request \ {r} : pc'[s] = pc[s] /\ held'[s] = held[s]
        /\ held'[r] \subseteq held[r] \cup ({Wants(r)} \ {None})
    BY AskTypes DEF IInv, TypeOK, HInv, RequestOK, Lock
  <1>2. SUFFICES ASSUME NEW k \in held'[r]
                 PROVE
    (\/ Kind(k) = "user" /\ Favoriting(r) /\ pc[r] \in {"viewer", "locked", "reading", "ready"}
     \/ /\ Kind(k) = "user" /\ k[2] = "share"
        /\ ask[r].op \in {"create", "comment"} /\ pc[r] \in {"tags", "ready"}
     \/ Kind(k) = "article" /\ HasArticle(r)
     \/ Kind(k) = "slug" /\ HasSlug(r)
     \/ Kind(k) = "comment" /\ pc[r] = "ready"
     \/ Kind(k) = "tag" /\ pc[r] \in {"tags", "reading", "ready"})'
    BY <1>1, HeldKeeps DEF HeldOK, Kind
  <1>3. CASE k \in held[r]
    <2>1. pc[r] # "begin"
      BY <1>1, <1>3 DEF HeldOK, HasArticle, HasSlug
    <2>. QED
      BY <1>1, <1>3, <2>1 DEF HeldOK, Kind, HasArticle, HasSlug, Favoriting, Route
  <1>4. CASE k = Wants(r) /\ Wants(r) # None
    <2>1. Kind(k) = k[1][1]
      BY DEF Kind
    <2>. QED
      BY <1>1, <1>4, <2>1, WantsWhat
         DEF HasArticle, HasSlug, Favoriting, Kind, Users, Articles, Slugs, Comments, Tags
  <1>. QED
    BY <1>1, <1>3, <1>4

LEMMA StepHInv == IInv /\ HInv /\ [Next]_vars => HInv'
  <1>. SUFFICES ASSUME IInv, HInv, [Next]_vars PROVE HInv'
    OBVIOUS
  <1>1. ASSUME NEW r \in Request, NEW a, End(r, a) PROVE HInv'
    <2>1. /\ ask' = ask /\ held'[r] = {}
          /\ \A s \in Request \ {r} : pc'[s] = pc[s] /\ held'[s] = held[s]
      BY <1>1 DEF IInv, TypeOK, End, Goto
    <2>2. HeldOK(r)'
      BY <2>1 DEF HeldOK
    <2>. QED
      BY <2>1, <2>2, HeldKeeps
  <1>2. ASSUME NEW r \in Request, NEW status, RollBack(r, status) PROVE HInv'
    BY <1>1, <1>2 DEF RollBack
  <1>3. ASSUME NEW r \in Request, Statement(r), ~HInv' PROVE FALSE
    <2>. Route(r) /\ ask[r].op \in Op /\ pc \in [Request -> Location]
      BY AskTypes DEF IInv, RequestOK, TypeOK
    <2>1. CASE LockViewer(r)
      BY <1>3, <2>1, MoveKeeps DEF LockViewer, Goto, Location, svars
    <2>2. CASE LockArticle(r)
      BY <1>2, <1>3, <2>2, MoveKeeps DEF LockArticle, Goto, Location, svars
    <2>3. CASE WriteRow(r)
      BY <1>3, <2>3, MoveKeeps DEF WriteRow, Goto, Location, svars
    <2>4. CASE Save(r)
      BY <1>3, <2>4, MoveKeeps DEF Save, Goto, Location, svars
    <2>5. CASE InsertArticle(r)
      BY <1>2, <1>3, <2>5, MoveKeeps DEF InsertArticle, Goto, Location, svars
    <2>6. CASE CheckAuthor(r)
      BY <1>3, <2>6, MoveKeeps DEF CheckAuthor, Goto, Location, svars
    <2>7. CASE InsertTag(r)
      <3>1. pc' = [pc EXCEPT ![r] = "tags"] /\ ask[r].op \in {"create", "update"}
        BY <2>7 DEF InsertTag, Route
      <3>. QED
        BY <1>3, <2>7, <3>1, MoveKeeps DEF InsertTag, Location, svars
    <2>8. CASE LinkTags(r)
      BY <1>3, <2>8, MoveKeeps DEF LinkTags, Goto, Location, svars, Route
    <2>9. CASE Read(r)
      <3>1. \E l \in {"reading", "ready"} : pc' = [pc EXCEPT ![r] = l]
        <4>1. CASE UNCHANGED pc
          <5>1. pc' = [pc EXCEPT ![r] = "reading"]
            BY <2>9, <4>1 DEF Read
          <5>. QED
            BY <5>1
        <4>2. CASE pc' = [pc EXCEPT ![r] = "ready"]
          BY <4>2
        <4>. QED
          BY <2>9, <4>1, <4>2 DEF Read, Goto
      <3>2. pc[r] = "reading" /\ UNCHANGED <<ask, held>>
        BY <2>9 DEF Read, svars
      <3>. QED
        BY <1>3, <3>1, <3>2, MoveKeeps DEF Location
    <2>10. CASE InsertComment(r)
      BY <1>3, <2>10, MoveKeeps DEF InsertComment, Goto, Location, svars
    <2>11. CASE DeleteComment(r)
      BY <1>2, <1>3, <2>11, MoveKeeps DEF DeleteComment, Goto, Location, svars
    <2>12. CASE Commit(r)
      BY <1>1, <1>3, <2>12 DEF Commit
    <2>. QED
      BY <1>3, <2>1, <2>2, <2>3, <2>4, <2>5, <2>6, <2>7, <2>8, <2>9, <2>10, <2>11, <2>12
         DEF Statement
  <1>4. ASSUME NEW r \in Request, Fail(r) \/ Victim(r) PROVE HInv'
    BY <1>2, <1>4 DEF Fail, Victim
  <1>5. CASE UNCHANGED vars
    BY <1>5 DEF vars, svars, tvars, HInv, HeldOK, HasArticle, HasSlug, Favoriting
  <1>. QED
    BY <1>3, <1>4, <1>5 DEF Next

LEMMA Holding == Spec => []HInv
  <1>1. Init => HInv
    BY DEF Init, HInv, HeldOK
  <1>2. IInv /\ HInv /\ [Next]_vars => HInv'
    BY StepHInv
  <1>. QED
    BY <1>1, <1>2, Invariance, PTL DEF Spec

\* A favorite that waits for its article, a comment that waits for its author.
Paired(r) ==
  \/ pc[r] = "viewer" /\ Favoriting(r)
  \/ pc[r] = "locked" /\ ask[r].op = "comment"

\* Whom a request may wait for, if that one waits as well.
LEMMA WaitsForWhom ==
  ASSUME IInv, HInv, NEW r \in Request, NEW s \in WaitsFor(r), Wants(s) # None
  PROVE  /\ pc[s] \in {"viewer", "slug", "locked", "tags"}
         /\ pc[r] \in {"begin", "viewer", "slug", "locked", "tags"}
         /\ pc[r] = "tags" => pc[s] = "tags"
         /\ pc[r] = "locked" => ask[r].op = "comment"
         /\ pc[s] # "tags" /\ pc[r] = "viewer" => pc[s] = "locked"
         /\ pc[s] # "tags" /\ pc[r] \in {"locked", "slug"} => pc[s] = "viewer"
  <1>1. /\ Wants(r) # None /\ s \in Request /\ HeldOK(s) /\ Route(s)
        /\ \E l \in held[s] : l[1] = Wants(r)[1] /\ Clash(l[2], Wants(r)[2])
    BY DEF WaitsFor, HInv, IInv, RequestOK
  <1>2. PICK l \in held[s] : l[1] = Wants(r)[1] /\ Clash(l[2], Wants(r)[2])
    BY <1>1
  <1>3. Kind(l) = Wants(r)[1][1] /\ (l[2] = "share" => Wants(r)[2] # "share")
    BY <1>2 DEF Kind, Clash
  <1>4. \/ pc[s] \in {"begin", "slug", "tags"} \/ (pc[s] = "viewer" /\ Favoriting(s))
        \/ pc[s] = "locked" /\ ask[s].op \in {"comment", "uncomment"}
    BY <1>1, WantsWhat
  <1>5. \/ Kind(l) = "user" /\ pc[s] = "viewer"
        \/ Kind(l) = "user" /\ l[2] = "share" /\ pc[s] = "tags"
        \/ Kind(l) = "article" /\ pc[s] \in {"locked", "tags"}
        \/ Kind(l) = "slug" /\ pc[s] \in {"slug", "tags"}
        \/ Kind(l) = "tag" /\ pc[s] = "tags"
    BY <1>1, <1>2, <1>4 DEF HeldOK, HasArticle, HasSlug, Favoriting
  <1>6. \/ pc[r] = "begin"
        \/ pc[r] = "viewer" /\ Wants(r)[1][1] = "article"
        \/ pc[r] = "slug" /\ Wants(r)[1][1] = "user" /\ Wants(r)[2] = "share"
        \/ /\ pc[r] = "locked" /\ ask[r].op = "comment"
           /\ Wants(r)[1][1] = "user" /\ Wants(r)[2] = "share"
        \/ pc[r] = "locked" /\ Wants(r)[1][1] = "comment"
        \/ pc[r] = "tags" /\ Wants(r)[1][1] = "tag"
    BY <1>1, WantsWhat DEF Users, Articles, Slugs, Comments, Tags
  <1>. QED
    BY <1>3, <1>5, <1>6

\* Transactions deadlock on tag names inserted in different orders, and when a
\* favorite meets a comment: in no other way, however many there are.
THEOREM OnlyKnownDeadlocks == Spec => []DeadlocksKnown
  <1>1. ASSUME IInv, HInv, NEW D \in SUBSET Request, IsCycle(D)
        PROVE  \/ \A r \in D : pc[r] = "tags"
               \/ /\ \A r \in D : Favoriting(r) \/ ask[r].op = "comment"
                  /\ \E r, s \in D : Favoriting(r) /\ ask[s].op = "comment"
    <2>1. /\ D # {} /\ \A r \in D : r \in Request /\ \E s \in D : s \in WaitsFor(r)
          /\ \A E \in SUBSET D : Stuck(E) => E = D
      BY <1>1 DEF IsCycle, Stuck
    <2>2. \A r \in D : Wants(r) # None
      BY <2>1 DEF WaitsFor
    <2>3. CASE \E r \in D : pc[r] = "tags"
      <3> DEFINE E == {r \in D : pc[r] = "tags"}
      <3>1. \A r \in E : WaitsFor(r) \cap E # {}
        BY <1>1, <2>1, <2>2, WaitsForWhom
      <3>2. E # {} /\ E \in SUBSET D
        BY <2>3
      <3>. HIDE DEF E
      <3>3. E = D
        BY <2>1, <3>1, <3>2 DEF Stuck
      <3>. QED
        BY <3>3 DEF E
    <2>4. CASE \A r \in D : pc[r] # "tags"
      <3> DEFINE E == {r \in D : Paired(r)}
      <3>1. ASSUME NEW r \in D, NEW s \in D, s \in WaitsFor(r)
            PROVE  /\ pc[r] = "slug" => Paired(s)
                   /\ pc[r] # "slug" => Paired(s) \/ pc[s] = "slug"
                   /\ Paired(r) => /\ Paired(s)
                                   /\ Favoriting(r) => ask[s].op = "comment"
                                   /\ ask[r].op = "comment" => Favoriting(s)
        <4>1. PICK t \in D : t \in WaitsFor(s)
          BY <2>1
        <4>2. /\ pc[s] \in {"viewer", "slug", "locked"}
              /\ pc[r] = "viewer" => pc[s] = "locked"
              /\ pc[r] \in {"locked", "slug"} => pc[s] = "viewer"
          BY <1>1, <2>1, <2>2, <2>4, <3>1, WaitsForWhom
        <4>3. pc[s] = "locked" => ask[s].op = "comment"
          BY <1>1, <2>1, <2>2, <4>1, WaitsForWhom
        <4>4. pc[s] = "viewer" => Favoriting(s)
          BY <1>1, <2>1 DEF IInv, RequestOK, Route
        <4>. QED
          BY <4>2, <4>3, <4>4 DEF Paired, Favoriting
      <3>2. E # {}
        <4>1. PICK r \in D, s \in D, t \in D : s \in WaitsFor(r) /\ t \in WaitsFor(s)
          BY <2>1
        <4>. QED
          BY <3>1, <4>1
      <3>3. \A r \in E : WaitsFor(r) \cap E # {}
        BY <2>1, <3>1
      <3>4. E \in SUBSET D
        OBVIOUS
      <3>. HIDE DEF E
      <3>5. E = D
        BY <2>1, <3>2, <3>3, <3>4 DEF Stuck
      <3>6. \A r \in D : Paired(r)
        BY <3>5 DEF E
      <3>7. PICK r \in D, s \in D : s \in WaitsFor(r)
        BY <2>1
      <3>. QED
        BY <3>1, <3>6, <3>7 DEF Paired
    <2>. QED
      BY <2>3, <2>4
  <1>2. IInv /\ HInv => DeadlocksKnown
    BY <1>1 DEF DeadlocksKnown
  <1>. QED
    BY <1>2, Invariance, Holding, PTL
=============================================================================
