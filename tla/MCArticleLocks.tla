--------------------------- MODULE MCArticleLocks ---------------------------
(* An instance of ArticleLocks for TLC: two users, the article a1 of u1 with *)
(* a comment of u2, and the slug a2 of articles to come.                     *)
EXTENDS ArticleLocks

CONSTANTS u1, u2, a1, a2, x, y, z, c0

MCStored ==
  [articles |-> (a1 :> [author |-> u1, title |-> "old", tags |-> <<x>>, stamp |-> 0])
                 @@ (a2 :> None),
   tagNames |-> {x}, favorites |-> {},
   comments |-> {[id |-> c0, article |-> a1, author |-> u2]}]

Request3(op, user, article, comment, title, tags) ==
  [op |-> op, user |-> user, article |-> article, comment |-> comment, title |-> title, tags |-> tags]

Asked ==
  << Request3("favorite", u1, a1, None, None, None),
     Request3("favorite", u2, a1, None, None, None),
     Request3("unfavorite", u2, a1, None, None, None),
     Request3("comment", u2, a1, None, None, None),
     Request3("uncomment", u2, a1, c0, None, None),
     Request3("uncomment", u1, a1, c0, None, None),
     Request3("delete", u1, a1, None, None, None),
     Request3("delete", u2, a1, None, None, None),
     Request3("update", u1, a1, None, "new", <<y, z, y>>),
     Request3("update", u1, a1, None, None, <<z>>),
     Request3("update", u1, a1, None, "old", <<x, x>>),
     Request3("create", u1, a2, None, "new", <<z, y>>),
     Request3("create", u2, a2, None, "new", None) >>
MCAsk == ToSet(Asked)

\* Requests are alike: one order of what they ask for is enough.
Rank(q) == CHOOSE i \in DOMAIN Asked : Asked[i] = q
MCInit == Init /\ \A r, s \in Request : r < s => Rank(ask[r]) <= Rank(ask[s])
MCSpec == MCInit /\ [][Next]_vars /\ Fairness
=============================================================================
