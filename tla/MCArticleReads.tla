--------------------------- MODULE MCArticleReads ---------------------------
(* An instance of ArticleReads for TLC: one reader while two writes and any  *)
(* number of follows happen; a1 and a3 exist at the start, a2 may come.      *)
EXTENDS ArticleReads

CONSTANTS u1, u2, gone, a1, a2, a3, x, y, c0

MCStored ==
  [articles |-> (a1 :> [author |-> u1, title |-> "old", tags |-> <<x>>, stamp |-> 0])
                 @@ (a2 :> None)
                 @@ (a3 :> [author |-> u2, title |-> "old", tags |-> <<>>, stamp |-> 0]),
   tagNames |-> {x}, favorites |-> {<<u1, a3>>},
   comments |-> {[id |-> c0, article |-> a1, author |-> u2]}]
MCNewest == <<a3, a2, a1>>

Asks(op, user, article, comment, title, tags) ==
  [op |-> op, user |-> user, article |-> article, comment |-> comment, title |-> title, tags |-> tags]
Asked ==
  << Asks("favorite", u1, a1, None, None, None),
     Asks("unfavorite", u1, a3, None, None, None),
     Asks("comment", u1, a1, None, None, None),
     Asks("uncomment", u2, a1, c0, None, None),
     Asks("delete", u1, a1, None, None, None),
     Asks("delete", u2, a3, None, None, None),
     Asks("update", u1, a1, None, "new", <<y, x>>),
     Asks("create", u1, a2, None, "new", <<x>>) >>
MCAsk == ToSet(Asked)
AskRank(q) == CHOOSE i \in DOMAIN Asked : Asked[i] = q

List(viewer, author, tag, favorited, offset, limit) ==
  [kind |-> "list", viewer |-> viewer, article |-> None, author |-> author, tag |-> tag,
   favorited |-> favorited, offset |-> offset, limit |-> limit]
Show(kind, viewer) ==
  [kind |-> kind, viewer |-> viewer, article |-> a1, author |-> None, tag |-> None,
   favorited |-> None, offset |-> 0, limit |-> 1]
MCQuery ==
  { List(u1, None, None, None, 0, 2), List(None, None, None, None, 1, 1),
    List(u1, u1, x, None, 0, 20), List(u2, None, None, u1, 0, 20), List(gone, None, None, None, 0, 2),
    [List(u1, None, None, None, 0, 20) EXCEPT !.kind = "feed"] }
  \cup { Show(kind, v) : kind \in {"detail", "comments"}, v \in {u1, None, gone} }

MCInit == Init /\ \A r, s \in Request : r < s => AskRank(ask[r]) < AskRank(ask[s])

\* Nothing happens before the request arrives or after it is answered: writes
\* then are those of another start.  Only u1 follows.
MCWrites ==
  /\ \E r \in Reader : Active(r)
  /\ \/ \E r \in Request : (Succeed(r) \/ Refuse(r)) /\ UNCHANGED <<follows, rvars>>
     \/ \E v \in User : Follow(u1, v) \/ Unfollow(u1, v)
MCNext == (MCWrites \/ \E r \in Reader : Read(r) \/ Fail(r)) /\ Observe
MCSpec == MCInit /\ [][MCNext]_vars
=============================================================================
