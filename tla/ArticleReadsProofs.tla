-------------------------- MODULE ArticleReadsProofs --------------------------
(***************************************************************************)
(* The four invariants of ArticleReads, for any readers, queries, users,   *)
(* articles and writes between their statements.                           *)
(*                                                                         *)
(* The comments a reader lists are those of its snapshot, and the snapshot *)
(* is of a moment Observe has seen (SnapshotOK).  A flag and a count that  *)
(* one statement returned together agree (FlagOK), and putting an item     *)
(* together keeps them so.  A page is in order because each article has a  *)
(* place of its own among those that match (Ordered), and asking for the   *)
(* same articles again does not reorder them (PageInOrder, PageOK).  While *)
(* Observe has seen a single answer, whatever has been read is a part of   *)
(* that answer (Agrees, QuietOK).                                          *)
(***************************************************************************)
EXTENDS ArticleReads, FiniteSetTheorems, SequenceTheorems, TLAPS

-----------------------------------------------------------------------------
(* ORDER BY *)

LEMMA ArticlesAreRanked ==
  /\ IsFiniteSet(Article)
  /\ \A a \in Article : Rank[a] \in Nat
  /\ \A a, b \in Article : Rank[a] = Rank[b] => a = b
  <1> DEFINE n == Len(Newest)
  <1>1. n \in Nat /\ DOMAIN Newest = 1..n /\ Newest \in [1..n -> Article]
    BY ReadsAssumption
  <1>2. ASSUME NEW a \in Article PROVE Rank[a] \in 1..n /\ Newest[Rank[a]] = a
    <2>1. \E i \in DOMAIN Newest : Newest[i] = a
      BY ReadsAssumption DEF ToSet
    <2>. QED
      BY <1>1, <2>1 DEF Rank
  <1>3. Newest \in Surjection(1..n, Article)
    BY <1>1, <1>2 DEF Surjection
  <1>4. IsFiniteSet(Article)
    BY <1>1, <1>3, FS_Surjection, FS_Interval
  <1>. QED
    BY <1>1, <1>2, <1>4

\* The place of an article is between 1 and the number of articles, and an
\* article that comes later has a later place.
LEMMA Places ==
  ASSUME NEW S \in SUBSET Article
  PROVE  /\ IsFiniteSet(S) /\ Cardinality(S) \in Nat
         /\ \A a \in S : Place(S, a) \in 1..Cardinality(S)
         /\ \A a, b \in S : Rank[a] < Rank[b] => Place(S, a) < Place(S, b)
  <1>1. IsFiniteSet(S) /\ Cardinality(S) \in Nat
    BY ArticlesAreRanked, FS_Subset, FS_CardinalityType
  <1> DEFINE upTo(a) == {b \in S : Rank[b] <= Rank[a]}
  <1>2. ASSUME NEW a \in S
        PROVE  /\ IsFiniteSet(upTo(a)) /\ Cardinality(upTo(a)) \in Nat
               /\ Cardinality(upTo(a)) <= Cardinality(S) /\ a \in upTo(a)
               /\ Place(S, a) = Cardinality(upTo(a))
    <2>1. upTo(a) \in SUBSET S /\ a \in upTo(a)
      BY ArticlesAreRanked
    <2>. QED
      BY <1>1, <2>1, FS_Subset, FS_CardinalityType DEF Place
  <1>3. ASSUME NEW a \in S PROVE Place(S, a) \in 1..Cardinality(S)
    <2>1. Cardinality(upTo(a)) # 0
      BY <1>2, FS_EmptySet
    <2>. HIDE DEF upTo
    <2>. QED
      BY <1>1, <1>2, <2>1
  <1>4. ASSUME NEW a \in S, NEW b \in S, Rank[a] < Rank[b] PROVE Place(S, a) < Place(S, b)
    <2>1. upTo(a) \in SUBSET upTo(b) /\ b \notin upTo(a)
      BY <1>4, ArticlesAreRanked
    <2>2. upTo(a) # upTo(b)
      BY <1>2, <2>1
    <2>. HIDE DEF upTo
    <2>3. /\ Cardinality(upTo(a)) <= Cardinality(upTo(b))
          /\ Cardinality(upTo(a)) # Cardinality(upTo(b))
      BY <1>2, <2>1, <2>2, FS_Subset
    <2>. QED
      BY <1>2, <2>3
  <1>. QED
    BY <1>1, <1>3, <1>4

LEMMA PlacesDiffer ==
  ASSUME NEW S \in SUBSET Article, NEW a \in S, NEW b \in S, Place(S, a) = Place(S, b)
  PROVE  a = b
  <1>1. a \in Article /\ b \in Article
    OBVIOUS
  <1>2. Rank[a] \in Nat /\ Rank[b] \in Nat
    BY <1>1, ArticlesAreRanked
  <1>3. ~(Rank[a] < Rank[b]) /\ ~(Rank[b] < Rank[a])
    BY Places
  <1>. QED
    BY <1>1, <1>2, <1>3, ArticlesAreRanked

\* InOrder(S) lists every article of S once, each at its place.
LEMMA Ordered ==
  ASSUME NEW S \in SUBSET Article
  PROVE  /\ InOrder(S) \in Seq(S) /\ Len(InOrder(S)) = Cardinality(S)
         /\ \A i \in 1..Cardinality(S) : InOrder(S)[i] \in S /\ Place(S, InOrder(S)[i]) = i
         /\ \A a \in S : InOrder(S)[Place(S, a)] = a
         /\ ToSet(InOrder(S)) = S
  <1> DEFINE n == Cardinality(S)
             place == [a \in S |-> Place(S, a)]
  <1>1. IsFiniteSet(S) /\ n \in Nat /\ \A a \in S : Place(S, a) \in 1..n
    BY Places
  <1>2. place \in [S -> 1..n]
    BY <1>1
  <1>3. place \in Injection(S, 1..n)
    BY <1>2, PlacesDiffer DEF Injection, IsInjective
  <1>4. IsFiniteSet(1..n) /\ Cardinality(1..n) = n
    BY <1>1, FS_Interval
  <1>5. place \in Surjection(S, 1..n)
    BY <1>3, <1>4, FS_Injection
  <1>6. \A i \in 1..n : \E a \in S : Place(S, a) = i
    BY <1>5 DEF Surjection
  <1>7. ASSUME NEW i \in 1..n PROVE InOrder(S)[i] \in S /\ Place(S, InOrder(S)[i]) = i
    BY <1>6 DEF InOrder
  <1>8. ASSUME NEW a \in S PROVE InOrder(S)[Place(S, a)] = a
    BY <1>1, <1>7, PlacesDiffer
  <1>9. InOrder(S) \in [1..n -> S]
    BY <1>7 DEF InOrder
  <1>10. InOrder(S) \in Seq(S) /\ Len(InOrder(S)) = n
    BY <1>1, <1>9
  <1>11. ToSet(InOrder(S)) = S
    BY <1>1, <1>7, <1>8, <1>9 DEF ToSet
  <1>. QED
    BY <1>7, <1>8, <1>10, <1>11

\* A sequence of articles each of which comes before the next is in order.
LEMMA Sorted ==
  ASSUME NEW s \in Seq(Article),
         \A i, j \in 1..Len(s) : i < j => Rank[s[i]] < Rank[s[j]]
  PROVE  s = InOrder(ToSet(s))
  <1> DEFINE n == Len(s)
             S == ToSet(s)
             prefix(k) == {s[i] : i \in 1..k}
  <1>1. /\ n \in Nat /\ s \in [1..n -> Article] /\ S \in SUBSET Article
        /\ S = prefix(n)
    BY DEF ToSet
  <1>2. ASSUME NEW i \in 1..n, NEW j \in 1..n
        PROVE  /\ Rank[s[i]] <= Rank[s[j]] <=> i <= j
               /\ s[i] = s[j] => i = j
    <2>1. Rank[s[i]] \in Nat /\ Rank[s[j]] \in Nat
      BY <1>1, ArticlesAreRanked
    <2>. QED
      BY <1>1, <2>1
  <1>. HIDE DEF n, S
  <1>3. ASSUME NEW k \in Nat, k <= n PROVE Cardinality(prefix(k)) = k
    <2> DEFINE f == [i \in 1..k |-> s[i]]
    <2>1. f \in Bijection(1..k, prefix(k))
      BY <1>1, <1>2, <1>3 DEF Bijection, Injection, Surjection, IsInjective
    <2>2. ExistsBijection(1..k, prefix(k))
      BY <2>1 DEF ExistsBijection
    <2>. HIDE DEF prefix
    <2>. QED
      BY <2>2, FS_CountingElements
  <1>4. ASSUME NEW i \in 1..n PROVE Place(S, s[i]) = i /\ s[i] \in S
    <2>1. {b \in S : Rank[b] <= Rank[s[i]]} = prefix(i) /\ s[i] \in S
      BY <1>1, <1>2
    <2>2. i \in Nat /\ i <= n
      BY <1>1
    <2>. HIDE DEF prefix
    <2>. QED
      BY <1>3, <2>1, <2>2 DEF Place
  <1>. HIDE DEF prefix
  <1>5. Cardinality(S) = n
    BY <1>1, <1>3
  <1>6. S \in SUBSET Article
    BY <1>1
  <1>7. \A i \in 1..n : InOrder(S)[i] = s[i]
    BY <1>4, <1>6, Ordered
  <1>8. InOrder(S) \in Seq(S) /\ Len(InOrder(S)) = n
    BY <1>5, <1>6, Ordered
  <1>. QED
    BY <1>1, <1>7, <1>8 DEF S, n

LEMMA WindowOf ==
  ASSUME NEW q \in Query, NEW T, NEW s \in Seq(T)
  PROVE  /\ Window(q, s) \in Seq(T) /\ Len(Window(q, s)) <= q.limit
         /\ \A t, U : t \in Seq(U) /\ Len(t) = Len(s) => Len(Window(q, t)) = Len(Window(q, s))
         /\ \A i \in 1..Len(Window(q, s)) :
              q.offset + i \in 1..Len(s) /\ Window(q, s)[i] = s[q.offset + i]
  <1>1. q.offset \in Nat /\ q.limit \in Nat
    BY ReadsAssumption
  <1> DEFINE from == q.offset + 1
             length(to) == IF from <= to THEN to - q.offset ELSE 0
  <1>2. ASSUME NEW U, NEW t \in Seq(U), NEW to, to = Smaller(q.offset + q.limit, Len(t))
        PROVE  /\ Len(t) \in Nat /\ to \in Nat /\ to <= Len(t) /\ to <= q.offset + q.limit
               /\ Window(q, t) \in Seq(U) /\ Len(Window(q, t)) = length(to)
               /\ \A i \in 1..to - q.offset : Window(q, t)[i] = t[q.offset + i]
    <2>1. Len(t) \in Nat /\ to \in Nat /\ to <= Len(t) /\ to <= q.offset + q.limit
      BY <1>1, <1>2 DEF Smaller
    <2>2. \A i \in from..to : t[i] \in U
      BY <1>1, <2>1
    <2>3. Window(q, t) = SubSeq(t, from, to)
      BY <1>2 DEF Window
    <2>4. /\ SubSeq(t, from, to) \in Seq(U)
          /\ Len(SubSeq(t, from, to)) = IF from <= to THEN to - from + 1 ELSE 0
          /\ \A i \in 1..to - from + 1 : SubSeq(t, from, to)[i] = t[from + i - 1]
      BY <1>1, <2>1, <2>2, SubSeqProperties
    <2>5. to - from + 1 = to - q.offset /\ \A i \in Int : from + i - 1 = q.offset + i
      BY <1>1, <2>1
    <2>6. \A i \in 1..to - q.offset : Window(q, t)[i] = t[q.offset + i]
      <3>1. SUFFICES ASSUME NEW i \in 1..to - q.offset PROVE Window(q, t)[i] = t[q.offset + i]
        OBVIOUS
      <3>2. i \in Int
        BY <1>1, <2>1
      <3>3. i \in 1..to - from + 1
        BY <2>5
      <3>4. from + i - 1 = q.offset + i
        BY <2>5, <3>2
      <3>. QED
        BY <2>3, <2>4, <3>3, <3>4
    <2>. QED
      BY <2>1, <2>3, <2>4, <2>5, <2>6
  <1>3. Len(Window(q, s)) <= q.limit
    BY <1>1, <1>2
  <1>4. \A t, U : t \in Seq(U) /\ Len(t) = Len(s) => Len(Window(q, t)) = Len(Window(q, s))
    BY <1>2
  <1>5. PICK to : to = Smaller(q.offset + q.limit, Len(s))
    OBVIOUS
  <1>6. /\ Len(s) \in Nat /\ to \in Nat /\ to <= Len(s)
        /\ Len(Window(q, s)) = length(to)
        /\ \A i \in 1..to - q.offset : Window(q, s)[i] = s[q.offset + i]
    BY <1>2, <1>5
  <1>7. ASSUME NEW i \in 1..Len(Window(q, s))
        PROVE  q.offset + i \in 1..Len(s) /\ Window(q, s)[i] = s[q.offset + i]
    <2>1. i \in 1..to - q.offset
      BY <1>1, <1>6
    <2>. QED
      BY <1>1, <1>6, <2>1
  <1>. QED
    BY <1>2, <1>3, <1>4, <1>7

\* A page asked for again by its ids is in the order it was in.
LEMMA PageInOrder ==
  ASSUME NEW q \in Query, NEW S \in SUBSET Article
  PROVE  InOrder(ToSet(Window(q, InOrder(S)))) = Window(q, InOrder(S))
  <1> DEFINE s == InOrder(S)
             page == Window(q, s)
  <1>1. s \in Seq(S) /\ Len(s) = Cardinality(S) /\ Cardinality(S) \in Nat
        /\ \A i \in 1..Len(s) : s[i] \in S /\ Place(S, s[i]) = i
    BY Ordered, Places
  <1>2. ASSUME NEW i \in 1..Len(s), NEW j \in 1..Len(s), i < j PROVE Rank[s[i]] < Rank[s[j]]
    <2>1. s[i] \in Article /\ s[j] \in Article /\ s[i] \in S /\ s[j] \in S
      BY <1>1
    <2>2. Rank[s[i]] \in Nat /\ Rank[s[j]] \in Nat
      BY <2>1, ArticlesAreRanked
    <2>3. Rank[s[j]] # Rank[s[i]]
      BY <1>1, <1>2, <2>1, ArticlesAreRanked
    <2>4. ~(Rank[s[j]] < Rank[s[i]])
      BY <1>1, <1>2, <2>1, Places
    <2>. QED
      BY <2>2, <2>3, <2>4
  <1>. HIDE DEF s
  <1>3. /\ page \in Seq(S)
        /\ \A i \in 1..Len(page) : q.offset + i \in 1..Len(s) /\ page[i] = s[q.offset + i]
    BY <1>1, WindowOf
  <1>4. q.offset \in Nat
    BY ReadsAssumption
  <1>. HIDE DEF page
  <1>5. page \in Seq(Article)
    BY <1>3
  <1>6. ASSUME NEW i \in 1..Len(page), NEW j \in 1..Len(page), i < j
        PROVE  Rank[page[i]] < Rank[page[j]]
    <2>1. q.offset + i \in 1..Len(s) /\ q.offset + j \in 1..Len(s)
      BY <1>3
    <2>2. q.offset + i < q.offset + j
      BY <1>4, <1>6
    <2>3. Rank[s[q.offset + i]] < Rank[s[q.offset + j]]
      BY <1>2, <2>1, <2>2
    <2>. QED
      BY <1>3, <2>3
  <1>7. page = InOrder(ToSet(page))
    BY <1>5, <1>6, Sorted
  <1>. QED
    BY <1>7 DEF page, s

-----------------------------------------------------------------------------
(* What a request that no write disturbs relies on *)

Shape ==
  /\ at \in [Reader -> {"begin", "find", "count", "ids", "rows", "comments", "parts", "done"}]
  /\ DOMAIN got = Reader /\ DOMAIN could = Reader
  /\ \A r \in Reader : DOMAIN got[r] = DOMAIN NoParts

\* Whatever is true while a request is under way, Observe has seen.
SeenInv == \A r \in Reader : Active(r) => AtOnce(query[r]) \in could[r]

Ids(a) == IF a.status = "ok" THEN {p[1] : p \in a.detail} ELSE {}
SameList(a, b) == a.status = b.status /\ Ids(a) = Ids(b)

SnapshotOK(r) ==
  /\ at[r] = "comments" => query[r].kind = "comments"
  /\ query[r].kind = "comments" =>
       /\ at[r] \notin {"count", "ids", "rows"}
       /\ at[r] \in {"comments", "parts"} =>
            \E m \in could[r] : m.status = "ok" /\ Ids(m) = got[r].snapshot
       /\ at[r] = "done" /\ got[r].answer # Refused("failed") =>
            \E m \in could[r] : SameList(got[r].answer, m)

Agree(favs) == favs[2] => favs[1] > 0

FlagOK(r) ==
  Listing(query[r]) =>
    /\ at[r] \notin {"parts", "done"} => got[r].favorites = None
    /\ at[r] = "parts" /\ got[r].favorites # None =>
         \A i \in DOMAIN got[r].heads : Agree(got[r].favorites[i])
    /\ Answered(r, {"list", "feed"}) =>
         \A i \in DOMAIN got[r].answer.detail[2] : Agree(got[r].answer.detail[2][i].favs)

IInv ==
  /\ Shape /\ SeenInv
  /\ IsFiniteSet(favorites) /\ follows \subseteq User \X User
  /\ \A r \in Reader : SnapshotOK(r) /\ FlagOK(r)

\* A step after which reader r has g, and nobody else anything new.
Moves(r, g) ==
  /\ DOMAIN got' = Reader /\ DOMAIN g = DOMAIN NoParts
  /\ got'[r] = g /\ \A s \in Reader \ {r} : got'[s] = got[s]

-----------------------------------------------------------------------------
(* What Observe sees, and the requests that do not move *)

LEMMA Watched ==
  ASSUME IInv, Observe
  PROVE  /\ SeenInv' /\ DOMAIN could' = Reader
         /\ \A r \in Reader : could[r] \subseteq could'[r]
         /\ \A r \in Reader : at'[r] \notin {"begin", "done"} => AtOnce(query[r])' \in could'[r]
  <1>1. /\ DOMAIN could' = Reader
        /\ \A r \in Reader : could'[r] = IF at'[r] \in {"begin", "done"} THEN could[r]
                                         ELSE could[r] \cup {AtOnce(query[r])'}
    BY DEF Observe
  <1>. QED
    BY <1>1 DEF SeenInv, Active

LEMMA SameMoment ==
  ASSUME NEW r \in Reader, UNCHANGED <<query, follows, store>>
  PROVE  AtOnce(query[r])' = AtOnce(query[r])
  BY DEF store, AtOnce, Listing, Live, Followed, CommentsOf, Now, Head_, TagsOf, FavoritesOf,
         Count, Matching, Matches, InOrder, Place

LEMMA OthersKeep ==
  ASSUME IInv, Observe, NEW r \in Reader, query' = query, at'[r] = at[r], got'[r] = got[r]
  PROVE  SnapshotOK(r)' /\ FlagOK(r)'
  <1>1. SnapshotOK(r) /\ FlagOK(r) /\ could[r] \subseteq could'[r]
    BY Watched DEF IInv
  <1>2. SnapshotOK(r)'
    BY <1>1 DEF SnapshotOK
  <1>3. FlagOK(r)'
    BY <1>1 DEF FlagOK, Answered, Listing
  <1>. QED
    BY <1>2, <1>3

\* A statement of a reader: what is left to show is about itself.
LEMMA ReaderKeeps ==
  ASSUME IInv, Observe, NEW r \in Reader, Quiet,
         NEW l \in {"find", "count", "ids", "rows", "comments", "parts", "done"},
         at' = [at EXCEPT ![r] = l],
         NEW g, Moves(r, g),
         SnapshotOK(r)', FlagOK(r)'
  PROVE  IInv'
  <1>1. /\ query' = query /\ favorites' = favorites /\ follows' = follows /\ Shape
        /\ \A s \in Reader \ {r} : at'[s] = at[s] /\ got'[s] = got[s]
    BY DEF Quiet, svars, store, IInv, Shape, Moves
  <1>2. Shape'
    BY <1>1, Watched DEF Shape, NoParts, Moves
  <1>3. IsFiniteSet(favorites') /\ follows' \subseteq User \X User
    BY <1>1 DEF IInv
  <1>. QED
    BY <1>1, <1>2, <1>3, OthersKeep, Watched DEF IInv

LEMMA Answering ==
  ASSUME IInv, NEW r \in Reader, NEW a, Answer(r, a)
  PROVE  /\ at' = [at EXCEPT ![r] = "done"] /\ at'[r] = "done"
         /\ Moves(r, [NoParts EXCEPT !.answer = a]) /\ got'[r].answer = a
  BY DEF Answer, Goto, IInv, Shape, NoParts, Moves

LEMMA Statuses ==
  ASSUME NEW d, NEW status \in {"failed", "notFound", "unauthorized"}
  PROVE  /\ Ok(d).status = "ok" /\ Ok(d).detail = d
         /\ Refused(status).status = status /\ Refused(status).status # "ok"
  BY DEF Ok, Refused

\* An answer that is none, or a list of comments of the snapshot.
LEMMA AnswerKeeps ==
  ASSUME IInv, Observe, NEW r \in Reader, NEW a, Answer(r, a), Quiet,
         query[r].kind = "comments" /\ a # Refused("failed") =>
           \E m \in could[r] : SameList(a, m),
         Listing(query[r]) /\ a.status = "ok" =>
           \A i \in DOMAIN a.detail[2] : Agree(a.detail[2][i].favs)
  PROVE  IInv'
  <1>1. query' = query /\ could[r] \subseteq could'[r]
    BY Watched DEF Quiet
  <1>2. SnapshotOK(r)'
    BY <1>1, Answering DEF SnapshotOK
  <1>3. FlagOK(r)'
    BY <1>1, Answering DEF FlagOK, Answered, Listing
  <1>. QED
    BY <1>2, <1>3, Answering, ReaderKeeps

-----------------------------------------------------------------------------
(* Comments *)

LEMMA IdsOfPairs ==
  ASSUME NEW S, NEW authors
  PROVE  /\ Ids(Ok({<<c, FALSE>> : c \in S})) = S
         /\ Ids(Ok({<<c, c.author \in authors>> : c \in S})) = S
  <1>1. {p[1] : p \in {<<c, FALSE>> : c \in S}} = S
    <2>1. ASSUME NEW c \in S PROVE \E p \in {<<d, FALSE>> : d \in S} : p[1] = c
      <3>1. <<c, FALSE>> \in {<<d, FALSE>> : d \in S} /\ <<c, FALSE>>[1] = c
        OBVIOUS
      <3>. QED
        BY <3>1
    <2>2. ASSUME NEW p \in {<<d, FALSE>> : d \in S} PROVE p[1] \in S
      <3>1. PICK d \in S : p = <<d, FALSE>>
        OBVIOUS
      <3>. QED
        BY <3>1
    <2>. QED
      BY <2>1, <2>2
  <1>2. {p[1] : p \in {<<c, c.author \in authors>> : c \in S}} = S
    <2>1. ASSUME NEW c \in S PROVE \E p \in {<<d, d.author \in authors>> : d \in S} : p[1] = c
      <3>1. <<c, c.author \in authors>> \in {<<d, d.author \in authors>> : d \in S}
        OBVIOUS
      <3>2. <<c, c.author \in authors>>[1] = c
        OBVIOUS
      <3>. QED
        BY <3>1, <3>2
    <2>2. ASSUME NEW p \in {<<d, d.author \in authors>> : d \in S} PROVE p[1] \in S
      OBVIOUS
    <2>. QED
      BY <2>1, <2>2
  <1>. QED
    BY <1>1, <1>2, Statuses DEF Ids

LEMMA OpenSnapshotKeeps ==
  ASSUME IInv, Observe, NEW r \in Reader, OpenSnapshot(r)
  PROVE  IInv'
  <1> DEFINE a == query[r].article
             all == {<<c, c.author \in Followed(query[r])>> : c \in CommentsOf(a)}
  <1>1. /\ at[r] = "find" /\ query[r].kind = "comments" /\ Quiet /\ ~Listing(query[r])
        /\ SeenInv /\ Shape
    BY DEF OpenSnapshot, IInv, Listing
  <1>2. AtOnce(query[r]) = IF ~Live(a) THEN Refused("notFound") ELSE Ok(all)
    BY <1>1 DEF AtOnce
  <1>3. CASE ~Live(a)
    <2>1. Answer(r, Refused("notFound")) /\ Refused("notFound") \in could[r]
      BY <1>1, <1>2, <1>3 DEF OpenSnapshot, SeenInv, Active
    <2>. QED
      BY <1>1, <2>1, AnswerKeeps DEF SameList
  <1>4. CASE Live(a)
    <2> DEFINE g == [got[r] EXCEPT !.snapshot = CommentsOf(a)]
    <2>1. at' = [at EXCEPT ![r] = "comments"] /\ Moves(r, g)
      BY <1>1, <1>4 DEF OpenSnapshot, Goto, Shape, Moves
    <2>2. /\ at'[r] = "comments" /\ got'[r] = g /\ g.snapshot = CommentsOf(a)
          /\ query' = query
      BY <1>1, <2>1 DEF Shape, NoParts, Quiet, Moves
    <2>3. AtOnce(query[r])' = AtOnce(query[r])
      BY <1>1, SameMoment DEF Quiet, svars
    <2>4. Ok(all) \in could'[r]
      BY <1>2, <1>4, <2>2, <2>3, Watched
    <2>5. SnapshotOK(r)'
      <3>1. Ids(Ok(all)) = CommentsOf(a) /\ Ok(all).status = "ok"
        BY IdsOfPairs, Statuses
      <3>. HIDE DEF all, g, a
      <3>. QED
        BY <1>1, <2>2, <2>4, <3>1 DEF SnapshotOK
    <2>6. FlagOK(r)'
      BY <1>1, <2>2 DEF FlagOK, Listing
    <2>. HIDE DEF g
    <2>. QED
      BY <1>1, <2>1, <2>5, <2>6, ReaderKeeps
  <1>. QED
    BY <1>3, <1>4

LEMMA ReadCommentsKeeps ==
  ASSUME IInv, Observe, NEW r \in Reader, ReadComments(r) \/ ReadFollowed(r)
  PROVE  IInv'
  <1> DEFINE found == got[r].snapshot
             plain == Ok({<<c, FALSE>> : c \in found})
             full == Ok({<<c, c.author \in Followed(query[r])>> : c \in found})
  <1>1. /\ SnapshotOK(r) /\ FlagOK(r) /\ Shape /\ Quiet /\ query' = query
        /\ at[r] \in {"comments", "parts"}
    BY DEF IInv, ReadComments, ReadFollowed, Quiet
  <1>2. /\ plain.status = "ok" /\ Ids(plain) = found
        /\ full.status = "ok" /\ Ids(full) = found
    BY IdsOfPairs, Statuses
  <1>3. CASE Answer(r, plain) \/ Answer(r, full)
    <2>1. query[r].kind = "comments" /\ ~Listing(query[r])
      BY <1>1 DEF ReadComments, ReadFollowed, SnapshotOK, Listing
    <2>2. \E m \in could[r] : m.status = "ok" /\ Ids(m) = found
      BY <1>1, <2>1 DEF SnapshotOK
    <2>. HIDE DEF plain, full, found
    <2>. QED
      BY <1>1, <1>2, <1>3, <2>1, <2>2, AnswerKeeps DEF SameList
  <1>4. CASE at[r] = "comments" /\ Goto(r, "parts") /\ UNCHANGED got
    <2>1. /\ at' = [at EXCEPT ![r] = "parts"] /\ at'[r] = "parts" /\ got'[r] = got[r]
          /\ Moves(r, got[r])
      BY <1>1, <1>4 DEF Goto, Shape, Moves
    <2>2. SnapshotOK(r)'
      BY <1>1, <1>4, <2>1, Watched DEF SnapshotOK
    <2>3. FlagOK(r)'
      BY <1>1, <1>4, <2>1 DEF SnapshotOK, FlagOK, Listing
    <2>. QED
      BY <1>1, <2>1, <2>2, <2>3, ReaderKeeps
  <1>. QED
    BY <1>3, <1>4 DEF ReadComments, ReadFollowed

-----------------------------------------------------------------------------
(* Lists and feeds *)

\* One statement returns the count and the flag: a favorite of the viewer is
\* one of those that are counted.
LEMMA FavoritesAgree ==
  ASSUME IInv, NEW q, NEW a
  PROVE  Agree(FavoritesOf(q, a))
  <1> DEFINE F == {f \in favorites : f[2] = a}
  <1>1. IsFiniteSet(F)
    BY FS_Subset DEF IInv
  <1>2. Cardinality(F) \in Nat /\ (Cardinality(F) = 0 <=> F = {})
    BY <1>1, FS_CardinalityType, FS_EmptySet
  <1>3. <<q.viewer, a>> \in favorites => F # {}
    OBVIOUS
  <1>4. FavoritesOf(q, a)[1] = Cardinality(F)
    BY DEF FavoritesOf, Count
  <1>5. FavoritesOf(q, a)[2] <=> <<q.viewer, a>> \in favorites
    BY DEF FavoritesOf
  <1>. HIDE DEF F
  <1>. QED
    BY <1>2, <1>3, <1>4, <1>5 DEF Agree

\* A step to l that leaves the favorites of the page unread.
LEMMA UnreadKeeps ==
  ASSUME IInv, Observe, NEW r \in Reader, Quiet,
         NEW l \in {"find", "count", "ids", "rows", "parts"},
         at' = [at EXCEPT ![r] = l],
         NEW g, Moves(r, g),
         Listing(query[r]) => g.favorites = None,
         query[r].kind = "comments" => l = "find"
  PROVE  IInv'
  <1>1. at'[r] = l /\ got'[r] = g /\ query' = query
    BY DEF IInv, Shape, Quiet, Moves
  <1>2. SnapshotOK(r)'
    BY <1>1 DEF SnapshotOK
  <1>3. FlagOK(r)'
    BY <1>1 DEF FlagOK, Answered, Listing
  <1>. QED
    BY <1>2, <1>3, ReaderKeeps

LEMMA FindKeeps ==
  ASSUME IInv, Observe, NEW r \in Reader, Arrive(r) \/ FindArticle(r) \/ FindViewer(r)
  PROVE  IInv'
  <1> DEFINE g == [got[r] EXCEPT !.heads = <<Head_(query[r].article)>>]
  <1>1. /\ Quiet /\ Shape /\ FlagOK(r) /\ at[r] \in {"begin", "find"}
        /\ UNCHANGED got => Moves(r, got[r])
        /\ got' = [got EXCEPT ![r] = g] => Moves(r, g)
    BY DEF IInv, Shape, Arrive, FindArticle, FindViewer, Moves
  <1>2. Listing(query[r]) => got[r].favorites = None
    BY <1>1 DEF FlagOK
  <1>3. CASE Arrive(r)
    BY <1>1, <1>2, <1>3, UnreadKeeps DEF Arrive, Goto
  <1>4. ASSUME NEW status \in {"failed", "notFound", "unauthorized"},
               Answer(r, Refused(status)), query[r].kind # "comments"
        PROVE  IInv'
    BY <1>1, <1>4, AnswerKeeps, Statuses
  <1>5. CASE FindArticle(r)
    <2>1. query[r].kind = "detail" /\ ~Listing(query[r])
      BY <1>5 DEF FindArticle, Listing
    <2>2. CASE got' = [got EXCEPT ![r] = g] /\ Goto(r, "parts")
      <3>. HIDE DEF g
      <3>. QED
        BY <1>1, <2>1, <2>2, UnreadKeeps DEF Goto
    <2>. QED
      BY <1>4, <1>5, <2>1, <2>2 DEF FindArticle
  <1>6. CASE FindViewer(r)
    <2>1. Listing(query[r]) /\ query[r].kind # "comments"
      BY <1>6 DEF FindViewer, Listing
    <2>. QED
      BY <1>1, <1>2, <1>4, <1>6, <2>1, UnreadKeeps DEF FindViewer, Goto
  <1>. QED
    BY <1>3, <1>5, <1>6

LEMMA PageKeeps ==
  ASSUME IInv, Observe, NEW r \in Reader, CountMatches(r) \/ PageIds(r) \/ PageRows(r)
  PROVE  IInv'
  <1>1. /\ Quiet /\ Shape /\ FlagOK(r) /\ SnapshotOK(r) /\ at[r] \in {"count", "ids", "rows"}
    BY DEF IInv, CountMatches, PageIds, PageRows
  <1>2. /\ Listing(query[r]) => got[r].favorites = None
        /\ query[r].kind # "comments"
    BY <1>1 DEF FlagOK, SnapshotOK
  <1>3. CASE CountMatches(r)
    <2> DEFINE g == [got[r] EXCEPT !.total = Cardinality(Matching(query[r]))]
    <2>1. Moves(r, g) /\ g.favorites = got[r].favorites /\ at' = [at EXCEPT ![r] = "ids"]
      BY <1>1, <1>3 DEF CountMatches, Moves, Shape, NoParts, Goto
    <2>. HIDE DEF g
    <2>. QED
      BY <1>1, <1>2, <2>1, UnreadKeeps
  <1>4. CASE PageIds(r)
    <2> DEFINE g == [got[r] EXCEPT !.ids = Window(query[r], InOrder(Matching(query[r])))]
    <2>1. Moves(r, g) /\ g.favorites = got[r].favorites /\ at' = [at EXCEPT ![r] = "rows"]
      BY <1>1, <1>4 DEF PageIds, Moves, Shape, NoParts, Goto
    <2>. HIDE DEF g
    <2>. QED
      BY <1>1, <1>2, <2>1, UnreadKeeps
  <1>5. CASE PageRows(r)
    <2> DEFINE rows == InOrder({a \in ToSet(got[r].ids) : Matches(query[r], a)})
               heads == [i \in DOMAIN rows |-> Head_(rows[i])]
               g == [got[r] EXCEPT !.heads = heads]
               none == <<got[r].total, <<>>>>
    <2>1. CASE Answer(r, Ok(none))
      <3>1. Ok(none).detail[2] = <<>> /\ DOMAIN <<>> = {}
        BY Statuses
      <3>. HIDE DEF none
      <3>. QED
        BY <1>1, <1>2, <2>1, <3>1, AnswerKeeps
    <2>2. CASE got' = [got EXCEPT ![r].heads = heads] /\ Goto(r, "parts")
      <3>. HIDE DEF heads
      <3>1. Moves(r, g) /\ g.favorites = got[r].favorites /\ at' = [at EXCEPT ![r] = "parts"]
        BY <1>1, <2>2 DEF Moves, Shape, NoParts, Goto
      <3>. HIDE DEF g
      <3>. QED
        BY <1>1, <1>2, <3>1, UnreadKeeps
    <2>. QED
      BY <1>5, <2>1, <2>2 DEF PageRows
  <1>. QED
    BY <1>3, <1>4, <1>5

LEMMA FetchPageKeeps ==
  ASSUME IInv, Observe, NEW r \in Reader, FetchPage(r)
  PROVE  IInv'
  <1>1. /\ Quiet /\ query' = query /\ Shape /\ FlagOK(r) /\ at[r] = "parts" /\ Listing(query[r])
        /\ query[r].kind # "comments" /\ at' = [at EXCEPT ![r] = "parts"] /\ at'[r] = "parts"
    BY DEF IInv, FetchPage, Quiet, Listing, Shape
  <1>2. SnapshotOK(r)'
    BY <1>1 DEF SnapshotOK
  <1>3. PICK part \in Part : /\ got[r][part] = None
                             /\ got' = [got EXCEPT ![r][part] = Fetched(r, part)]
    BY DEF FetchPage
  <1> DEFINE v == Fetched(r, part)
             g == [got[r] EXCEPT ![part] = v]
  <1>4. part \in {"tags", "favorites", "follows"}
    BY DEF Part
  <1>5. /\ Moves(r, g) /\ g.heads = got[r].heads
        /\ part # "favorites" => g.favorites = got[r].favorites
        /\ part = "favorites" => g.favorites = v
    <2>. HIDE DEF v
    <2>1. got' = [got EXCEPT ![r][part] = v]
      BY <1>3 DEF v
    <2>2. DOMAIN got[r] = {"snapshot", "total", "ids", "heads", "tags", "favorites", "follows",
                           "answer"}
      BY <1>1 DEF Shape, NoParts
    <2>3. Moves(r, g)
      BY <1>1, <1>4, <2>1 DEF Moves, Shape, NoParts
    <2>4. \A f \in DOMAIN got[r] : g[f] = IF f = part THEN v ELSE got[r][f]
      BY <1>4, <2>2
    <2>5. g["heads"] = got[r]["heads"]
      BY <1>4, <2>2, <2>4
    <2>6. g["favorites"] = IF part = "favorites" THEN v ELSE got[r]["favorites"]
      BY <1>4, <2>2, <2>4
    <2>. HIDE DEF g
    <2>. QED
      BY <2>3, <2>5, <2>6
  <1>6. part = "favorites" => \A i \in DOMAIN got[r].heads : Agree(v[i])
    <2>1. SUFFICES ASSUME part = "favorites", NEW i \in DOMAIN got[r].heads PROVE Agree(v[i])
      OBVIOUS
    <2>2. v = [j \in DOMAIN got[r].heads |-> FavoritesOf(query[r], got[r].heads[j].slug)]
      BY <2>1 DEF Fetched
    <2>3. v[i] = FavoritesOf(query[r], got[r].heads[i].slug)
      BY <2>2
    <2>. QED
      BY <2>3, FavoritesAgree
  <1>. HIDE DEF g, v
  <1>7. FlagOK(r)'
    <2>1. got'[r] = g
      BY <1>5 DEF Moves
    <2>. QED
      BY <1>1, <1>5, <1>6, <2>1 DEF FlagOK, Answered
  <1>. QED
    BY <1>1, <1>2, <1>5, <1>7, ReaderKeeps

LEMMA FetchDetailKeeps ==
  ASSUME IInv, Observe, NEW r \in Reader, FetchDetail(r)
  PROVE  IInv'
  <1>1. /\ Quiet /\ Shape /\ at[r] = "parts" /\ query' = query /\ at' = at
        /\ ~Listing(query[r]) /\ query[r].kind # "comments"
        /\ at' = [at EXCEPT ![r] = "parts"]
    BY DEF IInv, FetchDetail, Quiet, Listing, Shape
  <1>2. \E g : Moves(r, g)
    <2>1. ASSUME NEW part \in {"tags", "follows", "favorites"}, NEW v,
                 got' = [got EXCEPT ![r][part] = v]
          PROVE  Moves(r, [got[r] EXCEPT ![part] = v])
      BY <1>1, <2>1 DEF Moves, Shape, NoParts
    <2>2. CASE \E part \in {"tags", "follows"} : got' = [got EXCEPT ![r][part] = Fetched(r, part)]
      BY <2>1, <2>2
    <2>3. CASE \E v : got' = [got EXCEPT ![r].favorites = v]
      <3>1. PICK v : got' = [got EXCEPT ![r].favorites = v]
        BY <2>3
      <3>2. Moves(r, [got[r] EXCEPT !.favorites = v])
        BY <1>1, <3>1 DEF Moves, Shape, NoParts
      <3>. QED
        BY <3>2
    <2>. QED
      BY <2>2, <2>3 DEF FetchDetail
  <1>3. SnapshotOK(r)' /\ FlagOK(r)'
    BY <1>1 DEF SnapshotOK, FlagOK, Listing
  <1>. QED
    BY <1>1, <1>2, <1>3, ReaderKeeps

LEMMA ReplyKeeps ==
  ASSUME IInv, Observe, NEW r \in Reader, Reply(r)
  PROVE  IInv'
  <1> DEFINE g == got[r]
             items == [i \in DOMAIN g.heads |->
                         Item(g.heads[i], g.tags[i], g.favorites[i], g.follows)]
             page == <<g.total, items>>
  <1>1. /\ Quiet /\ FlagOK(r) /\ at[r] = "parts" /\ query[r].kind # "comments"
        /\ g.favorites # None
    BY DEF IInv, Reply, Part
  <1>2. CASE Listing(query[r])
    <2>1. Answer(r, Ok(page))
      BY <1>2 DEF Reply
    <2>2. \A i \in DOMAIN items : Agree(items[i].favs)
      <3>1. SUFFICES ASSUME NEW i \in DOMAIN g.heads PROVE Agree(items[i].favs)
        OBVIOUS
      <3>2. items[i].favs = g.favorites[i]
        BY DEF Item
      <3>. QED
        BY <1>1, <1>2, <3>1, <3>2 DEF FlagOK
    <2>3. Ok(page).detail[2] = items
      BY Statuses
    <2>. HIDE DEF items, page
    <2>. QED
      BY <1>1, <2>1, <2>2, <2>3, AnswerKeeps
  <1>3. CASE ~Listing(query[r])
    <2>1. Answer(r, Ok(items[1]))
      BY <1>3 DEF Reply
    <2>. HIDE DEF items
    <2>. QED
      BY <1>1, <1>3, <2>1, AnswerKeeps
  <1>. QED
    BY <1>2, <1>3

-----------------------------------------------------------------------------
(* Writes, and the theorems *)

LEMMA WritesKeep ==
  ASSUME IInv, Observe, Writes
  PROVE  IInv'
  <1>1. UNCHANGED rvars /\ IsFiniteSet(favorites')
    <2>1. IsFiniteSet(favorites)
      BY DEF IInv
    <2>2. ASSUME NEW q PROVE IsFiniteSet(FavoritesAfter(q))
      <3>1. IsFiniteSet({f \in favorites : f[2] # q.article})
        BY <2>1, FS_Subset
      <3>2. IsFiniteSet(favorites \ {<<q.user, q.article>>})
        BY <2>1, FS_Subset
      <3>3. IsFiniteSet(favorites \cup {<<q.user, q.article>>})
        BY <2>1, FS_AddElement
      <3>. QED
        BY <2>1, <3>1, <3>2, <3>3 DEF FavoritesAfter
    <2>3. ASSUME NEW r \in Request, Succeed(r) PROVE favorites' = FavoritesAfter(ask[r])
      BY <2>3 DEF Succeed, Write
    <2>4. ASSUME NEW r \in Request, Refuse(r) PROVE favorites' = favorites
      BY <2>4 DEF Refuse, store
    <2>5. ASSUME NEW u, NEW v, Follow(u, v) \/ Unfollow(u, v) PROVE favorites' = favorites
      BY <2>5 DEF Follow, Unfollow, svars, store
    <2>. QED
      BY <2>1, <2>2, <2>3, <2>4, <2>5 DEF Writes, Follow, Unfollow
  <1>2. follows' \subseteq User \X User
    BY DEF IInv, Writes, Follow, Unfollow
  <1>3. query' = query /\ at' = at /\ got' = got
    BY <1>1 DEF rvars
  <1>4. Shape'
    BY <1>3, Watched DEF IInv, Shape
  <1>. QED
    BY <1>1, <1>2, <1>3, <1>4, OthersKeep, Watched DEF IInv

LEMMA StepIInv == IInv /\ [Next]_vars => IInv'
  <1>. SUFFICES ASSUME IInv, [Next]_vars PROVE IInv'
    OBVIOUS
  <1>1. ASSUME Observe, NEW r \in Reader, Read(r) PROVE IInv'
    BY <1>1, FindKeeps, PageKeeps, OpenSnapshotKeeps, ReadCommentsKeeps, FetchPageKeeps,
       FetchDetailKeeps, ReplyKeeps DEF Read
  <1>2. ASSUME Observe, NEW r \in Reader, Fail(r) PROVE IInv'
    BY <1>2, AnswerKeeps, Statuses DEF Fail
  <1>3. CASE Writes /\ Observe
    BY <1>3, WritesKeep
  <1>4. CASE UNCHANGED vars
    <2>1. /\ UNCHANGED <<ask, articles, tagNames, favorites, comments, answer, follows>>
          /\ query' = query /\ at' = at /\ got' = got /\ could' = could
      BY <1>4 DEF vars, svars, store, rvars
    <2>2. \A r \in Reader : AtOnce(query[r])' = AtOnce(query[r])
      BY <1>4, SameMoment DEF vars, svars, rvars
    <2>3. Shape' /\ SeenInv' /\ IsFiniteSet(favorites') /\ follows' \subseteq User \X User
      BY <2>1, <2>2 DEF IInv, Shape, SeenInv, Active
    <2>4. \A r \in Reader : SnapshotOK(r)' /\ FlagOK(r)'
      BY <2>1 DEF IInv, SnapshotOK, FlagOK, Answered, Listing
    <2>. QED
      BY <2>3, <2>4 DEF IInv
  <1>. QED
    BY <1>1, <1>2, <1>3, <1>4 DEF Next

LEMMA InitIInv == Init => IInv
  <1>. SUFFICES ASSUME Init PROVE IInv
    OBVIOUS
  <1>1. Shape /\ IsFiniteSet(favorites) /\ follows \subseteq User \X User
    BY StoreAssumption DEF Init, StoreInit, Shape, NoParts
  <1>2. SeenInv
    BY DEF Init, SeenInv, Active
  <1>3. \A r \in Reader : SnapshotOK(r) /\ FlagOK(r)
    BY DEF Init, SnapshotOK, FlagOK, Answered, NoParts
  <1>. QED
    BY <1>1, <1>2, <1>3 DEF IInv

\* The inductive invariant holds in every reachable state.
THEOREM Invariance == Spec => []IInv
  BY InitIInv, StepIInv, PTL DEF Spec

\* A list of comments is that of one moment, and a 404 was true at one.
THEOREM CommentsAreOfOneMoment == Spec => []CommentsOfOneMoment
  <1>1. ASSUME IInv PROVE CommentsOfOneMoment
    <2> DEFINE listed(a) == [status |-> a.status,
                             ids |-> IF a.status = "ok" THEN {p[1] : p \in a.detail} ELSE {}]
    <2>1. SUFFICES ASSUME NEW r \in Reader, at[r] = "done", query[r].kind = "comments",
                          got[r].answer # Refused("failed")
                   PROVE  \E m \in could[r] : listed(got[r].answer) = listed(m)
      BY DEF CommentsOfOneMoment
    <2>2. PICK m \in could[r] : SameList(got[r].answer, m)
      BY <1>1, <2>1 DEF IInv, SnapshotOK
    <2>3. listed(got[r].answer) = listed(m)
      BY <2>2 DEF SameList, Ids
    <2>. QED
      BY <2>3
  <1>. QED
    BY <1>1, Invariance, PTL

\* In a list or feed, an article its viewer has favorited has a count above zero.
THEOREM FlagsAreCounted == Spec => []FlagIsCounted
  <1>1. ASSUME IInv PROVE FlagIsCounted
    <2>1. SUFFICES ASSUME NEW r \in Reader, Answered(r, {"list", "feed"}),
                          NEW i \in DOMAIN got[r].answer.detail[2]
                   PROVE  Agree(got[r].answer.detail[2][i].favs)
      BY DEF FlagIsCounted, Agree
    <2>2. Listing(query[r])
      BY <2>1 DEF Answered, Listing
    <2>. QED
      BY <1>1, <2>1, <2>2 DEF IInv, FlagOK
  <1>. QED
    BY <1>1, Invariance, PTL

-----------------------------------------------------------------------------
(* Pages, and requests that nothing disturbs *)

\* The slugs are in order, as many as asked for at most, and all of them matched
\* at one moment.
IsPage(r, slugs) ==
  /\ slugs = InOrder(ToSet(slugs)) /\ Len(slugs) <= query[r].limit
  /\ \E m \in could[r] : ToSet(slugs) \subseteq ToSet(Slugs(m.detail))
IsTotal(r, total) == \E m \in could[r] : total = Len(m.detail)
IsListed(r, detail) ==
  /\ IsTotal(r, detail[1]) /\ IsPage(r, Slugs(detail[2]))
  /\ Len(detail[2]) = Len(Slugs(detail[2]))

Unread(g) == g.tags = None /\ g.favorites = None /\ g.follows = None

PageOK(r) ==
  /\ query[r] \in Query
  /\ at[r] \notin {"parts", "done"} => Unread(got[r])
  /\ at[r] \in {"count", "ids", "rows"} => Listing(query[r])
  /\ Listing(query[r]) =>
       /\ at[r] \in {"count", "ids", "rows", "parts"} => query[r].viewer # Stranger
       /\ at[r] \in {"ids", "rows", "parts"} => IsTotal(r, got[r].total)
       /\ at[r] = "rows" =>
            \E S \in SUBSET Article : got[r].ids = Window(query[r], InOrder(S))
       /\ at[r] = "parts" =>
            /\ \E n \in Nat : DOMAIN got[r].heads = 1..n
            /\ IsPage(r, [i \in DOMAIN got[r].heads |-> got[r].heads[i].slug])
       /\ Answered(r, {"list", "feed"}) => IsListed(r, got[r].answer.detail)

\* The articles that an answer shows, one or a page.
Items(q, m) == IF Listing(q) THEN Window(q, m.detail) ELSE <<m.detail>>

\* What has been read of these articles is what there is.
Agrees(g, items, q) ==
  /\ g.heads = [i \in DOMAIN items |-> items[i].head]
  /\ g.tags # None => g.tags = [i \in DOMAIN items |-> items[i].tags]
  /\ g.favorites # None =>
       IF Listing(q) THEN g.favorites = [i \in DOMAIN items |-> items[i].favs]
       ELSE /\ g.favorites[1] = <<g.favorites[1][1], g.favorites[1][2]>>
            /\ \A i \in 1..2 : g.favorites[1][i] \in {None, items[1].favs[i]}
  /\ g.follows # None =>
       \A i \in DOMAIN items : (items[i].head.author \in g.follows) = items[i].following

QuietOK(r) ==
  \A m : could[r] = {m} =>
    /\ Listing(query[r]) /\ at[r] \in {"ids", "rows", "parts"} => got[r].total = Len(m.detail)
    /\ at[r] = "rows" => got[r].ids = Slugs(Window(query[r], m.detail))
    /\ at[r] = "parts" /\ query[r].kind # "comments" =>
         m.status = "ok" /\ Agrees(got[r], Items(query[r], m), query[r])
    /\ at[r] = "done" /\ got[r].answer # Refused("failed") => got[r].answer = Shown(query[r], m)

ExactInv ==
  /\ IInv
  /\ \A r \in Reader : PageOK(r) /\ QuietOK(r) /\ IsFiniteSet(could[r])

\* If Observe has seen but one answer, it is that of this moment.
LEMMA OneMoment ==
  ASSUME IInv, Observe, NEW r \in Reader, Active(r), NEW m, could'[r] = {m}
  PROVE  could[r] = {m} /\ m = AtOnce(query[r])
  <1>1. could[r] \subseteq could'[r] /\ AtOnce(query[r]) \in could[r]
    BY Watched DEF IInv, SeenInv
  <1>. QED
    BY <1>1

LEMMA OthersStayExact ==
  ASSUME ExactInv, Observe, NEW r \in Reader, query' = query, at'[r] = at[r], got'[r] = got[r]
  PROVE  PageOK(r)' /\ QuietOK(r)'
  <1>1. /\ IInv /\ PageOK(r) /\ QuietOK(r) /\ could[r] \subseteq could'[r]
        /\ at[r] \in {"begin", "done"} => could'[r] = could[r]
    BY Watched DEF ExactInv, Observe
  <1>2. PageOK(r)'
    BY <1>1 DEF PageOK, Unread, IsListed, IsPage, IsTotal, Answered, Listing
  <1>3. ASSUME NEW m, could'[r] = {m}, at[r] # "begin" PROVE could[r] = {m}
    BY <1>1, <1>3, OneMoment DEF Active
  <1>4. QuietOK(r)'
    BY <1>1, <1>3 DEF QuietOK, Listing
  <1>. QED
    BY <1>2, <1>4

-----------------------------------------------------------------------------
(* What there is at one moment *)

\* What an article of an answer is made of.
LEMMA NowParts ==
  ASSUME NEW q, NEW a
  PROVE  LET item == Now(q, a) IN
         /\ item = [head |-> item.head, tags |-> item.tags, favs |-> item.favs,
                    following |-> item.following]
         /\ item.head = Head_(a) /\ item.head.slug = a /\ item.tags = TagsOf(a)
         /\ item.favs = FavoritesOf(q, a)
         /\ item.following = (item.head.author \in Followed(q))
  <1>1. /\ Now(q, a).head = Head_(a) /\ Now(q, a).tags = TagsOf(a)
        /\ Now(q, a).favs = FavoritesOf(q, a)
    BY DEF Now
  <1>2. Now(q, a).following = (articles[a].author \in Followed(q))
    BY Zenon DEF Now
  <1>3. Head_(a).slug = a /\ Head_(a).author = articles[a].author
    BY DEF Head_
  <1>4. Now(q, a) = [head |-> Now(q, a).head, tags |-> Now(q, a).tags, favs |-> Now(q, a).favs,
                     following |-> Now(q, a).following]
    BY Zenon DEF Now
  <1>. QED
    BY Zenon, <1>1, <1>2, <1>3, <1>4

LEMMA ListAtOnce ==
  ASSUME NEW q \in Query, Listing(q), q.viewer # Stranger
  PROVE  /\ AtOnce(q).status = "ok" /\ AtOnce(q) = Ok(AtOnce(q).detail)
         /\ Len(AtOnce(q).detail) = Cardinality(Matching(q))
         /\ Cardinality(Matching(q)) \in Nat
         /\ AtOnce(q).detail \in [1..Cardinality(Matching(q)) -> {Now(q, a) : a \in Article}]
         /\ \A i \in 1..Cardinality(Matching(q)) :
              AtOnce(q).detail[i] = Now(q, InOrder(Matching(q))[i])
         /\ Slugs(AtOnce(q).detail) = InOrder(Matching(q))
  <1> DEFINE found == InOrder(Matching(q))
             n == Cardinality(Matching(q))
             D == [i \in DOMAIN found |-> Now(q, found[i])]
  <1>1. AtOnce(q) = Ok(D)
    BY DEF AtOnce
  <1>2. Matching(q) \in SUBSET Article
    BY DEF Matching
  <1>3. n \in Nat /\ found \in [1..n -> Article] /\ DOMAIN found = 1..n
    BY <1>2, Ordered, Places
  <1>. HIDE DEF found, n
  <1>4. D \in [1..n -> {Now(q, a) : a \in Article}] /\ \A i \in 1..n : D[i] = Now(q, found[i])
    BY <1>3
  <1>5. \A i \in 1..n : D[i].head.slug = found[i]
    BY <1>4 DEF Now, Head_
  <1>. HIDE DEF D
  <1>6. Len(D) = n
    BY <1>3, <1>4
  <1>7. Slugs(D) = found
    BY <1>3, <1>4, <1>5 DEF Slugs
  <1>8. AtOnce(q).status = "ok" /\ AtOnce(q).detail = D
    BY <1>1, Statuses
  <1>. QED
    BY <1>1, <1>3, <1>4, <1>6, <1>7, <1>8 DEF found, n

LEMMA DetailAtOnce ==
  ASSUME NEW q \in Query, q.kind = "detail"
  PROVE  AtOnce(q) = IF ~Live(q.article) THEN Refused("notFound")
                     ELSE IF q.viewer = Stranger THEN Refused("unauthorized")
                     ELSE Ok(Now(q, q.article))
  BY DEF AtOnce, Listing

\* The window on the list of a moment shows the articles of the window on its slugs.
LEMMA PageAtOnce ==
  ASSUME NEW q \in Query, Listing(q), q.viewer # Stranger
  PROVE  LET page == Window(q, AtOnce(q).detail) ids == Window(q, InOrder(Matching(q))) IN
         /\ Len(page) = Len(ids) /\ Len(ids) \in Nat
         /\ DOMAIN page = 1..Len(ids) /\ DOMAIN ids = 1..Len(ids)
         /\ \A i \in 1..Len(ids) : page[i] = Now(q, ids[i])
         /\ Slugs(page) = ids
         /\ ToSet(ids) \subseteq Matching(q)
  <1> DEFINE D == AtOnce(q).detail
             found == InOrder(Matching(q))
             T == {Now(q, a) : a \in Article}
             page == Window(q, D)
             ids == Window(q, found)
             n == Cardinality(Matching(q))
  <1>1. Matching(q) \in SUBSET Article
    BY DEF Matching
  <1>2. n \in Nat /\ D \in [1..n -> T] /\ Len(D) = n /\ \A i \in 1..n : D[i] = Now(q, found[i])
    BY ListAtOnce
  <1>3. found \in Seq(Matching(q)) /\ Len(found) = n
    BY <1>1, Ordered
  <1>. HIDE DEF D, found, T, n
  <1>4. D \in Seq(T)
    BY <1>2
  <1>5. /\ page \in Seq(T) /\ ids \in Seq(Matching(q)) /\ Len(page) = Len(ids)
        /\ \A i \in 1..Len(page) : q.offset + i \in 1..Len(D) /\ page[i] = D[q.offset + i]
        /\ \A i \in 1..Len(ids) : ids[i] = found[q.offset + i]
    BY <1>2, <1>3, <1>4, WindowOf
  <1>. HIDE DEF page, ids
  <1>6. \A i \in 1..Len(ids) : page[i] = Now(q, ids[i])
    BY <1>2, <1>5
  <1>7. DOMAIN page = 1..Len(ids) /\ DOMAIN ids = 1..Len(ids) /\ Len(ids) \in Nat
    BY <1>5
  <1>8. Slugs(page) = ids
    <2>1. ASSUME NEW i \in 1..Len(ids) PROVE page[i].head.slug = ids[i]
      BY <1>6, NowParts
    <2>. QED
      BY <1>5, <1>7, <2>1 DEF Slugs
  <1>9. ToSet(ids) \subseteq Matching(q)
    BY <1>5, <1>7 DEF ToSet
  <1>. QED
    BY <1>5, <1>6, <1>7, <1>8, <1>9 DEF page, ids, D, found

LEMMA ItemsAtOnce ==
  ASSUME NEW q \in Query, q.kind # "comments", AtOnce(q).status = "ok"
  PROVE  LET items == Items(q, AtOnce(q)) IN
         /\ Len(items) \in Nat /\ DOMAIN items = 1..Len(items)
         /\ ~Listing(q) => Len(items) = 1 /\ items[1] = AtOnce(q).detail /\ AtOnce(q) = Ok(items[1])
         /\ \A i \in 1..Len(items) : \E a : items[i] = Now(q, a)
  <1>1. CASE Listing(q)
    <2>1. q.viewer # Stranger
      BY <1>1, Statuses DEF AtOnce
    <2>2. Items(q, AtOnce(q)) = Window(q, AtOnce(q).detail)
      BY <1>1 DEF Items
    <2>. QED
      BY <1>1, <2>1, <2>2, PageAtOnce
  <1>2. CASE ~Listing(q)
    <2>1. q.kind = "detail"
      BY <1>2, ReadsAssumption DEF Listing
    <2>2. AtOnce(q) = Ok(Now(q, q.article))
      BY <2>1, DetailAtOnce, Statuses
    <2>3. Items(q, AtOnce(q)) = <<AtOnce(q).detail>> /\ AtOnce(q).detail = Now(q, q.article)
      BY <1>2, <2>2, Statuses DEF Items
    <2>. QED
      BY <1>2, <2>2, <2>3
  <1>. QED
    BY <1>1, <1>2

-----------------------------------------------------------------------------
(* The statements of a request *)

LEMMA AnswerIsExact ==
  ASSUME ExactInv, Observe, NEW r \in Reader, Active(r), NEW a, Answer(r, a), Quiet,
         Listing(query[r]) /\ a.status = "ok" => IsListed(r, a.detail),
         AtOnce(query[r]) \in could[r] /\ a # Refused("failed") /\ could[r] = {AtOnce(query[r])}
           => a = Shown(query[r], AtOnce(query[r]))
  PROVE  PageOK(r)' /\ QuietOK(r)'
  <1>1. IInv /\ PageOK(r) /\ query' = query
    BY DEF ExactInv, Quiet
  <1>2. at'[r] = "done" /\ got'[r].answer = a
    BY <1>1, Answering
  <1>3. could'[r] = could[r] /\ AtOnce(query[r]) \in could[r]
    BY <1>1, <1>2 DEF Observe, IInv, SeenInv
  <1>4. PageOK(r)'
    BY <1>1, <1>2, <1>3 DEF PageOK, Unread, IsListed, IsPage, IsTotal, Answered, Listing
  <1>5. ASSUME NEW m, could[r] = {m}, a # Refused("failed") PROVE a = Shown(query[r], m)
    BY <1>3, <1>5
  <1>6. QuietOK(r)'
    BY <1>1, <1>2, <1>3, <1>5 DEF QuietOK
  <1>. QED
    BY <1>4, <1>6

LEMMA FailIsExact ==
  ASSUME ExactInv, Observe, NEW r \in Reader, Fail(r)
  PROVE  PageOK(r)' /\ QuietOK(r)'
  BY AnswerIsExact, Statuses DEF Fail

LEMMA ArriveIsExact ==
  ASSUME ExactInv, Observe, NEW r \in Reader, Arrive(r)
  PROVE  PageOK(r)' /\ QuietOK(r)'
  <1>1. PageOK(r) /\ query' = query /\ got' = got /\ at[r] = "begin" /\ at'[r] = "find"
    BY DEF ExactInv, IInv, Shape, Arrive, Goto, Quiet
  <1>. QED
    BY <1>1 DEF PageOK, QuietOK, Unread, Answered, Listing

LEMMA FindArticleIsExact ==
  ASSUME ExactInv, Observe, NEW r \in Reader, FindArticle(r)
  PROVE  PageOK(r)' /\ QuietOK(r)'
  <1> DEFINE q == query[r]
  <1>1. /\ IInv /\ Shape /\ PageOK(r) /\ query' = query /\ Quiet /\ Active(r)
        /\ q \in Query /\ q.kind = "detail" /\ ~Listing(q)
    BY DEF ExactInv, IInv, PageOK, FindArticle, Quiet, Active, Listing
  <1>2. AtOnce(q) = IF ~Live(q.article) THEN Refused("notFound")
                    ELSE IF q.viewer = Stranger THEN Refused("unauthorized")
                    ELSE Ok(Now(q, q.article))
    BY <1>1, DetailAtOnce
  <1>3. Shown(q, AtOnce(q)) = AtOnce(q)
    BY <1>1 DEF Shown
  <1>4. CASE ~Live(q.article)
    <2>1. Answer(r, Refused("notFound"))
      BY <1>4 DEF FindArticle
    <2>. QED
      BY <1>1, <1>2, <1>3, <1>4, <2>1, AnswerIsExact
  <1>5. CASE Live(q.article) /\ q.viewer = Stranger
    <2>1. Answer(r, Refused("unauthorized"))
      BY <1>5 DEF FindArticle
    <2>. QED
      BY <1>1, <1>2, <1>3, <1>5, <2>1, AnswerIsExact
  <1>6. CASE Live(q.article) /\ q.viewer # Stranger
    <2> DEFINE heads == <<Head_(q.article)>>
    <2>1. got' = [got EXCEPT ![r].heads = heads] /\ at' = [at EXCEPT ![r] = "parts"]
      BY <1>6 DEF FindArticle, Goto
    <2>. HIDE DEF heads
    <2>2. /\ at'[r] = "parts" /\ got'[r].heads = heads /\ Unread(got'[r])
      BY <1>1, <2>1 DEF Shape, NoParts, PageOK, Unread, FindArticle
    <2>3. PageOK(r)'
      BY <1>1, <2>2 DEF PageOK, Answered, Listing
    <2>4. ASSUME NEW m, could'[r] = {m}
          PROVE  m.status = "ok" /\ Agrees(got'[r], Items(q, m), q)
      <3>1. m = Ok(Now(q, q.article))
        BY <1>1, <1>2, <1>6, <2>4, OneMoment
      <3>2. m.status = "ok" /\ Items(q, m) = <<Now(q, q.article)>>
        BY <1>1, <3>1, Statuses DEF Items
      <3>3. heads = [i \in DOMAIN Items(q, m) |-> Items(q, m)[i].head]
        <4>1. Now(q, q.article).head = Head_(q.article)
          BY NowParts
        <4>. QED
          BY <3>2, <4>1 DEF heads
      <3>. QED
        BY <2>2, <3>2, <3>3 DEF Agrees, Unread
    <2>5. QuietOK(r)'
      BY <1>1, <2>2, <2>4 DEF QuietOK, Listing
    <2>. QED
      BY <2>3, <2>5
  <1>. QED
    BY <1>4, <1>5, <1>6

LEMMA FindViewerIsExact ==
  ASSUME ExactInv, Observe, NEW r \in Reader, FindViewer(r)
  PROVE  PageOK(r)' /\ QuietOK(r)'
  <1> DEFINE q == query[r]
  <1>1. /\ IInv /\ Shape /\ PageOK(r) /\ query' = query /\ Quiet /\ Active(r)
        /\ q \in Query /\ Listing(q) /\ at[r] = "find"
    BY DEF ExactInv, IInv, PageOK, FindViewer, Quiet, Active, Listing
  <1>2. CASE q.viewer = Stranger
    <2>1. Answer(r, Refused("unauthorized")) /\ AtOnce(q) = Refused("unauthorized")
      BY <1>1, <1>2 DEF FindViewer, AtOnce
    <2>2. Shown(q, AtOnce(q)) = AtOnce(q)
      BY <2>1, Statuses DEF Shown
    <2>. QED
      BY <1>1, <2>1, <2>2, AnswerIsExact, Statuses
  <1>3. CASE q.viewer # Stranger
    <2>1. at'[r] = "count" /\ got' = got
      BY <1>1, <1>3 DEF FindViewer, Goto, Shape
    <2>. QED
      BY <1>1, <1>3, <2>1 DEF PageOK, QuietOK, Unread, Answered, Listing
  <1>. QED
    BY <1>2, <1>3

LEMMA CountIsExact ==
  ASSUME ExactInv, Observe, NEW r \in Reader, CountMatches(r)
  PROVE  PageOK(r)' /\ QuietOK(r)'
  <1> DEFINE q == query[r]
  <1>1. /\ IInv /\ Shape /\ SeenInv /\ PageOK(r) /\ query' = query /\ Active(r)
        /\ q \in Query /\ Listing(q) /\ at[r] = "count" /\ q.viewer # Stranger
    BY DEF ExactInv, IInv, PageOK, CountMatches, Quiet, Active
  <1>2. at'[r] = "ids" /\ got'[r] = [got[r] EXCEPT !.total = Cardinality(Matching(q))]
    BY <1>1 DEF CountMatches, Goto, Shape
  <1>3. got'[r].total = Len(AtOnce(q).detail)
    BY <1>1, <1>2, ListAtOnce DEF Shape, NoParts
  <1>4. Unread(got'[r])
    BY <1>1, <1>2 DEF Shape, NoParts, PageOK, Unread
  <1>5. AtOnce(q) \in could'[r]
    BY <1>1, Watched DEF SeenInv
  <1>6. PageOK(r)'
    BY <1>1, <1>2, <1>3, <1>4, <1>5 DEF PageOK, IsTotal, Answered, Listing
  <1>7. ASSUME NEW m, could'[r] = {m} PROVE got'[r].total = Len(m.detail)
    BY <1>1, <1>3, <1>7, OneMoment
  <1>8. QuietOK(r)'
    BY <1>1, <1>2, <1>7 DEF QuietOK
  <1>. QED
    BY <1>6, <1>8

LEMMA PageIdsIsExact ==
  ASSUME ExactInv, Observe, NEW r \in Reader, PageIds(r)
  PROVE  PageOK(r)' /\ QuietOK(r)'
  <1> DEFINE q == query[r]
             ids == Window(q, InOrder(Matching(q)))
  <1>1. /\ IInv /\ Shape /\ PageOK(r) /\ QuietOK(r) /\ query' = query /\ Active(r)
        /\ q \in Query /\ Listing(q) /\ at[r] = "ids" /\ q.viewer # Stranger
        /\ could[r] \subseteq could'[r]
    BY Watched DEF ExactInv, IInv, PageOK, PageIds, Quiet, Active
  <1>2. at'[r] = "rows" /\ got' = [got EXCEPT ![r].ids = ids]
    BY <1>1 DEF PageIds, Goto, Shape
  <1>3. Matching(q) \in SUBSET Article
    BY DEF Matching
  <1>4. ids = Slugs(Window(q, AtOnce(q).detail))
    BY <1>1, PageAtOnce
  <1>5. \E S \in SUBSET Article : ids = Window(q, InOrder(S))
    BY <1>3
  <1>. HIDE DEF ids
  <1>6. got'[r].ids = ids /\ got'[r].total = got[r].total /\ Unread(got'[r])
    BY <1>1, <1>2 DEF Shape, NoParts, PageOK, Unread
  <1>7. PageOK(r)'
    BY <1>1, <1>2, <1>5, <1>6 DEF PageOK, IsTotal, Answered, Listing
  <1>8. ASSUME NEW m, could'[r] = {m}
        PROVE  got'[r].total = Len(m.detail) /\ got'[r].ids = Slugs(Window(q, m.detail))
    <2>1. could[r] = {m} /\ m = AtOnce(q)
      BY <1>1, <1>8, OneMoment
    <2>. QED
      BY <1>1, <1>4, <1>6, <2>1 DEF QuietOK
  <1>9. QuietOK(r)'
    BY <1>1, <1>2, <1>8 DEF QuietOK
  <1>. QED
    BY <1>7, <1>9

LEMMA RowsOfPage ==
  ASSUME NEW q \in Query, NEW S \in SUBSET Article, NEW ids, ids = Window(q, InOrder(S)),
         NEW rows, rows = InOrder({a \in ToSet(ids) : Matches(q, a)})
  PROVE  /\ rows \in Seq(Article) /\ Len(rows) <= q.limit /\ rows = InOrder(ToSet(rows))
         /\ ToSet(rows) \subseteq Matching(q)
  <1> DEFINE M == {a \in ToSet(ids) : Matches(q, a)}
  <1>1. ids \in Seq(Article) /\ Len(ids) <= q.limit /\ Len(ids) \in Nat
    <2>1. InOrder(S) \in Seq(Article)
      BY Ordered
    <2>. QED
      BY <2>1, WindowOf
  <1>2. ToSet(ids) \in SUBSET Article /\ ids \in Surjection(1..Len(ids), ToSet(ids))
    BY <1>1 DEF ToSet, Surjection
  <1>3. Cardinality(ToSet(ids)) <= Len(ids)
    <2>1. ExistsSurjection(1..Len(ids), ToSet(ids))
      BY <1>2 DEF ExistsSurjection
    <2>. QED
      BY <1>1, <2>1, FS_SurjCardinalityBound
  <1>4. M \in SUBSET Article /\ M \in SUBSET ToSet(ids) /\ M \subseteq Matching(q)
    BY <1>2 DEF Matching
  <1>. HIDE DEF M
  <1>5. IsFiniteSet(ToSet(ids)) /\ Cardinality(ToSet(ids)) \in Nat /\ Cardinality(M) \in Nat
    BY <1>2, <1>4, Places
  <1>6. Cardinality(M) <= Cardinality(ToSet(ids))
    BY <1>4, <1>5, FS_Subset
  <1>7. rows = InOrder(M)
    BY DEF M
  <1>8. rows \in Seq(M) /\ Len(rows) = Cardinality(M) /\ ToSet(rows) = M
    BY <1>4, <1>7, Ordered
  <1>9. q.limit \in Nat
    BY ReadsAssumption
  <1>10. Len(rows) <= q.limit
    BY <1>1, <1>3, <1>5, <1>6, <1>8, <1>9
  <1>11. rows \in Seq(Article)
    BY <1>4, <1>8, SeqMonotonic
  <1>. QED
    BY <1>4, <1>7, <1>8, <1>10, <1>11

LEMMA PageRowsIsExact ==
  ASSUME ExactInv, Observe, NEW r \in Reader, PageRows(r)
  PROVE  PageOK(r)' /\ QuietOK(r)'
  <1> DEFINE q == query[r]
             ids == got[r].ids
             rows == InOrder({a \in ToSet(ids) : Matches(q, a)})
             now == AtOnce(q)
             page == Window(q, now.detail)
  <1>1. /\ IInv /\ Shape /\ PageOK(r) /\ QuietOK(r) /\ query' = query /\ Quiet /\ Active(r)
        /\ q \in Query /\ Listing(q) /\ at[r] = "rows" /\ q.viewer # Stranger
        /\ could[r] \subseteq could'[r] /\ now \in could[r]
        /\ Unread(got[r]) /\ IsTotal(r, got[r].total)
    BY Watched DEF ExactInv, IInv, PageOK, PageRows, Quiet, Active, SeenInv
  <1>2. PICK S \in SUBSET Article : ids = Window(q, InOrder(S))
    BY <1>1 DEF PageOK
  <1>3. /\ rows \in Seq(Article) /\ Len(rows) <= q.limit /\ rows = InOrder(ToSet(rows))
        /\ ToSet(rows) \subseteq Matching(q)
    BY <1>1, <1>2, RowsOfPage
  <1>4. now.status = "ok" /\ Len(page) = Len(Window(q, InOrder(Matching(q))))
        /\ ToSet(Slugs(now.detail)) = Matching(q)
    <2>1. Matching(q) \in SUBSET Article
      BY DEF Matching
    <2>. QED
      BY <1>1, <2>1, ListAtOnce, PageAtOnce, Ordered
  <1>5. IsPage(r, rows)
    BY <1>1, <1>3, <1>4 DEF IsPage
  <1>6. ASSUME could[r] = {now}
        PROVE  got[r].total = Len(now.detail) /\ rows = Slugs(page) /\ Len(rows) = Len(page)
               /\ DOMAIN page = 1..Len(page)
    <2>1. got[r].total = Len(now.detail) /\ ids = Slugs(page)
      BY <1>1, <1>6 DEF QuietOK
    <2>2. ids = Window(q, InOrder(Matching(q))) /\ ToSet(ids) \subseteq Matching(q)
          /\ DOMAIN page = 1..Len(page)
      BY <1>1, <2>1, PageAtOnce
    <2>3. {a \in ToSet(ids) : Matches(q, a)} = ToSet(ids)
      BY <2>2 DEF Matching
    <2>4. Matching(q) \in SUBSET Article
      BY DEF Matching
    <2>5. rows = ids
      BY <1>1, <2>2, <2>3, <2>4, PageInOrder
    <2>. QED
      BY <1>4, <2>1, <2>2, <2>5
  <1> HIDE DEF rows, now, page
  <1>7. CASE rows = <<>>
    <2> DEFINE detail == <<got[r].total, <<>>>>
    <2>1. Answer(r, Ok(detail))
      BY <1>7 DEF PageRows, rows
    <2>2. Slugs(<<>>) = <<>>
      BY DEF Slugs
    <2>3. IsListed(r, detail)
      BY <1>1, <1>5, <1>7, <2>2 DEF IsListed
    <2>4. ASSUME could[r] = {now} PROVE Ok(detail) = Shown(q, now)
      <3>1. got[r].total = Len(now.detail) /\ page = <<>>
        <4>1. page = Window(q, now.detail) /\ Len(page) = 0 /\ DOMAIN page = 1..0
          BY <1>6, <1>7, <2>4 DEF page
        <4>2. \E T : page \in Seq(T)
          <5>1. now.detail \in Seq({Now(q, a) : a \in Article})
            BY <1>1, ListAtOnce DEF now
          <5>. QED
            BY <4>1, <5>1, WindowOf, <1>1
        <4>. QED
          BY <1>6, <2>4, <4>1, <4>2
      <3>2. Shown(q, now) = Ok(<<Len(now.detail), page>>)
        BY <1>1, <1>4 DEF Shown, page
      <3>. QED
        BY <3>1, <3>2
    <2>. HIDE DEF detail
    <2>5. Ok(detail).detail = detail
      BY Statuses
    <2>. QED
      BY <1>1, <2>1, <2>3, <2>4, <2>5, AnswerIsExact DEF now
  <1>8. CASE rows # <<>>
    <2> DEFINE heads == [i \in DOMAIN rows |-> Head_(rows[i])]
    <2>1. got' = [got EXCEPT ![r].heads = heads] /\ at' = [at EXCEPT ![r] = "parts"]
      BY <1>8 DEF PageRows, Goto, rows
    <2>2. [i \in DOMAIN heads |-> heads[i].slug] = rows /\ DOMAIN heads = 1..Len(rows)
          /\ Len(rows) \in Nat
      <3>1. \A i \in DOMAIN rows : heads[i].slug = rows[i]
        BY DEF Head_
      <3>2. /\ rows = [i \in DOMAIN rows |-> rows[i]]
            /\ DOMAIN rows = 1..Len(rows) /\ Len(rows) \in Nat
        BY <1>3
      <3>. QED
        BY <3>1, <3>2
    <2>3. ASSUME could[r] = {now} PROVE heads = [i \in DOMAIN page |-> page[i].head]
      <3>1. DOMAIN rows = DOMAIN page /\ \A i \in DOMAIN page : rows[i] = page[i].head.slug
        BY <1>6, <2>3 DEF Slugs
      <3>2. ASSUME NEW i \in DOMAIN page PROVE Head_(rows[i]) = page[i].head
        <4>1. \E a : page[i] = Now(q, a)
          BY <1>1, PageAtOnce DEF page, now
        <4>2. PICK a : page[i] = Now(q, a)
          BY <4>1
        <4>. QED
          BY <3>1, <4>2, NowParts
      <3>. QED
        BY <3>1, <3>2
    <2>. HIDE DEF heads
    <2>4. at'[r] = "parts" /\ got'[r].heads = heads /\ got'[r].total = got[r].total
          /\ Unread(got'[r])
      BY <1>1, <2>1 DEF Shape, NoParts, Unread
    <2>5. PageOK(r)'
      BY <1>1, <1>5, <2>2, <2>4 DEF PageOK, IsTotal, IsPage, Answered, Listing
    <2>6. ASSUME NEW m, could'[r] = {m}
          PROVE  got'[r].total = Len(m.detail) /\ m.status = "ok" /\ Agrees(got'[r], Items(q, m), q)
      <3>1. could[r] = {now} /\ m = now
        BY <1>1, <2>6, OneMoment DEF now
      <3>2. Items(q, m) = page
        BY <1>1, <3>1 DEF Items, page
      <3>. QED
        BY <1>4, <1>6, <2>3, <2>4, <3>1, <3>2 DEF Agrees, Unread
    <2>7. QuietOK(r)'
      BY <1>1, <2>4, <2>6 DEF QuietOK, Listing
    <2>. QED
      BY <2>5, <2>7
  <1>. QED
    BY <1>7, <1>8

LEMMA NobodyFollows ==
  ASSUME IInv, NEW q, ~HasViewer(q)
  PROVE  Followed(q) = {}
  BY ReadsAssumption DEF IInv, HasViewer, Followed

LEMMA CommentsIsExact ==
  ASSUME ExactInv, Observe, NEW r \in Reader, OpenSnapshot(r) \/ ReadComments(r) \/ ReadFollowed(r)
  PROVE  PageOK(r)' /\ QuietOK(r)'
  <1> DEFINE q == query[r]
             now == AtOnce(q)
             found == got[r].snapshot
             flagged(S) == {<<c, c.author \in Followed(q)>> : c \in S}
  <1>1. /\ IInv /\ Shape /\ PageOK(r) /\ SnapshotOK(r) /\ query' = query /\ Quiet /\ Active(r)
        /\ q \in Query /\ q.kind = "comments" /\ ~Listing(q)
        /\ at[r] \in {"find", "comments", "parts"}
    BY DEF ExactInv, IInv, PageOK, SnapshotOK, OpenSnapshot, ReadComments, ReadFollowed, Quiet,
           Active, Listing
  <1>2. now = IF ~Live(q.article) THEN Refused("notFound") ELSE Ok(flagged(CommentsOf(q.article)))
    BY <1>1 DEF AtOnce
  <1>3. Shown(q, now) = now
    BY <1>1 DEF Shown
  <1>4. ASSUME NEW l, l \in {"comments", "parts"}, at'[r] = l, Unread(got'[r]) \/ l = "parts"
        PROVE  PageOK(r)' /\ QuietOK(r)'
    BY <1>1, <1>4 DEF PageOK, QuietOK, Answered, Listing
  <1>5. CASE OpenSnapshot(r)
    <2>1. at[r] = "find" /\ Unread(got[r])
      BY <1>1, <1>5 DEF OpenSnapshot, PageOK
    <2>2. CASE ~Live(q.article)
      <3>1. Answer(r, Refused("notFound"))
        BY <1>5, <2>2 DEF OpenSnapshot
      <3>. QED
        BY <1>1, <1>2, <1>3, <2>2, <3>1, AnswerIsExact
    <2>3. CASE Live(q.article)
      <3>1. at'[r] = "comments" /\ got'[r] = [got[r] EXCEPT !.snapshot = CommentsOf(q.article)]
        BY <1>1, <1>5, <2>3 DEF OpenSnapshot, Goto, Shape
      <3>2. Unread(got'[r])
        BY <1>1, <2>1, <3>1 DEF Unread, Shape, NoParts
      <3>. QED
        BY <1>4, <3>1, <3>2
    <2>. QED
      BY <2>2, <2>3
  <1>6. ASSUME at[r] \in {"comments", "parts"}, could[r] = {now} PROVE now = Ok(flagged(found))
    <2>1. now.status = "ok" /\ Ids(now) = found
      BY <1>1, <1>6 DEF SnapshotOK
    <2>2. now = Ok(flagged(CommentsOf(q.article)))
      BY <1>2, <2>1, Statuses
    <2>3. Ids(now) = CommentsOf(q.article)
      BY <2>2, IdsOfPairs
    <2>. QED
      BY <2>1, <2>2, <2>3
  <1>7. CASE ReadComments(r)
    <2>1. at[r] = "comments"
      BY <1>7 DEF ReadComments
    <2>2. CASE found = {} \/ ~HasViewer(q)
      <3>1. Answer(r, Ok({<<c, FALSE>> : c \in found}))
        BY <1>7, <2>2 DEF ReadComments
      <3>2. {<<c, FALSE>> : c \in found} = flagged(found)
        <4>1. ASSUME NEW c \in found PROVE (c.author \in Followed(q)) = FALSE
          BY <1>1, <2>2, NobodyFollows
        <4>. QED
          BY <4>1
      <3>. HIDE DEF now, flagged
      <3>. QED
        BY <1>1, <1>3, <1>6, <2>1, <3>1, <3>2, AnswerIsExact DEF now
    <2>3. CASE ~(found = {} \/ ~HasViewer(q))
      <3>1. at'[r] = "parts"
        BY <1>1, <1>7, <2>3 DEF ReadComments, Goto, Shape
      <3>. QED
        BY <1>4, <3>1
    <2>. QED
      BY <2>2, <2>3
  <1>8. CASE ReadFollowed(r)
    <2>1. at[r] = "parts" /\ Answer(r, Ok(flagged(found)))
      BY <1>8 DEF ReadFollowed
    <2>. HIDE DEF now, flagged
    <2>. QED
      BY <1>1, <1>3, <1>6, <2>1, AnswerIsExact DEF now
  <1>. QED
    BY <1>5, <1>7, <1>8

LEMMA FetchedIsNow ==
  ASSUME IInv, NEW r \in Reader, query[r] \in Query, query[r].kind # "comments",
         AtOnce(query[r]).status = "ok",
         NEW items, items = Items(query[r], AtOnce(query[r])),
         got[r].heads = [i \in DOMAIN items |-> items[i].head]
  PROVE  /\ Fetched(r, "tags") = [i \in DOMAIN items |-> items[i].tags]
         /\ Fetched(r, "favorites") = [i \in DOMAIN items |-> items[i].favs]
         /\ \A i \in DOMAIN items :
              (items[i].head.author \in Fetched(r, "follows")) = items[i].following
  <1> DEFINE q == query[r]
             heads == got[r].heads
  <1>1. ASSUME NEW i \in DOMAIN items
        PROVE  /\ items[i].tags = TagsOf(heads[i].slug)
               /\ items[i].favs = FavoritesOf(q, heads[i].slug)
               /\ items[i].following = (items[i].head.author \in Followed(q))
    <2>1. \E a : items[i] = Now(q, a)
      BY ItemsAtOnce
    <2>2. PICK a : items[i] = Now(q, a)
      BY <2>1
    <2>3. heads[i] = items[i].head
      OBVIOUS
    <2>4. /\ Now(q, a).head.slug = a /\ Now(q, a).tags = TagsOf(a)
          /\ Now(q, a).favs = FavoritesOf(q, a)
      BY NowParts
    <2>5. Now(q, a).following = (Now(q, a).head.author \in Followed(q))
      BY Zenon, NowParts
    <2>6. items[i].following = (items[i].head.author \in Followed(q))
      BY Zenon, <2>2, <2>5
    <2>7. items[i].tags = TagsOf(heads[i].slug) /\ items[i].favs = FavoritesOf(q, heads[i].slug)
      BY <2>2, <2>3, <2>4
    <2>. QED
      BY Zenon, <2>6, <2>7
  <1>2. DOMAIN heads = DOMAIN items
    OBVIOUS
  <1>3. Fetched(r, "tags") = [i \in DOMAIN items |-> items[i].tags]
    <2>1. Fetched(r, "tags") = [i \in DOMAIN heads |-> TagsOf(heads[i].slug)]
      BY DEF Fetched
    <2>. HIDE DEF heads
    <2>. QED
      BY Zenon, <1>1, <1>2, <2>1
  <1>4. Fetched(r, "favorites") = [i \in DOMAIN items |-> items[i].favs]
    <2>1. Fetched(r, "favorites") = [i \in DOMAIN heads |-> FavoritesOf(q, heads[i].slug)]
      BY DEF Fetched
    <2>. HIDE DEF heads
    <2>. QED
      BY Zenon, <1>1, <1>2, <2>1
  <1>5. Fetched(r, "follows") = Followed(q)
    <2>1. Fetched(r, "follows") = IF HasViewer(q) THEN Followed(q) ELSE {}
      BY DEF Fetched
    <2>. QED
      BY <2>1, NobodyFollows
  <1>6. ASSUME NEW i \in DOMAIN items
        PROVE  (items[i].head.author \in Fetched(r, "follows")) = items[i].following
    BY Zenon, <1>1, <1>5
  <1>. QED
    BY <1>3, <1>4, <1>6

\* Reading one part leaves the rest of what has been read.
LEMMA OnlyPart ==
  ASSUME Shape, NEW r \in Reader, NEW part \in Part, NEW v, got' = [got EXCEPT ![r][part] = v]
  PROVE  /\ got'[r].heads = got[r].heads /\ got'[r].total = got[r].total
         /\ got'[r].tags = IF part = "tags" THEN v ELSE got[r].tags
         /\ got'[r].favorites = IF part = "favorites" THEN v ELSE got[r].favorites
         /\ got'[r].follows = IF part = "follows" THEN v ELSE got[r].follows
  <1>1. DOMAIN got[r] = {"snapshot", "total", "ids", "heads", "tags", "favorites", "follows",
                         "answer"}
        /\ DOMAIN got = Reader
    BY DEF Shape, NoParts
  <1>2. got'[r] = [got[r] EXCEPT ![part] = v]
    BY <1>1
  <1>3. \A f \in DOMAIN got[r] : got'[r][f] = IF f = part THEN v ELSE got[r][f]
    BY <1>1, <1>2
  <1>4. part \in {"tags", "favorites", "follows"}
    BY DEF Part
  <1>5. got'[r]["heads"] = got[r]["heads"] /\ got'[r]["total"] = got[r]["total"]
    BY <1>1, <1>3, <1>4
  <1>6. /\ got'[r]["tags"] = IF part = "tags" THEN v ELSE got[r]["tags"]
        /\ got'[r]["favorites"] = IF part = "favorites" THEN v ELSE got[r]["favorites"]
        /\ got'[r]["follows"] = IF part = "follows" THEN v ELSE got[r]["follows"]
    BY <1>1, <1>3, <1>4
  <1>. QED
    BY <1>5, <1>6

\* Between two statements of the parts of an answer.
LEMMA PartIsExact ==
  ASSUME ExactInv, Observe, NEW r \in Reader, Quiet, at[r] = "parts", at'[r] = "parts",
         query[r].kind # "comments",
         got'[r].heads = got[r].heads, got'[r].total = got[r].total,
         ASSUME AtOnce(query[r]).status = "ok",
                Agrees(got[r], Items(query[r], AtOnce(query[r])), query[r])
         PROVE  Agrees(got'[r], Items(query[r], AtOnce(query[r])), query[r])
  PROVE  PageOK(r)' /\ QuietOK(r)'
  <1>1. /\ IInv /\ PageOK(r) /\ QuietOK(r) /\ query' = query /\ Active(r)
        /\ could[r] \subseteq could'[r]
    BY Watched DEF ExactInv, Quiet, Active
  <1>2. PageOK(r)'
    BY <1>1 DEF PageOK, IsTotal, IsPage, Answered, Listing
  <1>3. ASSUME NEW m, could'[r] = {m}
        PROVE  /\ m.status = "ok" /\ Agrees(got'[r], Items(query[r], m), query[r])
               /\ Listing(query[r]) => got'[r].total = Len(m.detail)
    <2>1. could[r] = {m} /\ m = AtOnce(query[r])
      BY <1>1, <1>3, OneMoment
    <2>. QED
      BY <1>1, <2>1 DEF QuietOK
  <1>4. QuietOK(r)'
    BY <1>1, <1>3 DEF QuietOK, Listing
  <1>. QED
    BY <1>2, <1>4

LEMMA FetchPageIsExact ==
  ASSUME ExactInv, Observe, NEW r \in Reader, FetchPage(r)
  PROVE  PageOK(r)' /\ QuietOK(r)'
  <1> DEFINE q == query[r]
             items == Items(q, AtOnce(q))
  <1>1. /\ IInv /\ Shape /\ PageOK(r) /\ Quiet /\ at[r] = "parts" /\ at'[r] = "parts"
        /\ q \in Query /\ Listing(q) /\ q.kind # "comments"
    BY DEF ExactInv, IInv, PageOK, FetchPage, Listing
  <1>2. PICK part \in Part : got' = [got EXCEPT ![r][part] = Fetched(r, part)]
    BY DEF FetchPage
  <1> DEFINE v == Fetched(r, part)
  <1>3. part \in {"tags", "favorites", "follows"}
    BY DEF Part
  <1>4. /\ got'[r].heads = got[r].heads /\ got'[r].total = got[r].total
        /\ got'[r].tags = IF part = "tags" THEN v ELSE got[r].tags
        /\ got'[r].favorites = IF part = "favorites" THEN v ELSE got[r].favorites
        /\ got'[r].follows = IF part = "follows" THEN v ELSE got[r].follows
    <2>. HIDE DEF v
    <2>1. got' = [got EXCEPT ![r][part] = v]
      BY <1>2 DEF v
    <2>. QED
      BY <1>1, <2>1, OnlyPart
  <1>5. ASSUME AtOnce(q).status = "ok", Agrees(got[r], items, q) PROVE Agrees(got'[r], items, q)
    <2>1. got[r].heads = [i \in DOMAIN items |-> items[i].head]
      BY <1>5 DEF Agrees
    <2>2. /\ Fetched(r, "tags") = [i \in DOMAIN items |-> items[i].tags]
          /\ Fetched(r, "favorites") = [i \in DOMAIN items |-> items[i].favs]
          /\ \A i \in DOMAIN items :
               (items[i].head.author \in Fetched(r, "follows")) = items[i].following
      <3>. HIDE DEF items
      <3>. QED
        BY <1>1, <1>5, <2>1, FetchedIsNow DEF items
    <2>. HIDE DEF items, v
    <2>3. got'[r].tags # None => got'[r].tags = [i \in DOMAIN items |-> items[i].tags]
      BY <1>4, <1>5, <2>2 DEF Agrees, v
    <2>4. got'[r].favorites # None => got'[r].favorites = [i \in DOMAIN items |-> items[i].favs]
      BY <1>1, <1>4, <1>5, <2>2 DEF Agrees, v
    <2>5. got'[r].follows # None =>
            \A i \in DOMAIN items : (items[i].head.author \in got'[r].follows) = items[i].following
      <3>1. CASE part = "follows"
        BY Zenon, <1>4, <2>2, <3>1 DEF v
      <3>2. CASE part # "follows"
        BY Zenon, <1>4, <1>5, <3>2 DEF Agrees
      <3>. QED
        BY <3>1, <3>2
    <2>. QED
      BY Zenon, <1>1, <1>4, <2>1, <2>3, <2>4, <2>5 DEF Agrees
  <1>. HIDE DEF items
  <1>. QED
    BY <1>1, <1>4, <1>5, PartIsExact DEF items

LEMMA FetchDetailIsExact ==
  ASSUME ExactInv, Observe, NEW r \in Reader, FetchDetail(r)
  PROVE  PageOK(r)' /\ QuietOK(r)'
  <1> DEFINE q == query[r]
             items == Items(q, AtOnce(q))
             fetched == Fetched(r, "favorites")[1]
             had == got[r].favorites
  <1>1. /\ IInv /\ Shape /\ PageOK(r) /\ Quiet /\ at[r] = "parts" /\ at'[r] = "parts"
        /\ q \in Query /\ ~Listing(q) /\ q.kind # "comments"
    BY DEF ExactInv, IInv, PageOK, FetchDetail, Listing
  <1>2. ASSUME AtOnce(q).status = "ok", Agrees(got[r], items, q)
        PROVE  /\ got[r].heads = [i \in DOMAIN items |-> items[i].head]
               /\ Fetched(r, "tags") = [i \in DOMAIN items |-> items[i].tags]
               /\ \A i \in DOMAIN items :
                    (items[i].head.author \in Fetched(r, "follows")) = items[i].following
               /\ fetched = items[1].favs /\ DOMAIN items = 1..1
    <2>1. got[r].heads = [i \in DOMAIN items |-> items[i].head]
      BY <1>2 DEF Agrees
    <2>2. /\ Fetched(r, "tags") = [i \in DOMAIN items |-> items[i].tags]
          /\ Fetched(r, "favorites") = [i \in DOMAIN items |-> items[i].favs]
          /\ \A i \in DOMAIN items :
               (items[i].head.author \in Fetched(r, "follows")) = items[i].following
      <3>. HIDE DEF items
      <3>. QED
        BY <1>1, <1>2, <2>1, FetchedIsNow DEF items
    <2>3. DOMAIN items = 1..1
      BY <1>1, <1>2, ItemsAtOnce
    <2>. HIDE DEF items
    <2>4. fetched = items[1].favs
      BY <2>2, <2>3
    <2>. QED
      BY <2>1, <2>2, <2>3, <2>4
  <1>3. ASSUME NEW part \in {"tags", "follows"}, got' = [got EXCEPT ![r][part] = Fetched(r, part)]
        PROVE  PageOK(r)' /\ QuietOK(r)'
    <2> DEFINE v == Fetched(r, part)
    <2>1. /\ got'[r].heads = got[r].heads /\ got'[r].total = got[r].total
          /\ got'[r].tags = IF part = "tags" THEN v ELSE got[r].tags
          /\ got'[r].favorites = had
          /\ got'[r].follows = IF part = "follows" THEN v ELSE got[r].follows
      <3>. HIDE DEF v
      <3>1. got' = [got EXCEPT ![r][part] = v] /\ part \in Part /\ part # "favorites"
        BY <1>3 DEF v, Part
      <3>2. /\ got'[r].heads = got[r].heads /\ got'[r].total = got[r].total
            /\ got'[r].tags = IF part = "tags" THEN v ELSE got[r].tags
            /\ got'[r].favorites = IF part = "favorites" THEN v ELSE got[r].favorites
            /\ got'[r].follows = IF part = "follows" THEN v ELSE got[r].follows
        BY <1>1, <3>1, OnlyPart
      <3>. QED
        BY <3>1, <3>2
    <2>2. ASSUME AtOnce(q).status = "ok", Agrees(got[r], items, q) PROVE Agrees(got'[r], items, q)
      <3>. HIDE DEF items, v, fetched
      <3>1. got'[r].tags # None => got'[r].tags = [i \in DOMAIN items |-> items[i].tags]
        BY <1>2, <2>1, <2>2 DEF Agrees, v
      <3>2. got'[r].follows # None =>
              \A i \in DOMAIN items :
                (items[i].head.author \in got'[r].follows) = items[i].following
        <4>1. CASE part = "follows"
          BY Zenon, <1>2, <2>1, <2>2, <4>1 DEF v
        <4>2. CASE part # "follows"
          BY Zenon, <2>1, <2>2, <4>2 DEF Agrees
        <4>. QED
          BY <4>1, <4>2
      <3>. QED
        BY Zenon, <2>1, <2>2, <3>1, <3>2 DEF Agrees
    <2>. HIDE DEF items
    <2>. QED
      BY <1>1, <2>1, <2>2, PartIsExact DEF items
  <1>4. ASSUME NEW half, got' = [got EXCEPT ![r].favorites = <<half>>],
               half = <<half[1], half[2]>>,
               AtOnce(q).status = "ok" /\ Agrees(got[r], items, q) =>
                 \A i \in 1..2 : half[i] \in {None, items[1].favs[i]}
        PROVE  PageOK(r)' /\ QuietOK(r)'
    <2> DEFINE v == <<half>>
    <2>1. /\ got'[r].heads = got[r].heads /\ got'[r].total = got[r].total
          /\ got'[r].tags = got[r].tags /\ got'[r].favorites = v
          /\ got'[r].follows = got[r].follows
      <3>. HIDE DEF v
      <3>1. got' = [got EXCEPT ![r].favorites = v]
        BY <1>4 DEF v
      <3>. QED
        BY <1>1, <3>1 DEF Shape, NoParts
    <2>2. ASSUME AtOnce(q).status = "ok", Agrees(got[r], items, q) PROVE Agrees(got'[r], items, q)
      <3>. HIDE DEF items
      <3>1. v[1] = half
        OBVIOUS
      <3>2. v[1] = <<v[1][1], v[1][2]>> /\ \A i \in 1..2 : v[1][i] \in {None, items[1].favs[i]}
        BY Zenon, <1>4, <2>2, <3>1
      <3>. HIDE DEF v
      <3>. QED
        BY Zenon, <1>1, <2>1, <2>2, <3>2 DEF Agrees
    <2>. HIDE DEF items
    <2>. QED
      BY <1>1, <2>1, <2>2, PartIsExact DEF items
  <1>5. CASE \E half \in {<<fetched[1], None>>, <<None, fetched[2]>>} :
               got' = [got EXCEPT ![r].favorites = <<half>>]
    <2>1. PICK half \in {<<fetched[1], None>>, <<None, fetched[2]>>} :
                 got' = [got EXCEPT ![r].favorites = <<half>>]
      BY <1>5
    <2>. HIDE DEF items, fetched
    <2>2. /\ half = <<half[1], half[2]>>
          /\ half[1] \in {None, fetched[1]} /\ half[2] \in {None, fetched[2]}
      OBVIOUS
    <2>3. AtOnce(q).status = "ok" /\ Agrees(got[r], items, q) =>
            \A i \in 1..2 : half[i] \in {None, items[1].favs[i]}
      BY <1>2, <2>2
    <2>. QED
      BY <1>4, <2>1, <2>2, <2>3
  <1>6. CASE /\ had # None
             /\ got' = [got EXCEPT ![r].favorites =
                  <<[i \in 1..2 |-> IF had[1][i] = None THEN fetched[i] ELSE had[1][i]]>>]
    <2> DEFINE half == [i \in 1..2 |-> IF had[1][i] = None THEN fetched[i] ELSE had[1][i]]
    <2>. HIDE DEF items, fetched
    <2>1. half = <<half[1], half[2]>>
      OBVIOUS
    <2>2. ASSUME AtOnce(q).status = "ok", Agrees(got[r], items, q), NEW i \in 1..2
          PROVE  half[i] \in {None, items[1].favs[i]}
      <3>1. had[1][i] \in {None, items[1].favs[i]}
        BY <1>1, <1>6, <2>2 DEF Agrees
      <3>. QED
        BY <1>2, <2>2, <3>1
    <2>3. got' = [got EXCEPT ![r].favorites = <<half>>]
      BY <1>6
    <2>. HIDE DEF half
    <2>. QED
      BY <1>4, <2>1, <2>2, <2>3
  <1>. QED
    BY <1>3, <1>5, <1>6 DEF FetchDetail

LEMMA ReplyIsExact ==
  ASSUME ExactInv, Observe, NEW r \in Reader, Reply(r)
  PROVE  PageOK(r)' /\ QuietOK(r)'
  <1> DEFINE q == query[r]
             g == got[r]
             now == AtOnce(q)
             shown == Items(q, now)
             items == [i \in DOMAIN g.heads |->
                         Item(g.heads[i], g.tags[i], g.favorites[i], g.follows)]
             detail == <<g.total, items>>
  <1>1. /\ IInv /\ Shape /\ PageOK(r) /\ QuietOK(r) /\ Quiet /\ at[r] = "parts" /\ Active(r)
        /\ q \in Query /\ q.kind # "comments"
        /\ g.tags # None /\ g.favorites # None /\ g.follows # None
        /\ q.kind = "detail" => \A i \in 1..2 : g.favorites[1][i] # None
    BY DEF ExactInv, IInv, PageOK, Reply, Active, Part
  <1>2. ASSUME could[r] = {now}
        PROVE  /\ now.status = "ok" /\ Agrees(g, shown, q)
               /\ Listing(q) => g.total = Len(now.detail)
    BY <1>1, <1>2 DEF QuietOK
  <1>3. ASSUME could[r] = {now} PROVE items = [i \in DOMAIN shown |-> shown[i]]
    <2>. HIDE DEF shown, now
    <2>1. /\ g.heads = [i \in DOMAIN shown |-> shown[i].head]
          /\ g.tags = [i \in DOMAIN shown |-> shown[i].tags]
          /\ \A i \in DOMAIN shown : (shown[i].head.author \in g.follows) = shown[i].following
      BY Zenon, <1>1, <1>2, <1>3 DEF Agrees
    <2>2. \A i \in DOMAIN shown : \E a : shown[i] = Now(q, a)
      BY <1>1, <1>2, <1>3, ItemsAtOnce DEF shown, now
    <2>3. ASSUME NEW i \in DOMAIN shown PROVE g.favorites[i] = shown[i].favs
      <3>1. CASE Listing(q)
        <4>1. g.favorites = [j \in DOMAIN shown |-> shown[j].favs]
          BY <1>1, <1>2, <1>3, <3>1 DEF Agrees
        <4>. QED
          BY <4>1
      <3>2. CASE ~Listing(q)
        <4>1. q.kind = "detail" /\ i = 1
          BY <1>1, <1>2, <1>3, <3>2, ItemsAtOnce, ReadsAssumption DEF Listing, shown, now
        <4>2. /\ g.favorites[1] = <<g.favorites[1][1], g.favorites[1][2]>>
              /\ \A j \in 1..2 : g.favorites[1][j] = shown[1].favs[j]
          BY <1>1, <1>2, <1>3, <3>2, <4>1 DEF Agrees
        <4>3. shown[1].favs = <<shown[1].favs[1], shown[1].favs[2]>>
          <5>1. PICK a : shown[1] = Now(q, a)
            BY <2>2, <4>1
          <5>2. shown[1].favs = FavoritesOf(q, a)
            BY <5>1, NowParts
          <5>3. \E count, flag : shown[1].favs = <<count, flag>>
            BY Zenon, <5>2 DEF FavoritesOf
          <5>. QED
            BY <5>3
        <4>. QED
          BY <4>1, <4>2, <4>3
      <3>. QED
        BY <3>1, <3>2
    <2>4. ASSUME NEW i \in DOMAIN shown
          PROVE  Item(g.heads[i], g.tags[i], g.favorites[i], g.follows) = shown[i]
      <3>1. PICK a : shown[i] = Now(q, a)
        BY <2>2
      <3>2. shown[i] = [head |-> shown[i].head, tags |-> shown[i].tags, favs |-> shown[i].favs,
                        following |-> shown[i].following]
        <4>1. Now(q, a) = [head |-> Now(q, a).head, tags |-> Now(q, a).tags,
                           favs |-> Now(q, a).favs, following |-> Now(q, a).following]
          BY Zenon, NowParts
        <4>. QED
          BY Zenon, <3>1, <4>1
      <3>3. g.heads[i] = shown[i].head /\ g.tags[i] = shown[i].tags
        BY <2>1
      <3>4. Item(shown[i].head, shown[i].tags, shown[i].favs, g.follows) = shown[i]
        BY Zenon, <2>1, <3>2 DEF Item
      <3>. QED
        BY Zenon, <2>3, <3>3, <3>4
    <2>5. DOMAIN g.heads = DOMAIN shown
      BY <2>1
    <2>. QED
      BY Zenon, <2>4, <2>5
  <1>4. CASE Listing(q)
    <2>1. Answer(r, Ok(detail))
      BY <1>4 DEF Reply
    <2>2. IsListed(r, detail)
      <3>1. PICK n \in Nat : DOMAIN g.heads = 1..n
        BY <1>1, <1>4 DEF PageOK
      <3>2. IsTotal(r, g.total) /\ IsPage(r, [i \in DOMAIN g.heads |-> g.heads[i].slug])
        BY <1>1, <1>4 DEF PageOK
      <3>3. \A i \in DOMAIN g.heads : items[i].head.slug = g.heads[i].slug
        BY DEF Item
      <3>4. DOMAIN items = 1..n /\ Len(items) = n
        BY <3>1
      <3>. HIDE DEF items
      <3>5. Slugs(items) = [i \in DOMAIN g.heads |-> g.heads[i].slug] /\ Len(Slugs(items)) = n
        BY <3>1, <3>3, <3>4 DEF Slugs
      <3>. QED
        BY <3>2, <3>4, <3>5 DEF IsListed
    <2>3. ASSUME could[r] = {now} PROVE Ok(detail) = Shown(q, now)
      <3>1. /\ shown = Window(q, now.detail)
            /\ Shown(q, now) = Ok(<<Len(now.detail), Window(q, now.detail)>>)
        BY <1>2, <1>4, <2>3 DEF Items, Shown
      <3>2. \E T : now.detail \in Seq(T)
        <4>1. q.viewer # Stranger
          BY <1>1, <1>4 DEF PageOK
        <4>2. now.detail \in Seq({Now(q, a) : a \in Article})
          BY <1>1, <1>4, <4>1, ListAtOnce
        <4>. QED
          BY <4>2
      <3>. HIDE DEF items, now, shown
      <3>3. shown = [i \in DOMAIN shown |-> shown[i]]
        <4>1. PICK T : now.detail \in Seq(T)
          BY <3>2
        <4>2. shown \in Seq(T)
          BY <1>1, <3>1, <4>1, WindowOf
        <4>. QED
          BY <4>2
      <3>. QED
        BY <1>2, <1>3, <1>4, <2>3, <3>1, <3>3
    <2>. HIDE DEF detail, now
    <2>4. Ok(detail).detail = detail
      BY Statuses
    <2>. QED
      BY <1>1, <1>4, <2>1, <2>2, <2>3, <2>4, AnswerIsExact DEF now
  <1>5. CASE ~Listing(q)
    <2>1. Answer(r, Ok(items[1]))
      BY <1>5 DEF Reply
    <2>2. ASSUME could[r] = {now} PROVE Ok(items[1]) = Shown(q, now)
      <3>1. DOMAIN shown = 1..1 /\ now = Ok(shown[1])
        BY <1>1, <1>2, <1>5, <2>2, ItemsAtOnce
      <3>2. Shown(q, now) = now
        BY <1>5 DEF Shown
      <3>. HIDE DEF items, shown, now
      <3>. QED
        BY <1>3, <2>2, <3>1, <3>2
    <2>. HIDE DEF items, now
    <2>. QED
      BY <1>1, <1>5, <2>1, <2>2, AnswerIsExact DEF now
  <1>. QED
    BY <1>4, <1>5

LEMMA OthersWait ==
  ASSUME IInv, NEW r \in Reader, Read(r) \/ Fail(r)
  PROVE  query' = query /\ \A s \in Reader \ {r} : at'[s] = at[s] /\ got'[s] = got[s]
  <1>1. Shape
    BY DEF IInv
  <1>2. CASE Fail(r) \/ Arrive(r) \/ FindArticle(r) \/ FindViewer(r)
    BY <1>1, <1>2 DEF Shape, Fail, Arrive, FindArticle, FindViewer, Answer, Goto, Quiet
  <1>3. CASE CountMatches(r) \/ PageIds(r) \/ PageRows(r)
    BY <1>1, <1>3 DEF Shape, CountMatches, PageIds, PageRows, Answer, Goto, Quiet
  <1>4. CASE OpenSnapshot(r) \/ ReadComments(r) \/ ReadFollowed(r)
    BY <1>1, <1>4 DEF Shape, OpenSnapshot, ReadComments, ReadFollowed, Answer, Goto, Quiet
  <1>5. CASE FetchPage(r) \/ FetchDetail(r) \/ Reply(r)
    BY <1>1, <1>5 DEF Shape, FetchPage, FetchDetail, Reply, Answer, Goto, Quiet
  <1>. QED
    BY <1>2, <1>3, <1>4, <1>5 DEF Read

LEMMA StepExact == ExactInv /\ [Next]_vars => ExactInv'
  <1>. SUFFICES ASSUME ExactInv, [Next]_vars PROVE ExactInv'
    OBVIOUS
  <1>1. IInv /\ IInv'
    BY StepIInv DEF ExactInv
  <1>2. ASSUME Observe, NEW r \in Reader, Read(r) \/ Fail(r)
        PROVE  \A s \in Reader : PageOK(s)' /\ QuietOK(s)'
    <2>1. PageOK(r)' /\ QuietOK(r)'
      BY <1>2, FailIsExact, ArriveIsExact, FindArticleIsExact, FindViewerIsExact, CountIsExact,
         PageIdsIsExact, PageRowsIsExact, CommentsIsExact, FetchPageIsExact, FetchDetailIsExact,
         ReplyIsExact DEF Read
    <2>2. query' = query /\ \A s \in Reader \ {r} : at'[s] = at[s] /\ got'[s] = got[s]
      BY <1>1, <1>2, OthersWait
    <2>. QED
      BY <1>2, <2>1, <2>2, OthersStayExact
  <1>3. ASSUME Observe, Writes PROVE \A s \in Reader : PageOK(s)' /\ QuietOK(s)'
    <2>1. query' = query /\ at' = at /\ got' = got
      BY <1>3 DEF Writes, Follow, Unfollow, rvars
    <2>. QED
      BY <1>3, <2>1, OthersStayExact
  <1>4. ASSUME UNCHANGED vars PROVE \A s \in Reader : PageOK(s)' /\ QuietOK(s)'
    <2>1. query' = query /\ at' = at /\ got' = got /\ could' = could
      BY <1>4 DEF vars, rvars
    <2>2. \A s \in Reader : PageOK(s) /\ QuietOK(s)
      BY DEF ExactInv
    <2>3. \A s \in Reader : PageOK(s)'
      BY <2>1, <2>2 DEF PageOK, Unread, IsListed, IsPage, IsTotal, Answered, Listing
    <2>4. \A s \in Reader : QuietOK(s)'
      BY <2>1, <2>2 DEF QuietOK, Listing
    <2>. QED
      BY <2>3, <2>4
  <1>5. \A s \in Reader : IsFiniteSet(could'[s])
    <2>1. ASSUME NEW s \in Reader, Observe PROVE IsFiniteSet(could'[s])
      <3>1. could'[s] = could[s] \/ could'[s] = could[s] \cup {AtOnce(query[s])'}
        BY <2>1 DEF Observe
      <3>. QED
        BY <3>1, FS_AddElement DEF ExactInv
    <2>. QED
      BY <2>1 DEF Next, vars, ExactInv
  <1>. QED
    BY <1>1, <1>2, <1>3, <1>4, <1>5 DEF Next, ExactInv

\* What makes pages of one moment and answers exact holds in every reachable state.
THEOREM Exactness == Spec => []ExactInv
  <1>1. Init => ExactInv
    <2>. SUFFICES ASSUME Init PROVE ExactInv
      OBVIOUS
    <2>1. \A r \in Reader : PageOK(r) /\ QuietOK(r)
      BY DEF Init, PageOK, QuietOK, Unread, Answered, NoParts
    <2>2. \A r \in Reader : IsFiniteSet(could[r])
      BY FS_EmptySet DEF Init
    <2>. QED
      BY <2>1, <2>2, InitIInv DEF ExactInv
  <1>. QED
    BY <1>1, StepExact, PTL DEF Spec

\* A page lists articles that all matched the filters at one moment, newest first
\* and none twice, at most as many as asked for; its total is that of a moment.
THEOREM PagesAreOfOneMoment == Spec => []PageOfOneMoment
  <1>1. ASSUME ExactInv PROVE PageOfOneMoment
    <2> DEFINE detail(r) == got[r].answer.detail
    <2>1. SUFFICES ASSUME NEW r \in Reader, Answered(r, {"list", "feed"})
                   PROVE  /\ Len(detail(r)[2]) <= query[r].limit
                          /\ \E m \in could[r] : detail(r)[1] = Len(m.detail)
                          /\ Slugs(detail(r)[2]) = InOrder(ToSet(Slugs(detail(r)[2])))
                          /\ \E m \in could[r] :
                               ToSet(Slugs(detail(r)[2])) \subseteq ToSet(Slugs(m.detail))
      BY DEF PageOfOneMoment
    <2>2. IsListed(r, detail(r))
      BY <1>1, <2>1 DEF ExactInv, PageOK, Answered, Listing
    <2>. HIDE DEF detail
    <2>. QED
      BY <2>2 DEF IsListed, IsPage, IsTotal
  <1>. QED
    BY <1>1, Exactness, PTL

LEMMA QuietIsExact ==
  ASSUME ExactInv
  PROVE  QuietAnswer
  <1>1. SUFFICES ASSUME NEW r \in Reader, at[r] = "done", got[r].answer # Refused("failed"),
                        Cardinality(could[r]) = 1, NEW m \in could[r]
                 PROVE  got[r].answer = Shown(query[r], m)
    BY DEF QuietAnswer
  <1>2. IsFiniteSet(could[r])
    BY DEF ExactInv
  <1>3. could[r] = {m}
    BY <1>1, <1>2, FS_Singleton
  <1>. QED
    BY <1>1, <1>3 DEF ExactInv, QuietOK

-----------------------------------------------------------------------------
(* Types *)

LEMMA UpdatedRow ==
  ASSUME NEW row \in Row, NEW q \in Ask, q.op = "update"
  PROVE  Updated(row, q) \in Row
  <1> DEFINE title == IF q.title = None THEN row.title ELSE q.title
             tags == IF q.tags = None THEN row.tags ELSE Unique(q.tags)
             new == [row EXCEPT !.title = title, !.tags = tags]
  <1>1. title \in STRING /\ tags \in Seq(Tag)
    BY AskAssumption DEF Row
  <1>. HIDE DEF title, tags
  <1>2. new \in Row
    BY <1>1 DEF Row
  <1>. HIDE DEF new
  <1>3. Stamped(new) \in Row
    BY <1>2 DEF Stamped, Row
  <1>4. Updated(row, q) = IF new = row THEN row ELSE Stamped(new)
    BY DEF Updated, title, tags, new
  <1>. QED
    BY <1>2, <1>3, <1>4

LEMMA DraftType ==
  ASSUME StoreTypeOK, NEW r \in Request, Refusal(ask[r]) = "none"
  PROVE  Draft(ask[r], articles) \in Row \cup {None}
  <1> DEFINE q == ask[r]
  <1>1. q \in Ask /\ q.op \in Op /\ q.user \in User /\ q.article \in Article
    BY AskAssumption DEF StoreTypeOK
  <1>2. q.op # "create" => articles[q.article] \in Row
    BY <1>1 DEF Refusal, IsMissing, StoreTypeOK, Live
  <1>3. CASE q.op = "create"
    <2>1. q.title \in STRING /\ (q.tags # None => Unique(q.tags) \in Seq(Tag))
      BY <1>1, <1>3, AskAssumption
    <2>2. Created(q) \in Row
      BY <1>1, <2>1 DEF Created, Row
    <2>. QED
      BY <1>3, <2>2 DEF Draft
  <1>4. CASE q.op = "update"
    BY <1>1, <1>2, <1>4, UpdatedRow DEF Draft
  <1>5. CASE q.op \notin {"create", "update"}
    BY <1>2, <1>5 DEF Draft
  <1>. QED
    BY <1>3, <1>4, <1>5

LEMMA SucceedTyped ==
  ASSUME StoreTypeOK, NEW r \in Request, Succeed(r)
  PROVE  StoreTypeOK'
  <1> DEFINE q == ask[r]
  <1>1. /\ q \in Ask /\ q.user \in User /\ q.article \in Article /\ ask' = ask
        /\ Refusal(q) = "none"
    BY AskAssumption DEF StoreTypeOK, Succeed
  <1>2. PICK names \in SUBSET Tag : Write(r, Draft(q, articles), names)
    BY DEF Succeed
  <1>3. /\ articles' = [articles EXCEPT ![q.article] = Draft(q, articles)]
        /\ tagNames' = tagNames \cup names
        /\ favorites' = FavoritesAfter(q) /\ comments' = CommentsAfter(r, q)
    BY <1>2 DEF Write
  <1>4. articles' \in [Article -> Row \cup {None}]
    BY <1>1, <1>3, DraftType DEF StoreTypeOK
  <1>5. tagNames' \subseteq Tag
    BY <1>3 DEF StoreTypeOK
  <1>6. favorites' \subseteq User \X Article
    BY <1>1, <1>3 DEF StoreTypeOK, FavoritesAfter
  <1>7. comments' \subseteq CommentRow
    BY <1>1, <1>3 DEF StoreTypeOK, CommentsAfter, CommentRow
  <1>8. \E a : AnswerWith(r, a) /\ a.status \in {"failed", "ok"}
    <2>1. \E d : AnswerWith(r, Refused("failed")) \/ AnswerWith(r, Ok(d))
      BY Zenon DEF Succeed
    <2>. QED
      BY <2>1, Statuses
  <1>9. /\ DOMAIN answer' = Request
        /\ \A s \in Request : answer'[s].status \in
             {"pending", "ok", "failed", "notFound", "forbidden", "conflict"}
    BY <1>8 DEF StoreTypeOK, AnswerWith
  <1>. QED
    BY <1>1, <1>4, <1>5, <1>6, <1>7, <1>9 DEF StoreTypeOK

LEMMA RefuseTyped ==
  ASSUME StoreTypeOK, NEW r \in Request, Refuse(r)
  PROVE  StoreTypeOK'
  <1>1. UNCHANGED <<ask, articles, tagNames, favorites, comments>>
    BY DEF Refuse, store
  <1>2. \E a : AnswerWith(r, a) /\ a.status \in {"notFound", "forbidden", "conflict"}
    BY DEF Refuse, Refusal, Refused
  <1>3. /\ DOMAIN answer' = Request
        /\ \A s \in Request : answer'[s].status \in
             {"pending", "ok", "failed", "notFound", "forbidden", "conflict"}
    BY <1>2 DEF StoreTypeOK, AnswerWith
  <1>. QED
    BY <1>1, <1>3 DEF StoreTypeOK

\* A request is answered when it is done, and only then.
Served(r) == at[r] = "done" <=> got[r].answer # Pending

LEMMA AnswerServes ==
  ASSUME IInv, NEW r \in Reader, NEW a, Answer(r, a), a.status # "pending"
  PROVE  Served(r)'
  <1>1. at'[r] = "done" /\ got'[r].answer = a
    BY Answering
  <1>. QED
    BY <1>1 DEF Served, Pending

LEMMA ReadServes ==
  ASSUME IInv, NEW r \in Reader, Served(r), Read(r) \/ Fail(r)
  PROVE  Served(r)'
  <1>1. Shape /\ \A d : Ok(d).status # "pending"
    BY Statuses DEF IInv
  <1>2. ASSUME NEW a, Answer(r, a),
               a \in {Refused("failed"), Refused("notFound"), Refused("unauthorized")}
        PROVE  Served(r)'
    BY <1>2, Statuses, AnswerServes
  <1>3. ASSUME NEW d, Answer(r, Ok(d)) PROVE Served(r)'
    BY <1>1, <1>3, AnswerServes
  <1>4. ASSUME at[r] # "done", at'[r] # "done", got'[r].answer = got[r].answer PROVE Served(r)'
    BY <1>4 DEF Served
  <1>5. CASE Fail(r) \/ Arrive(r) \/ FindArticle(r) \/ FindViewer(r)
    <2>1. CASE \E status \in {"failed", "notFound", "unauthorized"} : Answer(r, Refused(status))
      BY <1>2, <2>1
    <2>2. CASE ~\E status \in {"failed", "notFound", "unauthorized"} : Answer(r, Refused(status))
      BY <1>1, <1>4, <1>5, <2>2 DEF Shape, NoParts, Fail, Arrive, FindArticle, FindViewer, Goto
    <2>. QED
      BY <2>1, <2>2
  <1>6. CASE CountMatches(r) \/ PageIds(r)
    BY <1>1, <1>4, <1>6 DEF Shape, NoParts, CountMatches, PageIds, Goto
  <1>7. CASE PageRows(r)
    <2>1. at[r] = "rows" /\ \/ \E d : Answer(r, Ok(d))
                            \/ \E heads : got' = [got EXCEPT ![r].heads = heads] /\ Goto(r, "parts")
      BY Zenon, <1>7 DEF PageRows
    <2>. QED
      BY <1>1, <1>3, <1>4, <2>1 DEF Shape, NoParts, Goto
  <1>8. CASE OpenSnapshot(r)
    <2>1. CASE Answer(r, Refused("notFound"))
      BY <1>2, <2>1
    <2>2. CASE ~Answer(r, Refused("notFound"))
      BY <1>1, <1>4, <1>8, <2>2 DEF Shape, NoParts, OpenSnapshot, Goto
    <2>. QED
      BY <2>1, <2>2
  <1>9. CASE ReadComments(r) \/ ReadFollowed(r)
    <2>1. at[r] # "done" /\ ((\E d : Answer(r, Ok(d))) \/ (got' = got /\ Goto(r, "parts")))
      BY Zenon, <1>9 DEF ReadComments, ReadFollowed
    <2>. QED
      BY <1>1, <1>3, <1>4, <2>1 DEF Shape, Goto
  <1>10. CASE FetchPage(r) \/ FetchDetail(r)
    <2>1. at[r] = "parts" /\ at' = at
      BY <1>10 DEF FetchPage, FetchDetail
    <2>2. ASSUME NEW part \in Part, NEW v, got' = [got EXCEPT ![r][part] = v]
          PROVE  got'[r].answer = got[r].answer
      <3>1. part # "answer"
        BY DEF Part
      <3>. QED
        BY <1>1, <2>2, <3>1 DEF Shape, NoParts
    <2>3. \/ \E part \in Part : \E v : got' = [got EXCEPT ![r][part] = v]
          \/ \E v : got' = [got EXCEPT ![r].favorites = v]
      <3>1. CASE FetchPage(r)
        BY Zenon, <3>1 DEF FetchPage
      <3>2. CASE FetchDetail(r)
        <4>1. \/ \E part \in {"tags", "follows"} : \E v : got' = [got EXCEPT ![r][part] = v]
              \/ \E v : got' = [got EXCEPT ![r].favorites = v]
          BY Zenon, <3>2 DEF FetchDetail
        <4>. QED
          BY <4>1 DEF Part
      <3>. QED
        BY <1>10, <3>1, <3>2
    <2>4. got'[r].answer = got[r].answer
      <3>1. CASE \E part \in Part : \E v : got' = [got EXCEPT ![r][part] = v]
        BY <2>2, <3>1
      <3>2. CASE \E v : got' = [got EXCEPT ![r].favorites = v]
        BY <1>1, <3>2 DEF Shape, NoParts
      <3>. QED
        BY <2>3, <3>1, <3>2
    <2>. QED
      BY <1>4, <2>1, <2>4
  <1>11. CASE Reply(r)
    <2>1. \E d : Answer(r, Ok(d))
      BY Zenon, <1>11 DEF Reply
    <2>. QED
      BY <1>3, <2>1
  <1>. QED
    BY <1>5, <1>6, <1>7, <1>8, <1>9, <1>10, <1>11 DEF Read

LEMMA ReadTyped ==
  ASSUME IInv, IInv', TypeOK, NEW r \in Reader, Read(r) \/ Fail(r)
  PROVE  TypeOK'
  <1>1. UNCHANGED <<ask, articles, tagNames, favorites, comments, answer, follows, query>>
    BY DEF Read, Fail, Arrive, FindArticle, FindViewer, CountMatches, PageIds, PageRows,
           OpenSnapshot, ReadComments, ReadFollowed, FetchPage, FetchDetail, Reply, Quiet, svars,
           store
  <1>2. StoreTypeOK'
    BY <1>1 DEF TypeOK, StoreTypeOK
  <1>3. \A s \in Reader : Served(s)
    BY DEF TypeOK, Served
  <1>4. \A s \in Reader \ {r} : at'[s] = at[s] /\ got'[s] = got[s]
    BY OthersWait
  <1>5. \A s \in Reader : Served(s)'
    BY <1>3, <1>4, ReadServes DEF Served
  <1>6. at' \in [Reader -> {"begin", "find", "count", "ids", "rows", "comments", "parts", "done"}]
    BY DEF IInv, Shape
  <1>. QED
    BY <1>1, <1>2, <1>5, <1>6 DEF TypeOK, Served

LEMMA WritesTyped ==
  ASSUME TypeOK, Writes
  PROVE  TypeOK'
  <1>1. UNCHANGED rvars
    BY DEF Writes, Follow, Unfollow
  <1>2. StoreTypeOK'
    <2>1. CASE UNCHANGED svars
      BY <2>1 DEF TypeOK, StoreTypeOK, svars, store
    <2>. QED
      BY <2>1, SucceedTyped, RefuseTyped DEF TypeOK, Writes, Follow, Unfollow
  <1>3. follows' \subseteq {p \in User \X User : p[1] # p[2]}
    BY DEF TypeOK, Writes, Follow, Unfollow
  <1>. QED
    BY <1>1, <1>2, <1>3 DEF TypeOK, rvars

\* Every variable keeps its type.
THEOREM Typed == Spec => []TypeOK
  <1>1. Init => TypeOK
    BY StoreAssumption DEF Init, TypeOK, StoreInit, StoreTypeOK, NoParts, Pending
  <1>2. IInv /\ IInv' /\ TypeOK /\ [Next]_vars => TypeOK'
    <2>. SUFFICES ASSUME IInv, IInv', TypeOK, [Next]_vars PROVE TypeOK'
      OBVIOUS
    <2>1. CASE UNCHANGED vars
      BY <2>1 DEF vars, svars, store, rvars, TypeOK, StoreTypeOK
    <2>. QED
      BY <2>1, ReadTyped, WritesTyped DEF Next
  <1>. QED
    BY <1>1, <1>2, Invariance, PTL DEF Spec

\* Every variable keeps its type, and a request during which nothing it shows
\* changes answers exactly what there is.
THEOREM AnswersAreTrue == Spec => []AnswersAreExact
  BY Typed, Exactness, QuietIsExact, PTL DEF AnswersAreExact
=============================================================================
