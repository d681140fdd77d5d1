----------------------------- MODULE PagesProofs ------------------------------
(* Proofs about what pages make of rows: the lists of Newsroom and Follows,  *)
(* who sits (Offices), results (Elections) and the compass (Compass); and at *)
(* last about the parts of the record side by side (Record).                 *)
EXTENDS Record, NewsroomProofs, RecordProofs, FunctionTheorems

(* Of two members of S the order R puts exactly one before the other.        *)
Orders(R, S) ==
    /\ \A x \in S : <<x, x>> \notin R
    /\ \A x, y \in S : x # y => <<x, y>> \in R \/ <<y, x>> \in R
    /\ \A x, y, z \in S : <<x, y>> \in R /\ <<y, z>> \in R => <<x, z>> \in R

-----------------------------------------------------------------------------
(* Lists in an order.                                                        *)

(* Who comes before has fewer ahead of it.                                   *)
LEMMA AheadGrows ==
  ASSUME NEW S, IsFiniteSet(S), NEW R, Orders(R, S),
         NEW x \in S, NEW y \in S, <<x, y>> \in R
  PROVE  Cardinality(AheadOf(S, R, x)) < Cardinality(AheadOf(S, R, y))
<1> DEFINE X == AheadOf(S, R, x)
           Y == AheadOf(S, R, y)
<1>1. X \subseteq S /\ Y \subseteq S
  BY DEF AheadOf
<1>2. x \notin X /\ X \cup {x} \subseteq Y
  BY DEF AheadOf, Orders
<1>3. IsFiniteSet(X) /\ IsFiniteSet(Y)
  BY <1>1, FS_Subset
<1> HIDE DEF X, Y
<1>4. Cardinality(X \cup {x}) = Cardinality(X) + 1
  BY <1>2, <1>3, FS_AddElement
<1>5. Cardinality(X \cup {x}) <= Cardinality(Y)
  BY <1>2, <1>3, FS_Subset
<1>6. Cardinality(X) \in Nat /\ Cardinality(Y) \in Nat
  BY <1>3, FS_CardinalityType
<1>7. Cardinality(X) < Cardinality(Y)
  BY <1>4, <1>5, <1>6
<1> QED
  BY <1>7 DEF X, Y

LEMMA UpTo ==
  ASSUME NEW n \in Nat
  PROVE  IsFiniteSet(1..n) /\ Cardinality(1..n) = n
<1>1. 1 \in Int /\ n \in Int /\ (IF 1 > n THEN 0 ELSE n - 1 + 1) = n
  OBVIOUS
<1> QED
  BY <1>1, FS_Interval

LEMMA Between ==
  ASSUME NEW o \in Nat, NEW n \in Nat
  PROVE  Cardinality((o + 1)..(o + n)) = n
<1> DEFINE a == o + 1
           b == o + n
<1>1. a \in Int /\ b \in Int /\ (IF a > b THEN 0 ELSE b - a + 1) = n
  OBVIOUS
<1> HIDE DEF a, b
<1>2. Cardinality(a..b) = n
  BY <1>1, FS_Interval
<1> QED
  BY <1>2 DEF a, b

LEMMA AheadBounded ==
  ASSUME NEW S, IsFiniteSet(S), NEW R, Orders(R, S), NEW x \in S
  PROVE  /\ Cardinality(S) \in Nat
         /\ Cardinality(AheadOf(S, R, x)) \in 0..(Cardinality(S) - 1)
<1> DEFINE X == AheadOf(S, R, x)
<1>1. X \subseteq S \ {x}
  BY DEF AheadOf, Orders
<1>2. IsFiniteSet(S \ {x}) /\ Cardinality(S \ {x}) = Cardinality(S) - 1
  BY FS_RemoveElement
<1>3. Cardinality(S) \in Nat
  BY FS_CardinalityType
<1> HIDE DEF X
<1>4. IsFiniteSet(X) /\ Cardinality(X) <= Cardinality(S \ {x}) /\ Cardinality(X) \in Nat
  BY <1>1, <1>2, FS_Subset, FS_CardinalityType
<1>5. Cardinality(X) \in 0..(Cardinality(S) - 1)
  BY <1>2, <1>3, <1>4
<1> QED
  BY <1>3, <1>5 DEF X

(* Every place of the list has one member, which has that many ahead of it.  *)
LEMMA EveryPlaceTaken ==
  ASSUME NEW S, IsFiniteSet(S), NEW R, Orders(R, S), NEW i \in 1..Cardinality(S)
  PROVE  \E x \in S : Cardinality(AheadOf(S, R, x)) = i - 1
<1> DEFINE n == Cardinality(S)
           T == 0..(n - 1)
           rank == [x \in S |-> Cardinality(AheadOf(S, R, x))]
<1>1. n \in Nat
  BY FS_CardinalityType
<1>2. \A x \in S : rank[x] \in T
  BY AheadBounded
<1>3. ASSUME NEW x \in S, NEW y \in S, rank[x] = rank[y]
      PROVE  x = y
  <2> SUFFICES ASSUME x # y PROVE FALSE
    OBVIOUS
  <2>1. <<x, y>> \in R \/ <<y, x>> \in R
    BY DEF Orders
  <2>2. rank[x] \in Int /\ rank[y] \in Int
    BY <1>1, <1>2
  <2>3. rank[x] < rank[y] \/ rank[y] < rank[x]
    BY <2>1, AheadGrows
  <2> QED
    BY <1>3, <2>2, <2>3
<1>4. rank \in [S -> T]
  BY <1>2
<1>5. rank \in Injection(S, T)
  BY <1>3, <1>4 DEF Injection, IsInjective
<1>6. IsFiniteSet(T) /\ Cardinality(T) = n
  <2>1. 0 \in Int /\ n - 1 \in Int /\ (IF 0 > n - 1 THEN 0 ELSE n - 1 - 0 + 1) = n
    BY <1>1
  <2> HIDE DEF n
  <2> QED
    BY <2>1, FS_Interval
<1>7. rank \in Surjection(S, T)
  BY <1>5, <1>6, FS_Injection
<1>8. i - 1 \in T
  BY <1>1
<1>9. \E x \in S : rank[x] = i - 1
  BY <1>7, <1>8 DEF Surjection
<1> QED
  BY <1>9

(* A list in an order shows every member once, in the order, the one in      *)
(* place i with i - 1 ahead of it.                                           *)
LEMMA ListedInOrder ==
  ASSUME NEW S, IsFiniteSet(S), NEW R, Orders(R, S)
  PROVE  /\ Cardinality(S) \in Nat
         /\ Listed(S, R) \in [1..Cardinality(S) -> S]
         /\ \A i, j \in 1..Cardinality(S) : i < j => <<Listed(S, R)[i], Listed(S, R)[j]>> \in R
         /\ \A i, j \in 1..Cardinality(S) : Listed(S, R)[i] = Listed(S, R)[j] => i = j
         /\ \A x \in S : \E i \in 1..Cardinality(S) : Listed(S, R)[i] = x
         /\ \A i \in 1..Cardinality(S) : Cardinality(AheadOf(S, R, Listed(S, R)[i])) = i - 1
<1> DEFINE n == Cardinality(S)
           l == Listed(S, R)
<1>1. n \in Nat
  BY FS_CardinalityType
<1>2. \A i \in 1..n : l[i] \in S /\ Cardinality(AheadOf(S, R, l[i])) = i - 1
  BY EveryPlaceTaken DEF Listed
<1>3. ASSUME NEW i \in 1..n, NEW j \in 1..n, l[i] = l[j]
      PROVE  i = j
  <2>1. i - 1 = j - 1
    BY <1>2, <1>3
  <2> QED
    BY <1>1, <2>1
<1>4. ASSUME NEW i \in 1..n, NEW j \in 1..n, i < j
      PROVE  <<l[i], l[j]>> \in R
  <2> SUFFICES ASSUME <<l[i], l[j]>> \notin R PROVE FALSE
    OBVIOUS
  <2>1. l[i] \in S /\ l[j] \in S /\ l[i] # l[j]
    BY <1>1, <1>2, <1>3, <1>4
  <2>2. <<l[j], l[i]>> \in R
    BY <2>1 DEF Orders
  <2>3. Cardinality(AheadOf(S, R, l[j])) < Cardinality(AheadOf(S, R, l[i]))
    BY <2>1, <2>2, AheadGrows
  <2>4. j - 1 < i - 1
    BY <1>2, <2>3
  <2> QED
    BY <1>1, <1>4, <2>4
<1>5. ASSUME NEW x \in S
      PROVE  \E i \in 1..n : l[i] = x
  <2> DEFINE k == Cardinality(AheadOf(S, R, x)) + 1
  <2>1. k \in 1..n /\ Cardinality(AheadOf(S, R, x)) = k - 1
    BY <1>1, AheadBounded
  <2> HIDE DEF k
  <2>2. l[k] \in S /\ Cardinality(AheadOf(S, R, l[k])) = k - 1
    BY <1>2, <2>1
  <2>3. l[k] = x
    <3> SUFFICES ASSUME l[k] # x PROVE FALSE
      OBVIOUS
    <3>1. <<l[k], x>> \in R \/ <<x, l[k]>> \in R
      BY <2>2 DEF Orders
    <3>2. k - 1 < k - 1
      BY <2>1, <2>2, <3>1, AheadGrows
    <3> QED
      BY <1>1, <2>1, <3>2
  <2> QED
    BY <2>1, <2>3
<1>6. l \in [1..n -> S]
  BY <1>2 DEF Listed
<1> QED
  BY <1>1, <1>2, <1>3, <1>4, <1>5, <1>6

(* A page of a list.                                                         *)
LEMMA PageOf ==
  ASSUME NEW S, NEW n \in Nat, NEW s \in [1..n -> S],
         NEW a \in Nat \ {0}, NEW b \in Nat, b <= n, a <= b + 1
  PROVE  /\ SubSeq(s, a, b) \in Seq(S)
         /\ Len(SubSeq(s, a, b)) = b - a + 1
         /\ DOMAIN SubSeq(s, a, b) = 1..(b - a + 1)
         /\ \A i \in 1..(b - a + 1) : SubSeq(s, a, b)[i] = s[a + i - 1] /\ a + i - 1 \in 1..n
<1>1. a \in Int /\ b \in Int /\ (IF a <= b THEN b - a + 1 ELSE 0) = b - a + 1
  OBVIOUS
<1>2. \A i \in a..b : s[i] \in S
  OBVIOUS
<1>3. /\ SubSeq(s, a, b) \in Seq(S)
      /\ Len(SubSeq(s, a, b)) = b - a + 1
      /\ \A i \in 1..(b - a + 1) : SubSeq(s, a, b)[i] = s[a + i - 1]
  BY <1>1, <1>2, SubSeqProperties
<1>4. DOMAIN SubSeq(s, a, b) = 1..(b - a + 1)
  BY <1>3, LenProperties
<1> QED
  BY <1>3, <1>4

-----------------------------------------------------------------------------
(* Follows: the feed.                                                        *)

Shown(n) == IF n < FeedLimit THEN n ELSE FeedLimit

LEMMA CappedList ==
  ASSUME NEW S, NEW n \in Nat, NEW s \in [1..n -> S]
  PROVE  /\ Shown(n) \in Nat /\ Shown(n) <= n /\ Shown(n) <= FeedLimit
         /\ Shown(n) < n => Shown(n) = FeedLimit
         /\ Capped(s) \in Seq(S) /\ Len(Capped(s)) = Shown(n)
         /\ DOMAIN Capped(s) = 1..Shown(n)
         /\ \A i \in 1..Shown(n) : Capped(s)[i] = s[i]
<1>1. /\ Shown(n) \in Nat /\ Shown(n) <= n /\ Shown(n) <= FeedLimit
      /\ Shown(n) < n => Shown(n) = FeedLimit
  BY FollowsAssumption DEF Shown
<1>2. Len(s) = n
  OBVIOUS
<1>3. Capped(s) = SubSeq(s, 1, Shown(n))
  BY <1>2 DEF Capped, Shown
<1>4. /\ SubSeq(s, 1, Shown(n)) \in Seq(S)
      /\ Len(SubSeq(s, 1, Shown(n))) = Shown(n) - 1 + 1
      /\ DOMAIN SubSeq(s, 1, Shown(n)) = 1..(Shown(n) - 1 + 1)
      /\ \A i \in 1..(Shown(n) - 1 + 1) : SubSeq(s, 1, Shown(n))[i] = s[1 + i - 1]
  <2>1. 1 \in Nat \ {0} /\ 1 <= Shown(n) + 1
    BY <1>1
  <2> QED
    BY <1>1, <2>1, PageOf
<1>5. Shown(n) - 1 + 1 = Shown(n) /\ \A i \in 1..Shown(n) : 1 + i - 1 = i
  BY <1>1
<1> QED
  BY <1>1, <1>3, <1>4, <1>5

NewerPairs(S) == {x \in S \X S : NewerItem(x[1], x[2])}
LowerPairs(S) == {x \in S \X S : x[1] < x[2]}

LEMMA ItemsInOrder ==
  ASSUME content \in Seq(Content), NEW S, S \subseteq DOMAIN content
  PROVE  IsFiniteSet(S) /\ Orders(NewerPairs(S), S) /\ Orders(LowerPairs(S), S)
<1>1. Len(content) \in Nat /\ DOMAIN content = 1..Len(content)
  BY LenProperties
<1>2. \A i \in S : i \in Int /\ content[i].date \in Int
  BY <1>1, FollowsAssumption
<1>3. IsFiniteSet(S)
  <2>1. IsFiniteSet(1..Len(content))
    BY <1>1, UpTo
  <2> QED
    BY <1>1, <2>1, FS_Subset
<1>4. \A i, j \in S : <<i, j>> \in NewerPairs(S) <=> NewerItem(i, j)
  BY DEF NewerPairs
<1>5. \A i, j \in S : <<i, j>> \in LowerPairs(S) <=> i < j
  BY DEF LowerPairs
<1>6. Orders(NewerPairs(S), S)
  <2>1. \A i \in S : ~NewerItem(i, i)
    BY <1>2 DEF NewerItem
  <2>2. ASSUME NEW i \in S, NEW j \in S, i # j
        PROVE  NewerItem(i, j) \/ NewerItem(j, i)
    BY <1>2, <2>2 DEF NewerItem
  <2>3. ASSUME NEW i \in S, NEW j \in S, NEW k \in S, NewerItem(i, j), NewerItem(j, k)
        PROVE  NewerItem(i, k)
    <3>1. /\ i \in Int /\ j \in Int /\ k \in Int /\ content[i].date \in Int
          /\ content[j].date \in Int /\ content[k].date \in Int
      BY <1>2
    <3> QED
      BY <2>3, <3>1 DEF NewerItem
  <2> QED
    BY <1>4, <2>1, <2>2, <2>3, Zenon DEF Orders
<1>7. Orders(LowerPairs(S), S)
  BY <1>2, <1>5 DEF Orders
<1> QED
  BY <1>3, <1>6, <1>7

(* A list cut at the limit repeats nothing, and leaves out only what comes   *)
(* after all it shows, when it is full.                                      *)
LEMMA CutList ==
  ASSUME NEW S, IsFiniteSet(S), NEW R, Orders(R, S)
  PROVE  LET l == Capped(Listed(S, R)) IN
         /\ l \in Seq(S) /\ Len(l) \in Nat /\ Len(l) <= FeedLimit
         /\ \A j, k \in 1..Len(l) : l[j] = l[k] => j = k
         /\ \A j, k \in 1..Len(l) : j < k => <<l[j], l[k]>> \in R
         /\ \A x \in S : \/ \E k \in 1..Len(l) : l[k] = x
                         \/ Len(l) = FeedLimit /\ \A k \in 1..Len(l) : <<l[k], x>> \in R
<1> DEFINE n == Cardinality(S)
           s == Listed(S, R)
           l == Capped(s)
           c == Shown(n)
<1>1. /\ n \in Nat /\ s \in [1..n -> S]
      /\ \A i, j \in 1..n : i < j => <<s[i], s[j]>> \in R
      /\ \A i, j \in 1..n : s[i] = s[j] => i = j
      /\ \A x \in S : \E i \in 1..n : s[i] = x
  BY ListedInOrder
<1> HIDE DEF n, s
<1>2. /\ c \in Nat /\ c <= n /\ c <= FeedLimit /\ (c < n => c = FeedLimit)
      /\ l \in Seq(S) /\ Len(l) = c
      /\ \A i \in 1..c : l[i] = s[i]
  <2>1. n \in Nat /\ s \in [1..n -> S]
    BY <1>1
  <2> QED
    BY <2>1, CappedList, Zenon
<1> HIDE DEF l, c
<1>3. \A j, k \in 1..c : l[j] = l[k] => j = k
  BY <1>1, <1>2
<1>4. \A j, k \in 1..c : j < k => <<l[j], l[k]>> \in R
  BY <1>1, <1>2
<1>5. ASSUME NEW x \in S
      PROVE  \/ \E k \in 1..c : l[k] = x
             \/ c = FeedLimit /\ \A k \in 1..c : <<l[k], x>> \in R
  <2>1. PICK i \in 1..n : s[i] = x
    BY <1>1
  <2>2. CASE i <= c
    <3>1. i \in 1..c /\ l[i] = x
      BY <1>1, <1>2, <2>1, <2>2
    <3> QED
      BY <3>1
  <2>3. CASE ~(i <= c)
    <3>1. c = FeedLimit
      BY <1>1, <1>2, <2>3
    <3>2. \A k \in 1..c : k \in 1..n /\ k < i
      BY <1>1, <1>2, <2>3
    <3>3. \A k \in 1..c : <<l[k], x>> \in R
      BY <1>1, <1>2, <2>1, <3>2
    <3> QED
      BY <3>1, <3>3
  <2> QED
    BY <2>2, <2>3
<1>6. /\ l \in Seq(S) /\ Len(l) \in Nat /\ Len(l) <= FeedLimit
      /\ \A j, k \in 1..Len(l) : l[j] = l[k] => j = k
      /\ \A j, k \in 1..Len(l) : j < k => <<l[j], l[k]>> \in R
      /\ \A x \in S : \/ \E k \in 1..Len(l) : l[k] = x
                      \/ Len(l) = FeedLimit /\ \A k \in 1..Len(l) : <<l[k], x>> \in R
  BY <1>2, <1>3, <1>4, <1>5
<1> QED
  BY <1>6 DEF l, s

(* A list of items of one kind under the limit.                              *)
Cut(l, S) ==
    /\ l \in Seq(S) /\ Len(l) \in Nat /\ DOMAIN l = 1..Len(l) /\ Len(l) <= FeedLimit
    /\ \A j, k \in 1..Len(l) : l[j] = l[k] => j = k
(* It leaves out only what is not newer than all it shows.                   *)
CutByDate(l, S) ==
    \A x \in S :
       \/ \E k \in 1..Len(l) : l[k] = x
       \/ Len(l) = FeedLimit /\ \A k \in 1..Len(l) : content[l[k]].date >= content[x].date

LEMMA NewestCut ==
  ASSUME content \in Seq(Content), NEW S, S \subseteq DOMAIN content
  PROVE  Cut(NewestItems(S), S) /\ CutByDate(NewestItems(S), S)
<1> DEFINE l == Capped(Listed(S, NewerPairs(S)))
<1>1. IsFiniteSet(S) /\ Orders(NewerPairs(S), S)
  BY ItemsInOrder
<1>2. /\ l \in Seq(S) /\ Len(l) \in Nat /\ Len(l) <= FeedLimit
      /\ \A j, k \in 1..Len(l) : l[j] = l[k] => j = k
      /\ \A x \in S : \/ \E k \in 1..Len(l) : l[k] = x
                      \/ Len(l) = FeedLimit /\ \A k \in 1..Len(l) : <<l[k], x>> \in NewerPairs(S)
  BY <1>1, CutList, Zenon
<1>3. NewestItems(S) = l
  BY DEF NewestItems, NewerPairs
<1> HIDE DEF l
<1>4. Cut(l, S)
  BY <1>2, LenProperties DEF Cut
<1>5. \A i, j \in S : <<i, j>> \in NewerPairs(S) => content[i].date >= content[j].date
  <2>1. \A i \in S : content[i].date \in Nat
    BY FollowsAssumption, ElementOfSeq, LenProperties
  <2> QED
    BY <2>1 DEF NewerPairs, NewerItem
<1>6. \A k \in 1..Len(l) : l[k] \in S
  BY <1>2, ElementOfSeq
<1>7. CutByDate(l, S)
  BY <1>2, <1>5, <1>6 DEF CutByDate
<1> QED
  BY <1>3, <1>4, <1>7

LEMMA NewsCut ==
  ASSUME content \in Seq(Content)
  PROVE  Cut(FollowedNews, Matching("news"))
<1> DEFINE S == Matching("news")
           l == Capped(Listed(S, LowerPairs(S)))
<1>0. S \subseteq DOMAIN content
  BY DEF Matching
<1>1. IsFiniteSet(S) /\ Orders(LowerPairs(S), S)
  BY <1>0, ItemsInOrder
<1> HIDE DEF S
<1>2. /\ l \in Seq(S) /\ Len(l) \in Nat /\ Len(l) <= FeedLimit
      /\ \A j, k \in 1..Len(l) : l[j] = l[k] => j = k
  BY <1>1, CutList, Zenon
<1>3. FollowedNews = l
  BY DEF FollowedNews, LowerPairs, S
<1> HIDE DEF l
<1>4. Cut(l, S)
  BY <1>2, LenProperties DEF Cut
<1> QED
  BY <1>3, <1>4 DEF S

(* The polls of the feed are those with a page among the polls read.         *)
PollsPlaced == {i \in PollsRead : content[i].placed}

LEMMA PollsCut ==
  ASSUME content \in Seq(Content)
  PROVE  /\ PollsPlaced \subseteq Matching("poll") /\ PollsPlaced \subseteq DOMAIN content
         /\ Cut(FollowedPolls, PollsPlaced) /\ CutByDate(FollowedPolls, PollsPlaced)
         /\ Cut(FollowedPolls, Matching("poll"))
<1>1. Matching("poll") \subseteq DOMAIN content
  BY DEF Matching
<1>2. Cut(NewestItems(Matching("poll")), Matching("poll"))
  BY <1>1, NewestCut
<1>3. PollsRead \subseteq Matching("poll")
  BY <1>2, ElementOfSeq DEF PollsRead, ToSet, Cut
<1>4. PollsPlaced \subseteq Matching("poll")
  BY <1>3 DEF PollsPlaced
<1>5. Cut(FollowedPolls, PollsPlaced) /\ CutByDate(FollowedPolls, PollsPlaced)
  BY <1>1, <1>4, NewestCut DEF FollowedPolls, PollsPlaced
<1>6. Cut(FollowedPolls, Matching("poll"))
  BY <1>4, <1>5, SeqMonotonic DEF Cut
<1> QED
  BY <1>1, <1>4, <1>5, <1>6

(* A list without repetition has as many members as places.                  *)
LEMMA ListedOnce ==
  ASSUME NEW S, NEW l \in Seq(S), \A j, k \in 1..Len(l) : l[j] = l[k] => j = k
  PROVE  IsFiniteSet(ToSet(l)) /\ Cardinality(ToSet(l)) = Len(l)
<1> DEFINE I == 1..Len(l)
           T == ToSet(l)
<1>1. Len(l) \in Nat /\ DOMAIN l = I
  BY LenProperties
<1>2. IsFiniteSet(I) /\ Cardinality(I) = Len(l)
  BY <1>1, UpTo
<1>3. T = {l[k] : k \in I}
  BY <1>1 DEF ToSet
<1> DEFINE f == [k \in I |-> l[k]]
<1> HIDE DEF I, T
<1>4. f \in [I -> T] /\ (\A j, k \in I : f[j] = f[k] => j = k) /\ \A t \in T : \E k \in I : f[k] = t
  BY <1>3 DEF I
<1> HIDE DEF f
<1>5. f \in Bijection(I, T)
  BY <1>4 DEF Bijection, Injection, Surjection, IsInjective
<1>6. ExistsBijection(I, T)
  BY <1>5, Fun_ExistsBij
<1> QED
  BY <1>2, <1>6, FS_Bijection DEF T

(* Three lists one after another.                                            *)
Joined(A, P, N, E, D) ==
    /\ A \in Seq(D) /\ Len(A) = Len(P) + Len(N) + Len(E)
    /\ \A k \in 1..Len(P) : A[k] = P[k]
    /\ \A k \in 1..Len(N) : A[Len(P) + k] = N[k]
    /\ \A k \in 1..Len(E) : A[Len(P) + Len(N) + k] = E[k]

LEMMA ThreeLists ==
  ASSUME NEW D, NEW P \in Seq(D), NEW N \in Seq(D), NEW E \in Seq(D)
  PROVE  Joined(P \o N \o E, P, N, E, D)
<1>0. PICK p \in Nat, n \in Nat, e \in Nat : Len(P) = p /\ Len(N) = n /\ Len(E) = e
  BY LenProperties
<1>1. PICK Q : Q = P \o N
  OBVIOUS
<1>2. /\ Q \in Seq(D) /\ Len(Q) = p + n
      /\ \A k \in 1..(p + n) : Q[k] = IF k <= p THEN P[k] ELSE N[k - p]
  BY <1>0, <1>1, ConcatProperties
<1>3. PICK A : A = Q \o E
  OBVIOUS
<1>4. /\ A \in Seq(D) /\ Len(A) = p + n + e
      /\ \A k \in 1..(p + n + e) : A[k] = IF k <= p + n THEN Q[k] ELSE E[k - (p + n)]
  <2>1. /\ A \in Seq(D) /\ Len(A) = Len(Q) + Len(E)
        /\ \A k \in 1..(Len(Q) + Len(E)) : A[k] = IF k <= Len(Q) THEN Q[k] ELSE E[k - Len(Q)]
    BY <1>2, <1>3, ConcatProperties
  <2> QED
    BY <1>0, <1>2, <2>1
<1>5. ASSUME NEW k \in 1..p PROVE A[k] = P[k]
  BY <1>2, <1>4
<1>6. ASSUME NEW k \in 1..n PROVE A[p + k] = N[k]
  <2>1. p + k \in 1..(p + n) /\ p + k \in 1..(p + n + e) /\ ~(p + k <= p) /\ p + k - p = k
    OBVIOUS
  <2>2. A[p + k] = Q[p + k]
    BY <1>4, <2>1
  <2>3. Q[p + k] = N[p + k - p]
    <3>1. \A j \in 1..(p + n) : Q[j] = IF j <= p THEN P[j] ELSE N[j - p]
      BY <1>2
    <3> QED
      BY <2>1, <3>1, SMTT(30)
  <2> QED
    BY <2>1, <2>2, <2>3
<1>7. ASSUME NEW k \in 1..e PROVE A[p + n + k] = E[k]
  <2>1. /\ p + n + k \in 1..(p + n + e) /\ ~(p + n + k <= p + n)
        /\ p + n + k - (p + n) = k
    OBVIOUS
  <2> QED
    BY <1>4, <2>1
<1> QED
  BY <1>0, <1>1, <1>3, <1>4, <1>5, <1>6, <1>7 DEF Joined

(* The three lists one after another.                                        *)
All == FollowedPolls \o FollowedNews \o FollowedElections
AfterPolls == Len(FollowedPolls)
AfterNews == Len(FollowedPolls) + Len(FollowedNews)

LEMMA AllItems ==
  ASSUME content \in Seq(Content)
  PROVE  /\ All \in Seq(DOMAIN content) /\ Len(All) \in Nat /\ DOMAIN All = 1..Len(All)
         /\ Len(All) = AfterNews + Len(FollowedElections)
         /\ AfterPolls \in Nat /\ AfterNews \in Nat /\ AfterPolls <= AfterNews /\ AfterNews <= Len(All)
         /\ \A k \in 1..Len(FollowedPolls) : All[0 + k] = FollowedPolls[k]
         /\ \A k \in 1..Len(FollowedElections) : All[AfterNews + k] = FollowedElections[k]
         /\ \A k \in 1..Len(All) : content[All[k]].placed /\ content[All[k]].about \cap follows # {}
         /\ \A j, k \in 1..Len(All) : All[j] = All[k] => j = k
<1> DEFINE P == FollowedPolls
           N == FollowedNews
           E == FollowedElections
           D == DOMAIN content
           p == Len(P)
           n == Len(N)
           e == Len(E)
<1>1. /\ Cut(P, PollsPlaced) /\ Cut(E, Matching("election")) /\ Cut(N, Matching("news"))
      /\ PollsPlaced \subseteq Matching("poll")
  <2>1. Matching("election") \subseteq D
    BY DEF Matching
  <2> QED
    BY <2>1, NewestCut, NewsCut, PollsCut DEF FollowedElections
<1> HIDE DEF P, N, E
<1>2. /\ P \in Seq(D) /\ N \in Seq(D) /\ E \in Seq(D)
      /\ p \in Nat /\ n \in Nat /\ e \in Nat
  <2>1. \A s, S : s \in Seq(S) /\ S \subseteq D => s \in Seq(D)
    OBVIOUS
  <2> QED
    BY <1>1, <2>1 DEF Cut, Matching
<1>a. /\ \A k \in 1..p : content[P[k]].placed
      /\ \A k \in 1..n : content[N[k]].placed
      /\ \A k \in 1..e : content[E[k]].placed
  <2>1. /\ \A k \in 1..p : P[k] \in PollsPlaced
        /\ \A k \in 1..n : N[k] \in Matching("news")
        /\ \A k \in 1..e : E[k] \in Matching("election")
    BY <1>1, ElementOfSeq DEF Cut
  <2> QED
    BY <2>1 DEF Matching, PollsPlaced
<1>3. /\ \A k \in 1..p : P[k] \in D /\ content[P[k]].kind = "poll" /\ content[P[k]].about \cap follows # {}
      /\ \A k \in 1..n : N[k] \in D /\ content[N[k]].kind = "news" /\ content[N[k]].about \cap follows # {}
      /\ \A k \in 1..e : E[k] \in D /\ content[E[k]].kind = "election" /\ content[E[k]].about \cap follows # {}
  <2>1. /\ \A k \in 1..p : P[k] \in PollsPlaced /\ P[k] \in Matching("poll")
        /\ \A k \in 1..n : N[k] \in Matching("news")
        /\ \A k \in 1..e : E[k] \in Matching("election")
    BY <1>1, ElementOfSeq DEF Cut
  <2> QED
    BY <2>1 DEF Matching
<1>4. /\ All \in Seq(D) /\ Len(All) = p + n + e
      /\ \A k \in 1..p : All[k] = P[k]
      /\ \A k \in 1..n : All[p + k] = N[k]
      /\ \A k \in 1..e : All[p + n + k] = E[k]
  <2>1. All = P \o N \o E
    BY DEF All, P, N, E
  <2>2. Joined(P \o N \o E, P, N, E, D)
    BY <1>2, ThreeLists
  <2> QED
    BY <2>1, <2>2 DEF Joined
<1>5. p \in Nat /\ n \in Nat /\ e \in Nat
  BY <1>2
<1> HIDE DEF p, n, e
<1>6. ASSUME NEW k \in 1..(p + n + e)
      PROVE  \/ k \in 1..p /\ All[k] = P[k]
             \/ \E h \in 1..n : k = p + h /\ All[k] = N[h]
             \/ \E h \in 1..e : k = p + n + h /\ All[k] = E[h]
  <2>1. CASE k <= p
    <3>1. k \in 1..p
      BY <1>5, <2>1
    <3> QED
      BY <1>4, <3>1
  <2>2. CASE p < k /\ k <= p + n
    <3>1. k - p \in 1..n /\ p + (k - p) = k
      BY <1>5, <2>2
    <3>2. All[p + (k - p)] = N[k - p]
      BY <1>4, <3>1
    <3> QED
      BY <3>1, <3>2
  <2>3. CASE p + n < k
    <3>1. k - (p + n) \in 1..e /\ p + n + (k - (p + n)) = k
      BY <1>5, <2>3
    <3>2. All[p + n + (k - (p + n))] = E[k - (p + n)]
      BY <1>4, <3>1
    <3> QED
      BY <3>1, <3>2
  <2> QED
    BY <1>5, <2>1, <2>2, <2>3
<1>7. ASSUME NEW k \in 1..(p + n + e)
      PROVE  content[All[k]].placed /\ content[All[k]].about \cap follows # {}
  BY <1>3, <1>a, <1>6
<1>8. ASSUME NEW j \in 1..(p + n + e), NEW k \in 1..(p + n + e), All[j] = All[k]
      PROVE  j = k
  <2>1. /\ \A i, h \in 1..p : P[i] = P[h] => i = h
        /\ \A i, h \in 1..n : N[i] = N[h] => i = h
        /\ \A i, h \in 1..e : E[i] = E[h] => i = h
    BY <1>1 DEF Cut, p, n, e
  <2>2. \/ j \in 1..p /\ All[j] = P[j]
        \/ \E h \in 1..n : j = p + h /\ All[j] = N[h]
        \/ \E h \in 1..e : j = p + n + h /\ All[j] = E[h]
    BY <1>6
  <2>3. \/ k \in 1..p /\ All[k] = P[k]
        \/ \E h \in 1..n : k = p + h /\ All[k] = N[h]
        \/ \E h \in 1..e : k = p + n + h /\ All[k] = E[h]
    BY <1>6
  <2>4. CASE j \in 1..p /\ All[j] = P[j]
    <3>1. k \in 1..p /\ All[k] = P[k]
      BY <1>3, <1>8, <2>3, <2>4
    <3> QED
      BY <1>8, <2>1, <2>4, <3>1
  <2>5. CASE \E h \in 1..n : j = p + h /\ All[j] = N[h]
    <3>1. PICK g \in 1..n : j = p + g /\ All[j] = N[g]
      BY <2>5
    <3>2. PICK h \in 1..n : k = p + h /\ All[k] = N[h]
      BY <1>3, <1>8, <2>3, <3>1
    <3> QED
      BY <1>8, <2>1, <3>1, <3>2
  <2>6. CASE \E h \in 1..e : j = p + n + h /\ All[j] = E[h]
    <3>1. PICK g \in 1..e : j = p + n + g /\ All[j] = E[g]
      BY <2>6
    <3>2. PICK h \in 1..e : k = p + n + h /\ All[k] = E[h]
      BY <1>3, <1>8, <2>3, <3>1
    <3> QED
      BY <1>8, <2>1, <3>1, <3>2
  <2> QED
    BY <2>2, <2>4, <2>5, <2>6
<1>9. /\ \A k \in 1..p : 0 + k = k
      /\ p + n + e \in Nat /\ p <= p + n /\ p + n \in Nat /\ p + n <= p + n + e
  BY <1>5
<1>10. DOMAIN All = 1..Len(All)
  BY <1>4, LenProperties
<1>11. p = AfterPolls /\ p + n = AfterNews
  BY DEF p, n, P, N, AfterPolls, AfterNews
<1>12. /\ \A k \in 1..p : All[0 + k] = P[k]
       /\ \A k \in 1..e : All[AfterNews + k] = E[k]
       /\ AfterPolls \in Nat /\ AfterNews \in Nat /\ AfterPolls <= AfterNews
       /\ AfterNews <= Len(All) /\ Len(All) = AfterNews + e /\ Len(All) \in Nat
  BY <1>4, <1>5, <1>9, <1>11
<1>13. p = Len(FollowedPolls) /\ e = Len(FollowedElections) /\ P = FollowedPolls /\ E = FollowedElections
  BY DEF p, e, P, E
<1>14. /\ \A k \in 1..Len(All) : content[All[k]].placed /\ content[All[k]].about \cap follows # {}
       /\ \A j, k \in 1..Len(All) : All[j] = All[k] => j = k
  BY <1>4, <1>7, <1>8
<1> QED
  BY <1>4, <1>10, <1>12, <1>13, <1>14 DEF D

MergedPairs == {x \in (1..Len(All)) \X (1..Len(All)) : MergedBefore(All, x[1], x[2])}
Merged == Listed(1..Len(All), MergedPairs)

LEMMA MergedInOrder ==
  ASSUME content \in Seq(Content)
  PROVE  /\ IsFiniteSet(1..Len(All)) /\ Cardinality(1..Len(All)) = Len(All)
         /\ Orders(MergedPairs, 1..Len(All))
         /\ \A k \in 1..Len(All) : content[All[k]].date \in Nat
         /\ \A j, k \in 1..Len(All) : <<j, k>> \in MergedPairs <=> MergedBefore(All, j, k)
<1> DEFINE S == 1..Len(All)
<1>1. Len(All) \in Nat /\ All \in Seq(DOMAIN content)
  BY AllItems
<1>2. IsFiniteSet(S) /\ Cardinality(S) = Len(All)
  BY <1>1, UpTo
<1>3. \A k \in S : k \in Int /\ content[All[k]].date \in Nat
  <2>1. \A k \in S : All[k] \in DOMAIN content
    BY <1>1, ElementOfSeq
  <2>2. \A i \in DOMAIN content : content[i] \in Content
    BY LenProperties, ElementOfSeq
  <2> QED
    BY <1>1, <2>1, <2>2, FollowsAssumption
<1> HIDE DEF S
<1>4. \A j, k \in S : <<j, k>> \in MergedPairs <=> MergedBefore(All, j, k)
  BY DEF MergedPairs, S
<1>5. Orders(MergedPairs, S)
  <2>1. \A k \in S : <<k, k>> \notin MergedPairs
    BY <1>3, <1>4 DEF MergedBefore
  <2>2. ASSUME NEW j \in S, NEW k \in S, j # k
        PROVE  <<j, k>> \in MergedPairs \/ <<k, j>> \in MergedPairs
    <3>1. /\ j \in Int /\ k \in Int
          /\ content[All[j]].date \in Nat /\ content[All[k]].date \in Nat
      BY <1>3
    <3>2. MergedBefore(All, j, k) \/ MergedBefore(All, k, j)
      BY <2>2, <3>1 DEF MergedBefore
    <3> QED
      BY <1>4, <3>2, Zenon
  <2>3. ASSUME NEW i \in S, NEW j \in S, NEW k \in S, MergedBefore(All, i, j), MergedBefore(All, j, k)
        PROVE  MergedBefore(All, i, k)
    <3>1. /\ i \in Int /\ j \in Int /\ k \in Int
          /\ content[All[i]].date \in Nat /\ content[All[j]].date \in Nat /\ content[All[k]].date \in Nat
      BY <1>3
    <3> QED
      BY <2>3, <3>1 DEF MergedBefore
  <2> QED
    BY <1>4, <2>1, <2>2, <2>3 DEF Orders
<1> QED
  BY <1>2, <1>3, <1>4, <1>5 DEF S

(* The feed is the merged list, cut: place k shows All[Merged[k]].           *)
LEMMA FeedItems ==
  ASSUME content \in Seq(Content)
  PROVE  LET m == Len(All)
             c == Shown(m) IN
         /\ m \in Nat /\ c \in Nat /\ c <= m /\ c <= FeedLimit /\ (c < m => c = FeedLimit)
         /\ Merged \in [1..m -> 1..m]
         /\ \A i, j \in 1..m : i < j => MergedBefore(All, Merged[i], Merged[j])
         /\ \A i, j \in 1..m : Merged[i] = Merged[j] => i = j
         /\ \A k \in 1..m : \E i \in 1..m : Merged[i] = k
         /\ \A i \in 1..m : Cardinality(AheadOf(1..m, MergedPairs, Merged[i])) = i - 1
         /\ Len(Feed) = c /\ DOMAIN Feed = 1..c /\ Feed \in Seq(DOMAIN content)
         /\ \A k \in 1..c : Feed[k] = All[Merged[k]]
<1> DEFINE m == Len(All)
           c == Shown(m)
           S == 1..m
           shown == [k \in S |-> All[Merged[k]]]
<1>1. m \in Nat /\ All \in Seq(DOMAIN content) /\ DOMAIN All = S
  BY AllItems
<1>2. /\ IsFiniteSet(S) /\ Cardinality(S) = m /\ Orders(MergedPairs, S)
      /\ \A j, k \in S : <<j, k>> \in MergedPairs <=> MergedBefore(All, j, k)
  BY MergedInOrder
<1>3. /\ Merged \in [1..m -> S]
      /\ \A i, j \in 1..m : i < j => <<Merged[i], Merged[j]>> \in MergedPairs
      /\ \A i, j \in 1..m : Merged[i] = Merged[j] => i = j
      /\ \A x \in S : \E i \in 1..m : Merged[i] = x
      /\ \A i \in 1..m : Cardinality(AheadOf(S, MergedPairs, Merged[i])) = i - 1
  <2> HIDE DEF m, S
  <2>1. Merged = Listed(S, MergedPairs)
    BY DEF Merged, S, m
  <2>2. /\ Listed(S, MergedPairs) \in [1..Cardinality(S) -> S]
        /\ \A i, j \in 1..Cardinality(S) :
              i < j => <<Listed(S, MergedPairs)[i], Listed(S, MergedPairs)[j]>> \in MergedPairs
        /\ \A i, j \in 1..Cardinality(S) :
              Listed(S, MergedPairs)[i] = Listed(S, MergedPairs)[j] => i = j
        /\ \A x \in S : \E i \in 1..Cardinality(S) : Listed(S, MergedPairs)[i] = x
        /\ \A i \in 1..Cardinality(S) :
              Cardinality(AheadOf(S, MergedPairs, Listed(S, MergedPairs)[i])) = i - 1
    BY <1>2, ListedInOrder
  <2> QED
    BY <1>2, <2>1, <2>2
<1>4. \A i \in S : Merged[i] \in S
  BY <1>3
<1>5. Feed = Capped(shown)
  <2> DEFINE order == Listed(S, {x \in S \X S : MergedBefore(All, x[1], x[2])})
  <2>1. order = Merged
    BY DEF Merged, MergedPairs
  <2>2. DOMAIN Merged = S
    BY <1>3
  <2>3. Feed = Capped([k \in DOMAIN order |-> All[order[k]]])
    BY <1>1 DEF Feed, All
  <2> HIDE DEF order, S
  <2>4. Feed = Capped([k \in S |-> All[Merged[k]]])
    BY <2>1, <2>2, <2>3
  <2> QED
    BY <2>4
<1>6. shown \in [1..m -> DOMAIN content]
  <2>1. \A k \in S : All[Merged[k]] \in DOMAIN content
    BY <1>1, <1>4, ElementOfSeq
  <2> QED
    BY <2>1
<1> HIDE DEF shown, m
<1>7. /\ c \in Nat /\ c <= m /\ c <= FeedLimit /\ (c < m => c = FeedLimit)
      /\ Len(Capped(shown)) = c /\ DOMAIN Capped(shown) = 1..c
      /\ Capped(shown) \in Seq(DOMAIN content)
      /\ \A i \in 1..c : Capped(shown)[i] = shown[i]
  <2>1. m \in Nat /\ shown \in [1..m -> DOMAIN content]
    BY <1>1, <1>6
  <2> HIDE DEF S
  <2> DEFINE D == DOMAIN content
  <2> HIDE DEF D
  <2>2. m \in Nat /\ shown \in [1..m -> D]
    BY <2>1 DEF D
  <2>3. /\ Shown(m) \in Nat /\ Shown(m) <= m /\ Shown(m) <= FeedLimit
        /\ Shown(m) < m => Shown(m) = FeedLimit
        /\ Len(Capped(shown)) = Shown(m) /\ DOMAIN Capped(shown) = 1..Shown(m)
        /\ Capped(shown) \in Seq(D)
        /\ \A i \in 1..Shown(m) : Capped(shown)[i] = shown[i]
    BY <2>2, CappedList, Zenon
  <2> QED
    BY <2>3, Zenon DEF D
<1>8. \A k \in 1..c : Feed[k] = All[Merged[k]]
  <2> HIDE DEF c
  <2>1. \A k \in 1..c : k \in S
    BY <1>1, <1>7
  <2>2. \A k \in S : shown[k] = All[Merged[k]]
    BY DEF shown
  <2> QED
    BY <1>5, <1>7, <2>1, <2>2
<1>9. \A i, j \in 1..m : i < j => MergedBefore(All, Merged[i], Merged[j])
  BY <1>2, <1>3, <1>4
<1>10. /\ Len(Feed) = c /\ DOMAIN Feed = 1..c /\ Feed \in Seq(DOMAIN content)
       /\ Merged \in [1..m -> 1..m]
       /\ \A k \in 1..m : \E i \in 1..m : Merged[i] = k
       /\ \A i \in 1..m : Cardinality(AheadOf(1..m, MergedPairs, Merged[i])) = i - 1
  BY <1>3, <1>5, <1>7
<1> HIDE DEF c
<1>11. /\ m \in Nat /\ c \in Nat /\ c <= m /\ c <= FeedLimit /\ (c < m => c = FeedLimit)
       /\ \A i, j \in 1..m : Merged[i] = Merged[j] => i = j
  BY <1>1, <1>3, <1>7
<1> QED
  BY <1>8, <1>9, <1>10, <1>11 DEF m, c

(* Whoever is left out of a list that is full, when it stands whole in what  *)
(* is merged, is not newer than anything the feed shows.                     *)
LEMMA FullListFillsFeed ==
  ASSUME content \in Seq(Content), NEW x \in DOMAIN content, NEW o \in Nat,
         o + FeedLimit <= Len(All),
         \A k \in 1..FeedLimit : content[All[o + k]].date >= content[x].date
  PROVE  /\ Len(Feed) = FeedLimit
         /\ \A k \in DOMAIN Feed : content[Feed[k]].date >= content[x].date
<1> DEFINE m == Len(All)
           c == Shown(m)
<1>1. /\ m \in Nat /\ c \in Nat /\ c <= m /\ c <= FeedLimit /\ (c < m => c = FeedLimit)
      /\ Merged \in [1..m -> 1..m]
      /\ \A i \in 1..m : Cardinality(AheadOf(1..m, MergedPairs, Merged[i])) = i - 1
      /\ Len(Feed) = c /\ DOMAIN Feed = 1..c
      /\ \A k \in 1..c : Feed[k] = All[Merged[k]]
  BY FeedItems
<1>2. /\ IsFiniteSet(1..m)
      /\ \A k \in 1..m : content[All[k]].date \in Nat
      /\ \A j, k \in 1..m : <<j, k>> \in MergedPairs <=> MergedBefore(All, j, k)
  BY MergedInOrder
<1>3. o + FeedLimit <= m
  OBVIOUS
<1> HIDE DEF m, c
<1>4. FeedLimit \in Nat
  BY FollowsAssumption
<1>5. c = FeedLimit
  BY <1>1, <1>3, <1>4
<1>6. content[x].date \in Nat
  BY FollowsAssumption, LenProperties, ElementOfSeq
<1>10. \A k \in 1..c : k \in 1..m /\ Merged[k] \in 1..m
  <2>1. m \in Nat /\ c \in Nat /\ c <= m /\ Merged \in [1..m -> 1..m]
    BY <1>1
  <2> QED
    BY <2>1
<1>7. ASSUME NEW j \in 1..c, content[Feed[j]].date < content[x].date
      PROVE  FALSE
  <2>1. j \in 1..m /\ Merged[j] \in 1..m
    BY <1>10
  <2> DEFINE A == AheadOf(1..m, MergedPairs, Merged[j])
             B == (o + 1)..(o + FeedLimit)
  <2>2. content[All[Merged[j]]].date < content[x].date
    BY <1>1, <1>7
  <2>3. ASSUME NEW b \in B
        PROVE  b \in A
    <3>1. b - o \in 1..FeedLimit /\ o + (b - o) = b /\ b \in 1..m
      BY <1>1, <1>3, <1>4
    <3>2. content[All[b]].date >= content[x].date
      BY <3>1
    <3>3. content[All[b]].date \in Nat /\ content[All[Merged[j]]].date \in Nat
      BY <1>2, <2>1, <3>1
    <3>4. content[All[b]].date > content[All[Merged[j]]].date
      <4> DEFINE later == content[All[b]].date
                 earlier == content[All[Merged[j]]].date
                 between == content[x].date
      <4>1. /\ later \in Nat /\ earlier \in Nat /\ between \in Nat
            /\ later >= between /\ earlier < between
        BY <1>6, <2>2, <3>2, <3>3
      <4> HIDE DEF later, earlier, between
      <4>2. later > earlier
        BY <4>1
      <4> QED
        BY <4>2 DEF later, earlier
    <3>5. MergedBefore(All, b, Merged[j])
      BY <3>4 DEF MergedBefore
    <3>6. <<b, Merged[j]>> \in MergedPairs
      BY <1>2, <2>1, <3>1, <3>5
    <3> QED
      BY <3>1, <3>6 DEF AheadOf
  <2>4. A \subseteq 1..m
    BY DEF AheadOf
  <2>5. Cardinality(A) = j - 1
    BY <1>1, <2>1
  <2> HIDE DEF A
  <2>6. B \subseteq A
    BY <2>3
  <2>7. Cardinality(B) = FeedLimit
    BY <1>4, Between
  <2> HIDE DEF B
  <2>8. IsFiniteSet(A)
    BY <1>2, <2>4, FS_Subset
  <2>9. Cardinality(B) <= Cardinality(A)
    BY <2>6, <2>8, FS_Subset
  <2>10. c \in Nat /\ FeedLimit <= j - 1
    BY <1>1, <2>5, <2>7, <2>9
  <2> QED
    BY <1>5, <2>10
<1>8. \A k \in 1..c : content[Feed[k]].date \in Nat
  <2> TAKE k \in 1..c
  <2>1. Feed[k] = All[Merged[k]]
    BY <1>1
  <2> QED
    BY <1>2, <1>10, <2>1
<1>9. \A k \in 1..c : content[Feed[k]].date >= content[x].date
  BY <1>6, <1>7, <1>8
<1> QED
  BY <1>1, <1>5, <1>9

(* What the feed leaves out although it was read comes after all it shows.   *)
LEMMA LeftOutOfMerge ==
  ASSUME content \in Seq(Content), NEW k \in 1..Len(All), All[k] \notin ToSet(Feed)
  PROVE  /\ Len(Feed) = FeedLimit
         /\ \A j \in DOMAIN Feed : content[Feed[j]].date >= content[All[k]].date
<1> DEFINE m == Len(All)
           c == Shown(m)
<1>1. /\ m \in Nat /\ c \in Nat /\ c <= m /\ (c < m => c = FeedLimit)
      /\ Merged \in [1..m -> 1..m]
      /\ \A i, j \in 1..m : i < j => MergedBefore(All, Merged[i], Merged[j])
      /\ \A h \in 1..m : \E i \in 1..m : Merged[i] = h
      /\ Len(Feed) = c /\ DOMAIN Feed = 1..c
      /\ \A h \in 1..c : Feed[h] = All[Merged[h]]
  BY FeedItems
<1>2. \A h \in 1..m : content[All[h]].date \in Nat
  BY MergedInOrder
<1>3. k \in 1..m
  OBVIOUS
<1> HIDE DEF m, c
<1>4. PICK q \in 1..m : Merged[q] = k
  BY <1>1, <1>3
<1>5. q \notin 1..c
  BY <1>1, <1>4 DEF ToSet
<1>6. c = FeedLimit /\ \A j \in 1..c : j \in 1..m /\ j < q
  <2>1. m \in Nat /\ c \in Nat /\ c <= m /\ (c < m => c = FeedLimit)
    BY <1>1
  <2> QED
    BY <1>5, <2>1
<1>7. ASSUME NEW j \in 1..c
      PROVE  content[Feed[j]].date >= content[All[k]].date
  <2>1. MergedBefore(All, Merged[j], k)
    BY <1>1, <1>4, <1>6
  <2>2. Merged[j] \in 1..m
    BY <1>1, <1>6
  <2>3. /\ content[All[Merged[j]]].date \in Nat /\ content[All[k]].date \in Nat
        /\ Feed[j] = All[Merged[j]]
    BY <1>1, <1>2, <1>3, <2>2
  <2> QED
    BY <2>1, <2>3 DEF MergedBefore
<1> QED
  BY <1>1, <1>6, <1>7

(* A poll with a page is left out for items that are not older, a limit of   *)
(* them: of the feed, or polls of which some have no page.                   *)
LEMMA PollLeftOut ==
  ASSUME content \in Seq(Content),
         \A j, k \in DOMAIN Feed : j # k => Feed[j] # Feed[k],
         \A i \in PollsPlaced : i \notin ToSet(Feed) =>
            /\ Len(Feed) = FeedLimit
            /\ \A k \in DOMAIN Feed : content[Feed[k]].date >= content[i].date,
         NEW U, U = {j \in Matching("poll") : ~content[j].placed},
         NEW i \in Matching("poll"), i \notin ToSet(Feed), i \notin U
  PROVE  Cardinality(NoOlder(ToSet(Feed) \cup U, i)) >= FeedLimit
<1> DEFINE read == NewestItems(Matching("poll"))
           S == NoOlder(ToSet(Feed) \cup U, i)
<1>1. /\ Matching("poll") \subseteq DOMAIN content
      /\ Cut(read, Matching("poll")) /\ CutByDate(read, Matching("poll"))
  <2>1. Matching("poll") \subseteq DOMAIN content
    BY DEF Matching
  <2> QED
    BY <2>1, NewestCut
<1>2. PollsRead = ToSet(read)
  BY DEF PollsRead
<1> HIDE DEF read
<1>3. FeedLimit \in Nat /\ \A j \in DOMAIN content : content[j].date \in Nat
  BY FollowsAssumption, LenProperties, ElementOfSeq
<1>4. Len(Feed) \in Nat /\ DOMAIN Feed = 1..Len(Feed) /\ Feed \in Seq(DOMAIN content)
  BY FeedItems
<1>5. IsFiniteSet(ToSet(Feed)) /\ Cardinality(ToSet(Feed)) = Len(Feed)
  BY <1>4, ListedOnce
<1>6. /\ IsFiniteSet(ToSet(read)) /\ Cardinality(ToSet(read)) = Len(read)
      /\ ToSet(read) \subseteq Matching("poll")
  <2>1. /\ read \in Seq(Matching("poll")) /\ \A j, k \in 1..Len(read) : read[j] = read[k] => j = k
        /\ DOMAIN read = 1..Len(read)
    BY <1>1 DEF Cut
  <2>2. ToSet(read) \subseteq Matching("poll")
    BY <2>1, ElementOfSeq DEF ToSet
  <2> QED
    BY <2>1, <2>2, ListedOnce
<1>7. IsFiniteSet(S)
  <2>1. IsFiniteSet(DOMAIN content)
    BY LenProperties, UpTo
  <2>2. S \subseteq DOMAIN content
    BY <1>1, <1>4, ElementOfSeq DEF NoOlder, ToSet
  <2> QED
    BY <2>1, <2>2, FS_Subset
<1> HIDE DEF S
(* A full feed of items that are not older is enough.                        *)
<1>8. ASSUME Len(Feed) = FeedLimit, \A k \in DOMAIN Feed : content[Feed[k]].date >= content[i].date
      PROVE  Cardinality(S) >= FeedLimit
  <2>1. ToSet(Feed) \subseteq S
    BY <1>8 DEF S, NoOlder, ToSet
  <2>2. Cardinality(ToSet(Feed)) <= Cardinality(S)
    BY <1>7, <2>1, FS_Subset
  <2> QED
    BY <1>3, <1>5, <1>7, <1>8, <2>2, FS_CardinalityType
<1>9. CASE i \in PollsRead
  <2>1. i \in PollsPlaced
    BY <1>9 DEF PollsPlaced
  <2> QED
    BY <1>8, <2>1 DEF S
<1>10. CASE i \notin PollsRead
  <2>1. /\ Len(read) = FeedLimit /\ DOMAIN read = 1..Len(read)
        /\ \A k \in 1..Len(read) : content[read[k]].date >= content[i].date
    <3>1. ~\E k \in 1..Len(read) : read[k] = i
      BY <1>1, <1>2, <1>10 DEF ToSet, Cut
    <3> QED
      BY <1>1, <3>1 DEF CutByDate, Cut
  <2>2. \A j \in ToSet(read) : content[j].date >= content[i].date
    BY <2>1 DEF ToSet
  <2>3. CASE ToSet(read) \subseteq ToSet(Feed) \cup U
    <3>1. ToSet(read) \subseteq S
      BY <2>2, <2>3 DEF S, NoOlder
    <3>2. Cardinality(ToSet(read)) <= Cardinality(S)
      BY <1>7, <3>1, FS_Subset
    <3> QED
      BY <1>3, <1>6, <1>7, <2>1, <3>2, FS_CardinalityType DEF S
  <2>4. CASE ~(ToSet(read) \subseteq ToSet(Feed) \cup U)
    <3>1. PICK p \in ToSet(read) : p \notin ToSet(Feed) /\ p \notin U
      BY <2>4
    <3>2. p \in PollsPlaced
      BY <1>2, <1>6, <3>1 DEF PollsPlaced
    <3>3. /\ Len(Feed) = FeedLimit
          /\ \A k \in DOMAIN Feed : content[Feed[k]].date >= content[p].date
      BY <3>1, <3>2
    <3>4. content[p].date >= content[i].date
      BY <2>2
    <3>5. ASSUME NEW k \in DOMAIN Feed
          PROVE  content[Feed[k]].date >= content[i].date
      <4>1. content[Feed[k]].date >= content[p].date
        BY <3>3
      <4>2. /\ content[Feed[k]].date \in Nat /\ content[p].date \in Nat
            /\ content[i].date \in Nat
        BY <1>1, <1>3, <1>4, <1>6, ElementOfSeq
      <4> QED
        BY <3>4, <4>1, <4>2
    <3> QED
      BY <1>8, <3>3, <3>5 DEF S
  <2> QED
    BY <2>3, <2>4
<1> QED
  BY <1>9, <1>10

LEMMA FeedIsInOrder ==
  ASSUME content \in Seq(Content)
  PROVE  FeedInOrder
<1> DEFINE m == Len(All)
           c == Shown(m)
<1>1. /\ m \in Nat /\ c \in Nat /\ c <= m
      /\ Merged \in [1..m -> 1..m]
      /\ \A i, j \in 1..m : i < j => MergedBefore(All, Merged[i], Merged[j])
      /\ \A i, j \in 1..m : Merged[i] = Merged[j] => i = j
      /\ DOMAIN Feed = 1..c
      /\ \A k \in 1..c : Feed[k] = All[Merged[k]]
  BY FeedItems
<1>2. \A k \in 1..m : content[All[k]].date \in Nat
  BY MergedInOrder
<1>3. /\ \A k \in 1..m : content[All[k]].placed /\ content[All[k]].about \cap follows # {}
      /\ \A j, k \in 1..m : All[j] = All[k] => j = k
      /\ AfterNews \in Nat /\ m = AfterNews + Len(FollowedElections)
      /\ Len(FollowedPolls) <= m
      /\ \A k \in 1..Len(FollowedPolls) : All[0 + k] = FollowedPolls[k]
      /\ \A k \in 1..Len(FollowedElections) : All[AfterNews + k] = FollowedElections[k]
  <2>1. AfterPolls <= m
    BY AllItems
  <2> QED
    BY <2>1, AllItems DEF AfterPolls
<1> HIDE DEF m, c
<1>4. \A k \in 1..c : k \in 1..m /\ Merged[k] \in 1..m
  BY <1>1
<1>5. ASSUME NEW k \in 1..c, NEW l \in 1..c
      PROVE  /\ k # l => Feed[k] # Feed[l]
             /\ k < l => content[Feed[k]].date >= content[Feed[l]].date
  <2>1. k # l => Feed[k] # Feed[l]
    <3>1. /\ k \in 1..m /\ Merged[k] \in 1..m /\ Feed[k] = All[Merged[k]]
          /\ l \in 1..m /\ Merged[l] \in 1..m /\ Feed[l] = All[Merged[l]]
      BY <1>1, <1>4, Zenon
    <3>2. Feed[k] = Feed[l] => Merged[k] = Merged[l]
      BY <1>3, <3>1, Zenon
    <3>3. Merged[k] = Merged[l] => k = l
      BY <1>1, <3>1, Zenon
    <3> QED
      BY <3>2, <3>3
  <2>2. ASSUME k < l
        PROVE  content[Feed[k]].date >= content[Feed[l]].date
    <3>1. MergedBefore(All, Merged[k], Merged[l])
      BY <1>1, <1>4, <2>2
    <3>2. content[All[Merged[k]]].date \in Nat /\ content[All[Merged[l]]].date \in Nat
      BY <1>2, <1>4
    <3>3. Feed[k] = All[Merged[k]] /\ Feed[l] = All[Merged[l]]
      BY <1>1
    <3> QED
      BY <3>1, <3>2, <3>3 DEF MergedBefore
  <2> QED
    BY <2>1, <2>2
<1>6. \A k \in 1..c : content[Feed[k]].placed /\ content[Feed[k]].about \cap follows # {}
  <2> TAKE k \in 1..c
  <2>1. Feed[k] = All[Merged[k]]
    BY <1>1
  <2> QED
    BY <1>3, <1>4, <2>1
<1>7. ASSUME NEW l, NEW S, NEW o \in Nat, S \subseteq DOMAIN content,
             Cut(l, S), CutByDate(l, S), o + Len(l) <= m,
             \A k \in 1..Len(l) : All[o + k] = l[k],
             NEW i \in S, i \notin ToSet(Feed)
      PROVE  /\ Len(Feed) = FeedLimit
             /\ \A k \in DOMAIN Feed : content[Feed[k]].date >= content[i].date
  <2>1. CASE \E k \in 1..Len(l) : l[k] = i
    <3>1. PICK k \in 1..Len(l) : l[k] = i
      BY <2>1
    <3>2. Len(l) \in Nat
      BY <1>7 DEF Cut
    <3>3. o + k \in 1..m
      BY <1>1, <1>7, <3>2
    <3>4. All[o + k] = i
      BY <1>7, <3>1, Zenon
    <3> QED
      BY <1>7, <3>3, <3>4, LeftOutOfMerge DEF m
  <2>2. CASE Len(l) = FeedLimit /\ \A k \in 1..Len(l) : content[l[k]].date >= content[i].date
    <3>1. /\ i \in DOMAIN content /\ o + FeedLimit <= Len(All)
          /\ \A k \in 1..FeedLimit : content[All[o + k]].date >= content[i].date
      BY <1>7, <2>2 DEF m
    <3> QED
      BY <3>1, FullListFillsFeed
  <2> QED
    BY <1>7, <2>1, <2>2 DEF CutByDate
<1>8. ASSUME NEW i \in PollsPlaced, i \notin ToSet(Feed)
      PROVE  /\ Len(Feed) = FeedLimit
             /\ \A k \in DOMAIN Feed : content[Feed[k]].date >= content[i].date
  <2>1. /\ PollsPlaced \subseteq DOMAIN content
        /\ Cut(FollowedPolls, PollsPlaced) /\ CutByDate(FollowedPolls, PollsPlaced)
    BY PollsCut
  <2>2. 0 \in Nat /\ 0 + Len(FollowedPolls) <= m
    BY <1>3, <2>1 DEF Cut
  <2> QED
    BY <1>3, <1>7, <1>8, <2>1, <2>2
<1>p. ASSUME NEW U, U = {j \in Matching("poll") : ~content[j].placed},
             NEW i \in Matching("poll"), i \notin ToSet(Feed), i \notin U
      PROVE  Cardinality(NoOlder(ToSet(Feed) \cup U, i)) >= FeedLimit
  BY <1>1, <1>5, <1>8, <1>p, PollLeftOut
<1>9. ASSUME NEW i \in Matching("election"), i \notin ToSet(Feed)
      PROVE  /\ Len(Feed) = FeedLimit
             /\ \A k \in DOMAIN Feed : content[Feed[k]].date >= content[i].date
  <2>1. Matching("election") \subseteq DOMAIN content
    BY DEF Matching
  <2>2. Cut(FollowedElections, Matching("election"))
        /\ CutByDate(FollowedElections, Matching("election"))
    BY <2>1, NewestCut DEF FollowedElections
  <2>3. AfterNews + Len(FollowedElections) <= m
    BY <1>1, <1>3
  <2> QED
    BY <1>3, <1>7, <1>9, <2>1, <2>2, <2>3
<1>10. \A i \in Matching("election") \ ToSet(Feed) :
          /\ Len(Feed) = FeedLimit
          /\ \A k \in DOMAIN Feed : content[Feed[k]].date >= content[i].date
  BY <1>9
<1>11. /\ \A k, l \in DOMAIN Feed :
            /\ k # l => Feed[k] # Feed[l]
            /\ k < l => content[Feed[k]].date >= content[Feed[l]].date
       /\ \A k \in DOMAIN Feed :
            content[Feed[k]].placed /\ content[Feed[k]].about \cap follows # {}
  BY <1>1, <1>5, <1>6
<1> DEFINE unplaced == {j \in Matching("poll") : ~content[j].placed}
<1>12. \A i \in Matching("poll") \ (ToSet(Feed) \cup unplaced) :
          Cardinality(NoOlder(ToSet(Feed) \cup unplaced, i)) >= FeedLimit
  BY <1>p
<1> QED
  BY <1>10, <1>11, <1>12 DEF FeedInOrder

-----------------------------------------------------------------------------
(* The clicks keep to their types.                                           *)

FollowsInv ==
    /\ follows \subseteq Entities /\ button \in [Entities -> BOOLEAN]
    /\ content \in Seq(Content) /\ Len(content) <= MaxContent
    /\ click \in [Clicks -> {NoClick} \cup [at: {"read", "answer"}, of: Entities, was: BOOLEAN]]
    /\ clicked \in 0..MaxClicks

LEMMA FollowsInitInv == FollowsInit => FollowsInv
<1> SUFFICES ASSUME FollowsInit PROVE FollowsInv
  OBVIOUS
<1>1. <<>> \in Seq(Content) /\ Len(<<>>) = 0
  OBVIOUS
<1> QED
  BY <1>1, FollowsAssumption DEF FollowsInit, FollowsInv

LEMMA FollowsStepInv == FollowsInv /\ [FollowsNext]_followsVars => FollowsInv'
<1> SUFFICES ASSUME FollowsInv, [FollowsNext]_followsVars PROVE FollowsInv'
  OBVIOUS
<1> USE DEF FollowsInv
<1>1. ASSUME NEW c \in Clicks, NEW e \in Entities, IsFollowing(c, e)
      PROVE  FollowsInv'
  BY <1>1, FollowsAssumption DEF IsFollowing
<1>2. ASSUME NEW c \in Clicks, Toggle(c)
      PROVE  FollowsInv'
  <2>1. click[c] \in [at: {"read", "answer"}, of: Entities, was: BOOLEAN]
    BY <1>2 DEF Toggle
  <2> QED
    BY <1>2, <2>1 DEF Toggle
<1>3. ASSUME NEW c \in Clicks, AnswerClick(c)
      PROVE  FollowsInv'
  <2>1. click[c] \in [at: {"read", "answer"}, of: Entities, was: BOOLEAN]
    BY <1>3 DEF AnswerClick
  <2> QED
    BY <1>3, <2>1 DEF AnswerClick
<1>4. ASSUME NEW c \in Clicks, LeaveClick(c)
      PROVE  FollowsInv'
  BY <1>4 DEF LeaveClick
<1>5. ASSUME AddContent
      PROVE  FollowsInv'
  <2>1. PICK x \in Content : content' = Append(content, x)
    BY <1>5 DEF AddContent
  <2>2. content' \in Seq(Content) /\ Len(content') = Len(content) + 1 /\ Len(content) \in Nat
    BY <2>1, AppendProperties, LenProperties
  <2>3. Len(content') <= MaxContent
    BY <1>5, <2>2, FollowsAssumption DEF AddContent
  <2> QED
    BY <1>5, <2>2, <2>3 DEF AddContent
<1>6. CASE UNCHANGED followsVars
  BY <1>6 DEF followsVars
<1> QED
  BY <1>1, <1>2, <1>3, <1>4, <1>5, <1>6 DEF FollowsNext

(* Whatever is followed and added, by whichever clicks: the feed repeats     *)
(* nothing, is newest first, leaves out an election only when it is full of  *)
(* what is not older, and a poll with a page only when such items and polls  *)
(* without a page are as many as the limit.                                  *)
THEOREM FeedAlwaysInOrder == FollowsSpec => []FeedInOrder
<1>1. FollowsInv => FeedInOrder
  BY FeedIsInOrder DEF FollowsInv
<1> QED
  BY <1>1, FollowsInitInv, FollowsStepInv, PTL DEF FollowsSpec

-----------------------------------------------------------------------------
(* Newsroom: the pages of articles.                                          *)

NewerOf(S) == {x \in S \X S : Newer(x[1], x[2])}

LEMMA ArticlesDated ==
  ASSUME IInv
  PROVE  /\ IsFiniteSet(RowsOf(items))
         /\ \A n \in RowsOf(items) : n \in Nat /\ DateOf(n) \in Nat
<1>1. /\ sources \in Seq(SourceRow) /\ items \in Seq(ItemRow)
  BY DEF IInv, PressTypeOK, SourceRow, ItemRow
<1>2. /\ Len(items) \in Nat /\ RowsOf(items) = 1..Len(items)
      /\ Len(sources) \in Nat /\ RowsOf(sources) = 1..Len(sources)
  BY <1>1, LenProperties DEF RowsOf
<1>3. IsFiniteSet(RowsOf(items))
  BY <1>2, UpTo
<1>4. ASSUME NEW n \in RowsOf(items)
      PROVE  n \in Nat /\ DateOf(n) \in Nat
  <2>1. items[n] \in ItemRow
    BY <1>1, <1>2, ElementOfSeq
  <2>2. items[n].source \in RowsOf(sources)
    BY <2>1 DEF ItemRow
  <2>3. sources[items[n].source] \in SourceRow
    BY <1>1, <1>2, <2>2, ElementOfSeq
  <2>4. DateOf(n) \in Nat
    BY <2>3 DEF DateOf, SourceRow, Date
  <2> QED
    BY <1>2, <2>4
<1> QED
  BY <1>3, <1>4

LEMMA NewerIsAnOrder ==
  ASSUME IInv, NEW m \in RowsOf(items), NEW n \in RowsOf(items), NEW o \in RowsOf(items)
  PROVE  /\ ~Newer(m, m)
         /\ m # n => Newer(m, n) \/ Newer(n, m)
         /\ Newer(m, n) /\ Newer(n, o) => Newer(m, o)
<1>1. /\ m \in Nat /\ n \in Nat /\ o \in Nat
      /\ DateOf(m) \in Nat /\ DateOf(n) \in Nat /\ DateOf(o) \in Nat
  BY ArticlesDated
<1>2. \A i, j : Newer(i, j) <=> DateOf(i) > DateOf(j) \/ (DateOf(i) = DateOf(j) /\ i > j)
  BY DEF Newer
<1> QED
  BY <1>1, <1>2

LEMMA NewerIsLater ==
  ASSUME IInv, NEW m \in RowsOf(items), NEW n \in RowsOf(items), Newer(m, n)
  PROVE  m # n /\ DateOf(m) >= DateOf(n)
<1>1. m \in Nat /\ n \in Nat /\ DateOf(m) \in Nat /\ DateOf(n) \in Nat
  BY ArticlesDated
<1> QED
  BY <1>1 DEF Newer

LEMMA ArticlesInOrder ==
  ASSUME IInv, NEW S, S \subseteq RowsOf(items)
  PROVE  /\ IsFiniteSet(S) /\ Orders(NewerOf(S), S)
         /\ \A m, n \in S : <<m, n>> \in NewerOf(S) <=> Newer(m, n)
<1>1. IsFiniteSet(S)
  BY ArticlesDated, FS_Subset
<1>2. \A m, n \in S : <<m, n>> \in NewerOf(S) <=> Newer(m, n)
  BY DEF NewerOf
<1>3. Orders(NewerOf(S), S)
  BY <1>2, NewerIsAnOrder DEF Orders
<1> QED
  BY <1>1, <1>2, <1>3

(* What a list of articles is: each once, newest first.                      *)
LEMMA NewestOfArticles ==
  ASSUME IInv, NEW S, S \subseteq RowsOf(items)
  PROVE  /\ Cardinality(S) \in Nat
         /\ Newest(S) \in [1..Cardinality(S) -> S]
         /\ \A i, j \in 1..Cardinality(S) : i < j => Newer(Newest(S)[i], Newest(S)[j])
         /\ \A n \in S : \E i \in 1..Cardinality(S) : Newest(S)[i] = n
<1> DEFINE N == Cardinality(S)
           s == Listed(S, NewerOf(S))
<1>1. /\ IsFiniteSet(S) /\ Orders(NewerOf(S), S)
      /\ \A m, n \in S : <<m, n>> \in NewerOf(S) <=> Newer(m, n)
  BY ArticlesInOrder
<1>2. /\ N \in Nat /\ s \in [1..N -> S]
      /\ \A i, j \in 1..N : i < j => <<s[i], s[j]>> \in NewerOf(S)
      /\ \A n \in S : \E i \in 1..N : s[i] = n
  BY <1>1, ListedInOrder
<1>3. Newest(S) = s
  BY DEF Newest, NewerOf
<1> HIDE DEF s, N
<1>4. \A i, j \in 1..N : i < j => Newer(s[i], s[j])
  BY <1>1, <1>2
<1> QED
  BY <1>2, <1>3, <1>4 DEF N

(* w is the e elements of s from the place after offset on.                  *)
Shows(w, s, n, offset, e) ==
    /\ Len(w) = e /\ DOMAIN w = 1..e
    /\ \A i \in 1..e : w[i] = s[offset + i] /\ offset + i \in 1..n

LEMMA WindowOf ==
  ASSUME NEW S, NEW n \in Nat, NEW s \in [1..n -> S], NEW limit \in Nat, NEW offset \in 0..n,
         NEW e \in Nat, e <= limit, offset + e <= n, e = limit \/ offset + e = n
  PROVE  Shows(Window(s, limit, offset), s, n, offset, e) /\ Window(s, limit, offset) \in Seq(S)
<1> DEFINE a == offset + 1
           b == offset + e
<1>1. Len(s) = n
  OBVIOUS
<1>2. Window(s, limit, offset) = SubSeq(s, a, b)
  BY <1>1 DEF Window
<1>3. a \in Nat \ {0} /\ b \in Nat /\ b <= n /\ a <= b + 1 /\ b - a + 1 = e
  OBVIOUS
<1>4. \A i \in 1..e : a + i - 1 = offset + i
  OBVIOUS
<1> HIDE DEF a, b
<1>5. /\ Len(SubSeq(s, a, b)) = e /\ DOMAIN SubSeq(s, a, b) = 1..e /\ SubSeq(s, a, b) \in Seq(S)
      /\ \A i \in 1..e : SubSeq(s, a, b)[i] = s[a + i - 1] /\ a + i - 1 \in 1..n
  BY <1>3, PageOf
<1> QED
  BY <1>2, <1>4, <1>5 DEF Shows

(* The news of a country leaves out only what is older than all it shows.    *)
LEMMA RecentLeavesOutOlder ==
  ASSUME IInv, NEW p \in Named, NEW limit \in Nat,
         NEW n \in ToSet(ForPerson(p)), n \notin ToSet(Recent(limit))
  PROVE  Len(Recent(limit)) = limit /\ \A m \in ToSet(Recent(limit)) : DateOf(m) >= DateOf(n)
<1> DEFINE S == {i \in RowsOf(items) : \E q \in Named : <<i, q>> \in mentions}
           T == {i \in RowsOf(items) : <<i, p>> \in mentions}
           N == Cardinality(S)
           s == Newest(S)
           e == IF limit < N THEN limit ELSE N
<1>1. n \in S
  <2>1. /\ Newest(T) \in [1..Cardinality(T) -> T]
    BY NewestOfArticles
  <2>2. n \in T
    BY <2>1 DEF ForPerson, ToSet
  <2> QED
    BY <2>2
<1>2. S \subseteq RowsOf(items)
  OBVIOUS
<1>3. Recent(limit) = Window(s, limit, 0)
  BY DEF Recent
<1> HIDE DEF S
<1>4. /\ N \in Nat /\ s \in [1..N -> S]
      /\ \A i, j \in 1..N : i < j => Newer(s[i], s[j])
      /\ \A m \in S : \E i \in 1..N : s[i] = m
  BY <1>2, NewestOfArticles
<1> HIDE DEF N, s
<1>5. e \in Nat /\ 0 \in 0..N /\ e <= limit /\ 0 + e <= N /\ (e = limit \/ 0 + e = N)
  BY <1>4
<1> HIDE DEF e
<1>6. Shows(Window(s, limit, 0), s, N, 0, e)
  BY <1>4, <1>5, WindowOf
<1>7. \A i \in 1..e : Recent(limit)[i] = s[i] /\ i \in 1..N
  BY <1>3, <1>4, <1>5, <1>6 DEF Shows
<1>8. PICK k \in 1..N : s[k] = n
  BY <1>1, <1>4
<1>9. k \notin 1..e
  BY <1>3, <1>6, <1>7, <1>8 DEF ToSet, Shows
<1>10. e = limit /\ \A i \in 1..e : i < k
  BY <1>4, <1>5, <1>9
<1>11. \A i \in 1..e : DateOf(Recent(limit)[i]) >= DateOf(n)
  BY <1>2, <1>4, <1>7, <1>8, <1>10, NewerIsLater
<1>12. ToSet(Recent(limit)) = {Recent(limit)[i] : i \in 1..e}
  BY <1>3, <1>6 DEF ToSet, Shows
<1> QED
  BY <1>3, <1>6, <1>10, <1>11, <1>12 DEF Shows

(* An article's related ones: each of its rows once, and no row but its own. *)
Other(n, r) == IF r.a = n THEN r.b ELSE r.a
RowsWith(n) == {r \in related : n \in {r.a, r.b}}
OtherPairs(n) == {x \in RowsWith(n) \X RowsWith(n) : Newer(Other(n, x[1]), Other(n, x[2]))}

LEMMA OthersApart ==
  ASSUME IInv, NEW n \in RowsOf(items)
  PROVE  /\ \A r \in RowsWith(n) : Other(n, r) \in RowsOf(items) /\ Other(n, r) # n
         /\ \A r, s \in RowsWith(n) : Other(n, r) = Other(n, s) => r = s
<1>1. \A r \in related : r.a \in RowsOf(items) /\ r.b \in RowsOf(items)
  BY DEF IInv, PressTypeOK
<1>2. /\ \A r \in related : r.a # r.b
      /\ \A r, s \in related : {r.a, r.b} = {s.a, s.b} => r = s
  BY DEF IInv, OneRowEach
<1>3. \A r \in RowsWith(n) : r \in related /\ {r.a, r.b} = {n, Other(n, r)}
  BY DEF RowsWith, Other
<1>4. ASSUME NEW r \in RowsWith(n)
      PROVE  Other(n, r) \in RowsOf(items) /\ Other(n, r) # n
  BY <1>1, <1>2, <1>4 DEF RowsWith, Other
<1>5. ASSUME NEW r \in RowsWith(n), NEW s \in RowsWith(n), Other(n, r) = Other(n, s)
      PROVE  r = s
  <2>1. {r.a, r.b} = {s.a, s.b}
    BY <1>3, <1>5
  <2> QED
    BY <1>2, <1>3, <2>1
<1> QED
  BY <1>4, <1>5

LEMMA RelatedInOrder ==
  ASSUME IInv, NEW n \in RowsOf(items)
  PROVE  IsFiniteSet(RowsWith(n)) /\ Orders(OtherPairs(n), RowsWith(n))
<1> DEFINE W == RowsWith(n)
           f == [r \in W |-> Other(n, r)]
<1>1. f \in Injection(W, RowsOf(items))
  BY OthersApart DEF Injection, IsInjective
<1>2. IsFiniteSet(W)
  BY <1>1, ArticlesDated, FS_Injection
<1>3. ASSUME NEW x \in W
      PROVE  <<x, x>> \notin OtherPairs(n)
  <2>1. ~Newer(Other(n, x), Other(n, x))
    BY OthersApart, NewerIsAnOrder
  <2> QED
    BY <2>1 DEF OtherPairs
<1>4. ASSUME NEW x \in W, NEW y \in W, x # y
      PROVE  <<x, y>> \in OtherPairs(n) \/ <<y, x>> \in OtherPairs(n)
  <2>1. Other(n, x) # Other(n, y)
    BY <1>4, OthersApart
  <2>2. Newer(Other(n, x), Other(n, y)) \/ Newer(Other(n, y), Other(n, x))
    BY <2>1, OthersApart, NewerIsAnOrder
  <2> QED
    BY <2>2 DEF OtherPairs
<1>5. ASSUME NEW x \in W, NEW y \in W, NEW z \in W,
             <<x, y>> \in OtherPairs(n), <<y, z>> \in OtherPairs(n)
      PROVE  <<x, z>> \in OtherPairs(n)
  <2>1. Newer(Other(n, x), Other(n, y)) /\ Newer(Other(n, y), Other(n, z))
    BY <1>5 DEF OtherPairs
  <2>2. Newer(Other(n, x), Other(n, z))
    BY <2>1, OthersApart, NewerIsAnOrder
  <2> QED
    BY <2>2 DEF OtherPairs
<1>6. Orders(OtherPairs(n), W)
  BY <1>3, <1>4, <1>5 DEF Orders
<1> QED
  BY <1>2, <1>6

LEMMA RelatedOnceEach ==
  ASSUME IInv, NEW n \in RowsOf(items), NEW j \in DOMAIN RelatedNews(n),
         NEW k \in DOMAIN RelatedNews(n)
  PROVE  /\ RelatedNews(n)[k] # n
         /\ RelatedNews(n)[j] = RelatedNews(n)[k] => j = k
<1> DEFINE W == RowsWith(n)
           s == Listed(W, OtherPairs(n))
<1>1. RelatedNews(n) = [i \in DOMAIN s |-> Other(n, s[i])]
  BY DEF RelatedNews, RowsWith, OtherPairs, Other
<1>2. IsFiniteSet(W) /\ Orders(OtherPairs(n), W)
  BY RelatedInOrder
<1>3. /\ s \in [1..Cardinality(W) -> W]
      /\ \A a, b \in 1..Cardinality(W) : s[a] = s[b] => a = b
  BY <1>2, ListedInOrder
<1> HIDE DEF s
<1>4. /\ j \in 1..Cardinality(W) /\ k \in 1..Cardinality(W)
      /\ RelatedNews(n)[j] = Other(n, s[j]) /\ RelatedNews(n)[k] = Other(n, s[k])
  BY <1>1, <1>3
<1>5. s[j] \in W /\ s[k] \in W
  BY <1>3, <1>4
<1> QED
  BY <1>3, <1>4, <1>5, OthersApart

(* Pages of k rows: the first p - 1 of them hold (p - 1) * k.                *)
LEMMA Products ==
  ASSUME NEW a \in Nat, NEW b \in Nat, NEW k \in Nat
  PROVE  /\ a * k \in Nat /\ (a + 1) * k = a * k + k
         /\ a <= b => a * k <= b * k
<1>1. a * k \in Nat /\ (a + 1) * k = a * k + k
  OBVIOUS
<1>2. ASSUME a <= b
      PROVE  a * k <= b * k
  <2> DEFINE c == b - a
  <2>1. c \in Nat /\ b = a + c
    BY <1>2
  <2> HIDE DEF c
  <2>2. (a + c) * k = a * k + c * k /\ c * k \in Nat
    BY <2>1
  <2> QED
    BY <1>1, <2>1, <2>2
<1> QED
  BY <1>1, <1>2

LEMMA PagesEnough ==
  ASSUME NEW n \in Nat, NEW k \in Nat \ {0}, NEW t, t = (n + k - 1) \div k
  PROVE  /\ t \in Nat
         /\ \A p \in 1..t : (p - 1) * k \in Nat /\ (p - 1) * k < n
         /\ \A p, q \in 1..t : p < q => (p - 1) * k + k <= (q - 1) * k
         /\ \A i \in 1..n : \E p \in 1..t : (p - 1) * k < i /\ i <= (p - 1) * k + k
<1>1. t \in Nat /\ t * k <= n + k - 1 /\ n + k - 1 < t * k + k
  BY SMTT(30)
<1>2. ASSUME NEW p \in 1..t
      PROVE  (p - 1) * k \in Nat /\ (p - 1) * k < n
  <2>1. p - 1 \in Nat /\ p \in Nat /\ p - 1 + 1 = p /\ p <= t
    BY <1>1
  <2>2. (p - 1) * k \in Nat /\ p * k = (p - 1) * k + k /\ p * k <= t * k
    BY <1>1, <2>1, Products
  <2> QED
    BY <1>1, <2>2
<1>3. ASSUME NEW p \in 1..t, NEW q \in 1..t, p < q
      PROVE  (p - 1) * k + k <= (q - 1) * k
  <2>1. p - 1 \in Nat /\ p \in Nat /\ p - 1 + 1 = p /\ q - 1 \in Nat /\ p <= q - 1
    BY <1>1, <1>3
  <2>2. p * k = (p - 1) * k + k /\ p * k <= (q - 1) * k
    BY <1>1, <2>1, Products
  <2> QED
    BY <2>2
<1>4. ASSUME NEW i \in 1..n
      PROVE  \E p \in 1..t : (p - 1) * k < i /\ i <= (p - 1) * k + k
  <2> DEFINE d == (i - 1) \div k
  <2>1. d \in Nat /\ d * k <= i - 1 /\ i - 1 < d * k + k
    BY SMTT(30)
  <2> HIDE DEF d
  <2>2. d + 1 <= t
    <3> SUFFICES ASSUME ~(d + 1 <= t) PROVE FALSE
      OBVIOUS
    <3>1. t <= d
      BY <1>1, <2>1
    <3>2. t * k <= d * k
      BY <1>1, <2>1, <3>1, Products
    <3>3. d * k \in Nat /\ t * k \in Nat
      BY <1>1, <2>1, Products
    <3> QED
      BY <1>1, <2>1, <3>2, <3>3
  <2>4. d * k \in Nat
    BY <2>1, Products
  <2>5. d * k < i /\ i <= d * k + k
    BY <2>1, <2>4
  <2> DEFINE q == d + 1
  <2>6. q \in 1..t /\ q - 1 = d
    BY <1>1, <2>1, <2>2
  <2> HIDE DEF q
  <2>7. (q - 1) * k < i /\ i <= (q - 1) * k + k
    BY <2>5, <2>6
  <2> QED
    BY <2>6, <2>7
<1> QED
  BY <1>1, <1>2, <1>3, <1>4

(* The pages of an outlet, each a part of the list of all its articles.      *)
ListOf(l) == Newest(ArticlesOf(l))
OnPage(l, p) ==
    IF PerPage < Count(l) - (p - 1) * PerPage THEN PerPage ELSE Count(l) - (p - 1) * PerPage

LEMMA OutletList ==
  ASSUME IInv, NEW l
  PROVE  /\ Count(l) \in Nat
         /\ ListOf(l) \in [1..Count(l) -> ArticlesOf(l)]
         /\ \A i, j \in 1..Count(l) : i < j => Newer(ListOf(l)[i], ListOf(l)[j])
         /\ \A n \in ArticlesOf(l) : \E i \in 1..Count(l) : ListOf(l)[i] = n
<1>1. ArticlesOf(l) \subseteq RowsOf(items)
  BY DEF ArticlesOf
<1> QED
  BY <1>1, NewestOfArticles DEF ListOf, Count

LEMMA OutletPages ==
  ASSUME IInv, NEW l
  PROVE  /\ Pages(Count(l)) \in Nat
         /\ \A p \in 1..Pages(Count(l)) :
               (p - 1) * PerPage \in Nat /\ (p - 1) * PerPage < Count(l)
         /\ \A p, q \in 1..Pages(Count(l)) :
               p < q => (p - 1) * PerPage + PerPage <= (q - 1) * PerPage
         /\ \A i \in 1..Count(l) : \E p \in 1..Pages(Count(l)) :
               (p - 1) * PerPage < i /\ i <= (p - 1) * PerPage + PerPage
<1>1. Count(l) \in Nat /\ PerPage \in Nat \ {0}
  BY OutletList, NewsroomAssumption
<1>2. Pages(Count(l)) = (Count(l) + PerPage - 1) \div PerPage
  BY DEF Pages
<1> QED
  BY <1>1, <1>2, PagesEnough

LEMMA OutletPageShows ==
  ASSUME IInv, NEW l, NEW p \in 1..Pages(Count(l))
  PROVE  /\ OnPage(l, p) \in Nat
         /\ Shows(OutletPage(l, p), ListOf(l), Count(l), (p - 1) * PerPage, OnPage(l, p))
<1> DEFINE o == (p - 1) * PerPage
           e == OnPage(l, p)
<1>1. /\ Count(l) \in Nat /\ ListOf(l) \in [1..Count(l) -> ArticlesOf(l)]
      /\ PerPage \in Nat \ {0}
  BY OutletList, NewsroomAssumption
<1>2. Pages(Count(l)) \in Nat /\ o \in Nat /\ o < Count(l)
  BY OutletPages
<1>3. OutletPage(l, p) = Window(ListOf(l), PerPage, o)
  <2>1. Pages(Count(l)) # 0 /\ ~(p < 1) /\ ~(p > Pages(Count(l)))
    BY <1>2
  <2>2. Current(Count(l), p) = p
    BY <2>1 DEF Current
  <2> QED
    BY <2>2 DEF OutletPage, ForOutlet, ListOf, Before
<1>4. e = IF PerPage < Count(l) - o THEN PerPage ELSE Count(l) - o
  BY DEF OnPage
<1> HIDE DEF o, e
<1>5. /\ o \in 0..Count(l) /\ e \in Nat /\ e <= PerPage /\ o + e <= Count(l)
      /\ (e = PerPage \/ o + e = Count(l))
  BY <1>1, <1>2, <1>4
<1>6. Shows(Window(ListOf(l), PerPage, o), ListOf(l), Count(l), o, e)
  BY <1>1, <1>5, WindowOf
<1> QED
  BY <1>3, <1>5, <1>6 DEF o, e

LEMMA OutletPagesListAll ==
  ASSUME IInv, NEW l
  PROVE  LET n == Pages(Count(l))
             shown == UNION {{p} \X DOMAIN OutletPage(l, p) : p \in 1..n}
             at(x) == OutletPage(l, x[1])[x[2]]
         IN  /\ {at(x) : x \in shown} = ArticlesOf(l)
             /\ \A x, y \in shown :
                   x[1] < y[1] \/ (x[1] = y[1] /\ x[2] < y[2])
                       => at(x) # at(y) /\ DateOf(at(x)) >= DateOf(at(y))
             /\ n > 0 => /\ OutletPage(l, 0) = OutletPage(l, 1)
                         /\ OutletPage(l, n + 1) = OutletPage(l, n)
<1> DEFINE n == Pages(Count(l))
           s == ListOf(l)
           N == Count(l)
           from(p) == (p - 1) * PerPage
           e(p) == OnPage(l, p)
           shown == UNION {{p} \X DOMAIN OutletPage(l, p) : p \in 1..n}
           at(x) == OutletPage(l, x[1])[x[2]]
<1>1. /\ N \in Nat /\ s \in [1..N -> ArticlesOf(l)] /\ PerPage \in Nat \ {0}
      /\ \A i, j \in 1..N : i < j => Newer(s[i], s[j])
      /\ \A m \in ArticlesOf(l) : \E i \in 1..N : s[i] = m
  BY OutletList, NewsroomAssumption
<1>2. /\ n \in Nat
      /\ \A p \in 1..n : from(p) \in Nat /\ from(p) < N
      /\ \A p, q \in 1..n : p < q => from(p) + PerPage <= from(q)
      /\ \A i \in 1..N : \E p \in 1..n : from(p) < i /\ i <= from(p) + PerPage
  BY OutletPages
<1>3. ASSUME NEW p \in 1..n
      PROVE  /\ e(p) \in Nat /\ e(p) <= PerPage
             /\ DOMAIN OutletPage(l, p) = 1..e(p)
             /\ \A k \in 1..e(p) : OutletPage(l, p)[k] = s[from(p) + k] /\ from(p) + k \in 1..N
             /\ \A k \in 1..PerPage : from(p) + k \in 1..N => k \in 1..e(p)
  <2>1. e(p) \in Nat /\ Shows(OutletPage(l, p), s, N, from(p), e(p))
    BY OutletPageShows
  <2>2. e(p) = IF PerPage < N - from(p) THEN PerPage ELSE N - from(p)
    BY DEF OnPage
  <2>3. from(p) \in Nat /\ from(p) < N
    BY <1>2
  <2> HIDE DEF e, from, n, s, N
  <2>4. /\ DOMAIN OutletPage(l, p) = 1..e(p)
        /\ \A k \in 1..e(p) : OutletPage(l, p)[k] = s[from(p) + k] /\ from(p) + k \in 1..N
    BY <2>1 DEF Shows
  <2>5. e(p) <= PerPage /\ \A k \in 1..PerPage : from(p) + k \in 1..N => k \in 1..e(p)
    BY <1>1, <2>1, <2>2, <2>3
  <2> QED
    BY <2>1, <2>4, <2>5
<1> HIDE DEF e, from, n, s, N
<1>4. \A x : x \in shown <=> \E p \in 1..n : \E k \in 1..e(p) : x = <<p, k>>
  BY <1>3
<1> HIDE DEF shown
<1>5. \A p \in 1..n : \A k \in 1..e(p) : at(<<p, k>>) = s[from(p) + k] /\ from(p) + k \in 1..N
  BY <1>3
<1>6. \A x \in shown : at(x) \in ArticlesOf(l)
  <2> TAKE x \in shown
  <2>1. PICK p \in 1..n : \E k \in 1..e(p) : x = <<p, k>>
    BY <1>4
  <2>2. PICK k \in 1..e(p) : x = <<p, k>>
    BY <2>1
  <2>3. at(x) = s[from(p) + k] /\ from(p) + k \in 1..N
    BY <1>5, <2>2
  <2> QED
    BY <1>1, <2>3
<1>7. ASSUME NEW m \in ArticlesOf(l)
      PROVE  \E x \in shown : at(x) = m
  <2>1. PICK i \in 1..N : s[i] = m
    BY <1>1
  <2>2. PICK p \in 1..n : from(p) < i /\ i <= from(p) + PerPage
    BY <1>2
  <2>3. PICK k \in 1..PerPage : from(p) + k = i
    <3>1. from(p) \in Nat /\ i \in Nat /\ PerPage \in Nat
      BY <1>1, <1>2
    <3> DEFINE j == i - from(p)
    <3>2. j \in 1..PerPage /\ from(p) + j = i
      BY <2>2, <3>1
    <3> HIDE DEF j
    <3> QED
      BY <3>2
  <2>4. k \in 1..e(p)
    BY <1>3, <2>3
  <2>5. <<p, k>> \in shown
    BY <1>4, <2>4
  <2>6. at(<<p, k>>) = s[from(p) + k]
    BY <1>5, <2>4
  <2> QED
    BY <2>1, <2>3, <2>5, <2>6
<1>8. ASSUME NEW x \in shown, NEW y \in shown,
             x[1] < y[1] \/ (x[1] = y[1] /\ x[2] < y[2])
      PROVE  Newer(at(x), at(y))
  <2>1. PICK p \in 1..n : \E j \in 1..e(p) : x = <<p, j>>
    BY <1>4
  <2>2. PICK q \in 1..n : \E k \in 1..e(q) : y = <<q, k>>
    BY <1>4
  <2>j. PICK j \in 1..e(p) : x = <<p, j>>
    BY <2>1
  <2>k. PICK k \in 1..e(q) : y = <<q, k>>
    BY <2>2
  <2>3. p < q \/ (p = q /\ j < k)
    BY <1>8, <2>j, <2>k
  <2>4. from(p) + j \in 1..N /\ from(q) + k \in 1..N
    BY <1>5
  <2>5. from(p) + j < from(q) + k
    <3>1. /\ from(p) \in Nat /\ from(q) \in Nat /\ j \in Nat /\ k \in Nat
          /\ j <= PerPage /\ k > 0
      BY <1>1, <1>2, <1>3
    <3>2. p < q => from(p) + PerPage <= from(q)
      BY <1>2
    <3> QED
      BY <1>1, <2>3, <3>1, <3>2
  <2>6. Newer(s[from(p) + j], s[from(q) + k])
    BY <1>1, <2>4, <2>5
  <2> QED
    BY <1>5, <2>j, <2>k, <2>6
<1>d. ASSUME NEW x \in shown, NEW y \in shown,
             x[1] < y[1] \/ (x[1] = y[1] /\ x[2] < y[2])
      PROVE  at(x) # at(y) /\ DateOf(at(x)) >= DateOf(at(y))
  <2>1. Newer(at(x), at(y))
    BY <1>8, <1>d
  <2>2. at(x) \in RowsOf(items) /\ at(y) \in RowsOf(items)
    BY <1>6 DEF ArticlesOf
  <2> HIDE DEF at
  <2> QED
    BY <2>1, <2>2, NewerIsLater
<1>9. {at(x) : x \in shown} = ArticlesOf(l)
  BY <1>6, <1>7
<1>10. n > 0 => /\ OutletPage(l, 0) = OutletPage(l, 1)
                /\ OutletPage(l, n + 1) = OutletPage(l, n)
  <2> HAVE n > 0
  <2>1. n \in Nat /\ n # 0 /\ ~(1 > n) /\ n + 1 > n /\ ~(n + 1 < 1) /\ ~(n < 1) /\ ~(n > n)
    BY <1>2
  <2>2. \A p : Current(Count(l), p) = IF p < 1 THEN 1 ELSE IF p > n THEN n ELSE p
    BY <2>1 DEF Current, n
  <2>3. Current(Count(l), 0) = Current(Count(l), 1) /\ Current(Count(l), n + 1) = Current(Count(l), n)
    BY <2>1, <2>2
  <2> QED
    BY <2>3 DEF OutletPage
<1> QED
  BY <1>d, <1>9, <1>10 DEF n, shown

(* A visit of an outlet's page.  What it counted stays with the outlet.      *)
LEMMA ArticlesStay ==
  ASSUME IInv, Onward, NEW l \in Labels
  PROVE  /\ ArticlesOf(l) \subseteq ArticlesOf(l)'
         /\ Count(l) \in Nat /\ Count(l)' \in Nat /\ Count(l) <= Count(l)'
<1>1. ASSUME NEW n \in ArticlesOf(l)
      PROVE  n \in ArticlesOf(l)'
  <2>1. n \in RowsOf(items) /\ sources[items[n].source].outlet = l /\ l # Null
    BY NewsroomAssumption DEF ArticlesOf
  <2>2. items[n].source \in RowsOf(sources)
    BY <2>1, ItemType
  <2>3. /\ n \in RowsOf(items') /\ items'[n].source = items[n].source
        /\ sources'[items[n].source].outlet = l
    BY <2>1, <2>2 DEF Onward, SourcesKeep, ItemsKeep
  <2> QED
    BY <2>3 DEF ArticlesOf
<1>2. ArticlesOf(l) \subseteq RowsOf(items)
  BY DEF ArticlesOf
<1>3. /\ IsFiniteSet(RowsOf(items)) /\ IsFiniteSet(RowsOf(items)')
      /\ (ArticlesOf(l) \subseteq RowsOf(items))'
  <2>1. items' \in Seq(ItemRow')
    BY DEF Onward, IInv, PressTypeOK, ItemRow
  <2>2. Len(items') \in Nat /\ RowsOf(items)' = 1..Len(items')
    BY <2>1, LenProperties DEF RowsOf
  <2>3. (ArticlesOf(l) \subseteq RowsOf(items))'
    BY DEF ArticlesOf
  <2> QED
    BY <2>2, <2>3, UpTo, ArticlesDated
<1>4. IsFiniteSet(ArticlesOf(l)) /\ IsFiniteSet(ArticlesOf(l)')
  BY <1>2, <1>3, FS_Subset
<1> QED
  BY <1>1, <1>4, FS_CardinalityType, FS_Subset DEF Count

VisitKeeps ==
    /\ BrowsingTypeOK
    /\ browsing.at # "idle" =>
          /\ Before(browsing.current) \in 0..browsing.count
          /\ browsing.count <= Count(browsing.label)

PageKept ==
    browsing.at = "shown" =>
        /\ \A k \in 1..PerPage :
              Before(browsing.current) + k <= browsing.count => k \in DOMAIN browsing.shown
        /\ \A j, k \in DOMAIN browsing.shown :
              /\ browsing.shown[k] \in ArticlesOf(browsing.label)
              /\ browsing.shown[j] = browsing.shown[k] => j = k

VisitInv == IInv /\ VisitKeeps /\ PageKept

LEMMA VisitInit ==
  ASSUME NewsroomInit
  PROVE  VisitInv
BY InitInv DEF NewsroomInit, VisitInv, VisitKeeps, PageKept, BrowsingTypeOK, NotBrowsing

LEMMA VisitWaits ==
  ASSUME VisitInv, Onward, UNCHANGED browsing
  PROVE  VisitInv'
<1>1. CASE browsing = NotBrowsing
  BY <1>1 DEF VisitInv, VisitKeeps, PageKept, BrowsingTypeOK, NotBrowsing, Onward
<1>2. CASE browsing # NotBrowsing
  <2> DEFINE l == browsing.label
  <2>1. /\ l \in Labels /\ browsing.count \in Nat /\ browsing.shown \in Seq(RowsOf(items))
        /\ browsing.at \in {"counted", "shown"}
        /\ Before(browsing.current) \in 0..browsing.count /\ browsing.count <= Count(l)
    BY <1>2 DEF VisitInv, VisitKeeps, BrowsingTypeOK, NotBrowsing
  <2>2. /\ ArticlesOf(l) \subseteq ArticlesOf(l)'
        /\ Count(l) \in Nat /\ Count(l)' \in Nat /\ Count(l) <= Count(l)'
    BY <2>1, ArticlesStay DEF VisitInv
  <2>3. browsing.shown \in Seq(RowsOf(items'))
    <3>1. RowsOf(items) \subseteq RowsOf(items')
      BY RowsGrow DEF Onward
    <3> QED
      BY <2>1, <3>1, SeqMonotonic
  <2>4. BrowsingTypeOK'
    BY <1>2, <2>1, <2>3 DEF VisitInv, VisitKeeps, BrowsingTypeOK, RowsOf
  <2>5. browsing.count <= Count(browsing.label)'
    BY <2>1, <2>2
  <2>6. (Before(browsing.current) \in 0..browsing.count)'
    BY <2>1 DEF Before
  <2>7. VisitKeeps'
    BY <2>4, <2>5, <2>6 DEF VisitKeeps
  <2>8. PageKept'
    <3>1. PageKept /\ Before(browsing.current)' = Before(browsing.current)
      BY DEF VisitInv, Before
    <3>2. browsing.label' = l /\ ArticlesOf(browsing.label)' = ArticlesOf(l)'
      OBVIOUS
    <3> QED
      BY <2>2, <3>1, <3>2 DEF PageKept
  <2> QED
    BY <2>7, <2>8 DEF VisitInv, Onward
<1> QED
  BY <1>1, <1>2

(* The number shown is one of the pages, or the first when there is none.    *)
LEMMA CurrentWithin ==
  ASSUME NEW n \in Nat, NEW p \in Nat
  PROVE  Current(n, p) \in Nat \ {0} /\ Before(Current(n, p)) \in 0..n
<1> DEFINE c == Current(n, p)
<1>1. PerPage \in Nat \ {0} /\ Pages(n) = (n + PerPage - 1) \div PerPage
  BY NewsroomAssumption DEF Pages
<1>2. Pages(n) \in Nat /\ \A q \in 1..Pages(n) : (q - 1) * PerPage \in Nat /\ (q - 1) * PerPage < n
  BY <1>1, PagesEnough
<1>3. c \in 1..Pages(n) \/ c = 1
  BY <1>2 DEF Current
<1> HIDE DEF c
<1>4. c \in Nat \ {0}
  BY <1>2, <1>3
<1>5. CASE c \in 1..Pages(n)
  BY <1>2, <1>4, <1>5 DEF Before, c
<1>6. CASE c = 1
  <2>1. (c - 1) * PerPage = 0
    BY <1>1, <1>6
  <2> QED
    BY <1>4, <2>1 DEF Before, c
<1> QED
  BY <1>3, <1>5, <1>6

LEMMA VisitOpens ==
  ASSUME VisitInv, NEW l \in Labels, NEW p \in Nat, OpenOutlet(l, p), UNCHANGED pressVars
  PROVE  VisitInv'
<1> DEFINE v == [at |-> "counted", label |-> l, count |-> Count(l),
                 current |-> Current(Count(l), p), shown |-> <<>>]
<1>1. browsing' = v
  BY DEF OpenOutlet
<1>2. Count(l) \in Nat
  BY OutletList DEF VisitInv
<1>3. Current(Count(l), p) \in Nat \ {0} /\ Before(Current(Count(l), p)) \in 0..Count(l)
  BY <1>2, CurrentWithin
<1>4. IInv'
  BY PressStep DEF VisitInv, Onward
<1>5. <<>> \in Seq(RowsOf(items'))
  OBVIOUS
<1>6. BrowsingTypeOK'
  BY <1>1, <1>2, <1>3, <1>5 DEF BrowsingTypeOK, RowsOf
<1>7. Count(l)' = Count(l)
  BY DEF Count, ArticlesOf, RowsOf, pressVars
<1>8. Count(l) <= Count(l)'
  BY <1>2, <1>7
<1>9. VisitKeeps'
  <2>1. browsing'.label = l /\ browsing'.count = Count(l) /\ browsing'.current = Current(Count(l), p)
    BY <1>1
  <2>2. Before(browsing.current)' = Before(Current(Count(l), p))
    BY <2>1 DEF Before
  <2>3. Count(browsing.label)' = Count(l)'
    BY <2>1 DEF Count, ArticlesOf
  <2> QED
    BY <1>3, <1>6, <1>8, <2>1, <2>2, <2>3 DEF VisitKeeps
<1>10. PageKept'
  BY <1>1 DEF PageKept
<1> QED
  BY <1>4, <1>9, <1>10 DEF VisitInv

LEMMA VisitLists ==
  ASSUME VisitInv, ListOutlet, UNCHANGED pressVars
  PROVE  VisitInv'
<1> DEFINE l == browsing.label
           o == Before(browsing.current)
           N == Count(l)
           s == ListOf(l)
           e == IF PerPage < N - o THEN PerPage ELSE N - o
           w == Window(s, PerPage, o)
<1>1. /\ browsing \in [at: {"counted", "shown"}, label: Labels, count: Nat,
                       current: Nat \ {0}, shown: Seq(RowsOf(items))]
      /\ o \in 0..browsing.count /\ browsing.count <= N /\ l \in Labels /\ browsing.count \in Nat
  BY DEF VisitInv, VisitKeeps, BrowsingTypeOK, NotBrowsing, ListOutlet
<1>2. browsing' = [browsing EXCEPT !.at = "shown", !.shown = w]
  BY DEF ListOutlet, ForOutlet, ListOf
<1>3. /\ N \in Nat /\ s \in [1..N -> ArticlesOf(l)]
      /\ \A i, j \in 1..N : i < j => Newer(s[i], s[j])
  BY OutletList DEF VisitInv
<1>4. PerPage \in Nat \ {0}
  BY NewsroomAssumption
<1>a. ArticlesOf(l) \subseteq RowsOf(items)
  BY DEF ArticlesOf
<1>b. IInv'
  BY PressStep DEF VisitInv, Onward
<1>c. ArticlesOf(l)' = ArticlesOf(l) /\ Count(l)' = Count(l)
  <2>1. browsing'.label = l
    BY <1>1, <1>2
  <2> QED
    BY <2>1 DEF Count, ArticlesOf, RowsOf, pressVars
<1>d. Before(browsing.current)' = o
  BY <1>1, <1>2 DEF Before
<1> HIDE DEF s, w, N, o
<1>5. o \in 0..N /\ e \in Nat /\ e <= PerPage /\ o + e <= N /\ (e = PerPage \/ o + e = N)
  BY <1>1, <1>3, <1>4
<1> HIDE DEF e
<1>6. Shows(w, s, N, o, e) /\ w \in Seq(ArticlesOf(l))
  BY <1>3, <1>4, <1>5, WindowOf DEF w
<1>7. /\ Len(w) = e /\ DOMAIN w = 1..e
      /\ \A i \in 1..e : w[i] = s[o + i] /\ o + i \in 1..N
  BY <1>6 DEF Shows
<1>8. \A i \in 1..e : w[i] \in ArticlesOf(l)
  BY <1>3, <1>7
<1>9. ASSUME NEW j \in 1..e, NEW k \in 1..e, j < k
      PROVE  w[j] # w[k]
  <2>1. Newer(s[o + j], s[o + k])
    BY <1>3, <1>5, <1>7, <1>9
  <2>2. Newer(w[j], w[k]) /\ w[j] \in RowsOf(items) /\ w[k] \in RowsOf(items)
    BY <1>7, <1>8, <1>a, <2>1
  <2> QED
    BY <2>2, NewerIsLater DEF VisitInv
<1>10. \A j, k \in 1..e : w[j] = w[k] => j = k
  <2> SUFFICES ASSUME NEW j \in 1..e, NEW k \in 1..e, j # k PROVE w[j] # w[k]
    OBVIOUS
  <2>1. j < k \/ k < j
    BY <1>5
  <2> QED
    BY <1>9, <2>1
<1>11. \A k \in 1..PerPage : o + k <= browsing.count => k \in 1..e
  BY <1>1, <1>3, <1>4, <1>5
<1>12. w \in Seq(RowsOf(items))
  BY <1>6, <1>a, SeqMonotonic
<1>13. /\ browsing'.at = "shown" /\ browsing'.label = l /\ browsing'.count = browsing.count
       /\ browsing'.shown = w /\ browsing'.current = browsing.current
  BY <1>1, <1>2
<1>14. BrowsingTypeOK'
  BY <1>1, <1>2, <1>12 DEF BrowsingTypeOK, RowsOf, pressVars
<1>15. VisitKeeps'
  BY <1>1, <1>c, <1>d, <1>13, <1>14 DEF VisitKeeps, N
<1>16. PageKept'
  BY <1>7, <1>8, <1>10, <1>11, <1>c, <1>d, <1>13 DEF PageKept
<1> QED
  BY <1>b, <1>15, <1>16 DEF VisitInv

LEMMA VisitStep == VisitInv /\ [NewsroomNext]_newsroomVars => VisitInv'
<1> SUFFICES ASSUME VisitInv, [NewsroomNext]_newsroomVars PROVE VisitInv'
  OBVIOUS
<1>1. CASE [PressNext]_pressVars /\ UNCHANGED browsing
  <2>1. Onward
    BY <1>1, PressStep DEF VisitInv
  <2> QED
    BY <1>1, <2>1, VisitWaits
<1>2. CASE ListOutlet /\ UNCHANGED pressVars
  BY <1>2, VisitLists
<1>3. ASSUME NEW l \in Labels, NEW p \in 0 .. Pages(Count(l)) + 1, OpenOutlet(l, p),
             UNCHANGED pressVars
      PROVE  VisitInv'
  <2>1. p \in Nat
    OBVIOUS
  <2> QED
    BY <1>3, <2>1, VisitOpens
<1> QED
  BY <1>1, <1>2, <1>3 DEF NewsroomNext, newsroomVars

LEMMA EveryArticleIsListed ==
  ASSUME VisitInv
  PROVE  EveryArticleListed
<1> USE DEF VisitInv
<1>1. \A n \in RowsOf(items) : \A j, k \in DOMAIN RelatedNews(n) :
          RelatedNews(n)[k] # n /\ (RelatedNews(n)[j] = RelatedNews(n)[k] => j = k)
  BY RelatedOnceEach
<1>2. \A p \in Named, limit \in 1..2 : \A n \in ToSet(ForPerson(p)) \ ToSet(Recent(limit)) :
          Len(Recent(limit)) = limit /\ \A m \in ToSet(Recent(limit)) : DateOf(m) >= DateOf(n)
  BY RecentLeavesOutOlder
<1> QED
  BY <1>1, <1>2, OutletPagesListAll DEF EveryArticleListed, PageKept

(* However deliveries and editors interleave, the pages of an outlet read in *)
(* turn show each of its articles once, newest first, whatever page number   *)
(* is asked for; a page whose articles were counted before deliveries added  *)
(* more shows what the count promised, and no article twice; the news of a   *)
(* country leaves out only what is no newer than all that it shows; and an   *)
(* article lists a related one once, never itself.                           *)
THEOREM EveryArticleAlwaysListed == NewsroomSpec => []EveryArticleListed
<1>1. VisitInv => EveryArticleListed
  BY EveryArticleIsListed
<1>2. NewsroomInit => VisitInv
  BY VisitInit
<1> QED
  BY <1>1, <1>2, VisitStep, PTL DEF NewsroomSpec

-----------------------------------------------------------------------------
(* Totals.                                                                   *)

LEMMA OneToOne ==
  ASSUME NEW S, NEW T, IsFiniteSet(S), NEW f \in [S -> T],
         \A x, y \in S : f[x] = f[y] => x = y, \A t \in T : \E x \in S : f[x] = t
  PROVE  IsFiniteSet(T) /\ Cardinality(T) = Cardinality(S)
<1>1. f \in Bijection(S, T)
  BY DEF Bijection, Injection, Surjection, IsInjective
<1>2. ExistsBijection(S, T)
  BY <1>1, Fun_ExistsBij
<1> QED
  BY <1>2, FS_Bijection

LEMMA ImageOf ==
  ASSUME NEW S, NEW T, IsFiniteSet(S), NEW f \in [S -> T], \A t \in T : \E x \in S : f[x] = t
  PROVE  IsFiniteSet(T)
<1>1. f \in Surjection(S, T)
  BY DEF Surjection
<1> QED
  BY <1>1, FS_Surjection

(* What is counted part by part is counted once.                             *)
LEMMA CountedByParts ==
  ASSUME NEW A, IsFiniteSet(A), NEW f, NEW tag \in [A -> DOMAIN f],
         \A x \in DOMAIN f : Cardinality({a \in A : tag[a] = x}) = f[x]
  PROVE  Total(f) = Cardinality(A)
<1> DEFINE Part(x) == {a \in A : tag[a] = x}
           place == [x \in DOMAIN f |-> CHOOSE g : g \in Bijection(1..f[x], Part(x))]
           who == [u \in Units(f) |-> place[u[1]][u[2]]]
<1>1. ASSUME NEW x \in DOMAIN f
      PROVE  place[x] \in Bijection(1..f[x], Part(x))
  <2>1. IsFiniteSet(Part(x)) /\ Cardinality(Part(x)) = f[x]
    BY FS_Subset
  <2>2. ExistsBijection(1..f[x], Part(x))
    BY <2>1, FS_CardinalityType
  <2>3. \E g : g \in Bijection(1..f[x], Part(x))
    BY <2>2, Fun_ExistsBij
  <2> QED
    BY <2>3
<1> HIDE DEF place
<1>2. \A u : u \in Units(f) <=> \E x \in DOMAIN f : \E i \in 1..f[x] : u = <<x, i>>
  BY DEF Units
<1>3. \A x \in DOMAIN f : \A i \in 1..f[x] : who[<<x, i>>] = place[x][i]
  BY <1>2
<1>4. ASSUME NEW x \in DOMAIN f
      PROVE  /\ \A i \in 1..f[x] : place[x][i] \in A /\ tag[place[x][i]] = x
             /\ \A i, j \in 1..f[x] : place[x][i] = place[x][j] => i = j
             /\ \A a \in A : tag[a] = x => \E i \in 1..f[x] : place[x][i] = a
  <2>1. /\ place[x] \in [1..f[x] -> Part(x)]
        /\ \A i, j \in 1..f[x] : place[x][i] = place[x][j] => i = j
        /\ \A a \in Part(x) : \E i \in 1..f[x] : place[x][i] = a
    <3> DEFINE P == Part(x)
               g == place[x]
               m == f[x]
    <3>1. g \in Bijection(1..m, P)
      BY <1>1
    <3> HIDE DEF P, g, m
    <3>2. /\ g \in [1..m -> P]
          /\ \A i, j \in 1..m : g[i] = g[j] => i = j
          /\ \A a \in P : \E i \in 1..m : g[i] = a
      BY <3>1 DEF Bijection, Injection, Surjection, IsInjective
    <3> QED
      BY <3>2 DEF P, g, m
  <2>2. \A i \in 1..f[x] : place[x][i] \in Part(x)
    BY <2>1
  <2> QED
    BY <2>1, <2>2
<1>5. who \in [Units(f) -> A]
  <2>1. ASSUME NEW u \in Units(f)
        PROVE  who[u] \in A
    <3>1. PICK x \in DOMAIN f : \E i \in 1..f[x] : u = <<x, i>>
      BY <1>2
    <3>2. PICK i \in 1..f[x] : u = <<x, i>>
      BY <3>1
    <3> QED
      BY <1>3, <1>4, <3>2
  <2> QED
    BY <2>1
<1>6. ASSUME NEW u \in Units(f), NEW v \in Units(f), who[u] = who[v]
      PROVE  u = v
  <2>1. PICK x \in DOMAIN f : \E i \in 1..f[x] : u = <<x, i>>
    BY <1>2
  <2>2. PICK i \in 1..f[x] : u = <<x, i>>
    BY <2>1
  <2>3. PICK y \in DOMAIN f : \E j \in 1..f[y] : v = <<y, j>>
    BY <1>2
  <2>4. PICK j \in 1..f[y] : v = <<y, j>>
    BY <2>3
  <2>5. place[x][i] = place[y][j]
    BY <1>3, <1>6, <2>2, <2>4
  <2>6. x = y
    BY <1>4, <2>5
  <2> QED
    BY <1>4, <2>2, <2>4, <2>5, <2>6
<1>7. ASSUME NEW a \in A
      PROVE  \E u \in Units(f) : who[u] = a
  <2>1. PICK i \in 1..f[tag[a]] : place[tag[a]][i] = a
    BY <1>4
  <2>2. <<tag[a], i>> \in Units(f) /\ who[<<tag[a], i>>] = a
    BY <1>2, <1>3, <2>1
  <2> QED
    BY <2>2
<1> HIDE DEF who
<1>8. who \in Bijection(Units(f), A)
  BY <1>5, <1>6, <1>7 DEF Bijection, Injection, Surjection, IsInjective
<1>9. ExistsBijection(A, Units(f))
  BY <1>8, Fun_ExistsBij, Fun_ExistsBijSymmetric
<1> QED
  BY <1>9, FS_Bijection DEF Total

-----------------------------------------------------------------------------
(* Offices: the composition of parliament.                                   *)

RowsKept ==
    /\ DOMAIN memberships \subseteq MembershipKeys /\ DOMAIN roles \subseteq RoleKeys
    /\ IsFiniteSet(DOMAIN memberships) /\ IsFiniteSet(DOMAIN roles)

SeatRows == {k \in CurrentRows : CountryOf[k.party] = Home /\ Sits(k.person)}
HomeSeats == {r \in Sitting : CountryOf[r.person] = Home}
Attached == {p \in Sitters : ~Unattached(p)}

LEMMA OfficesFinite ==
  ASSUME RowsKept
  PROVE  /\ IsFiniteSet(CurrentRows) /\ IsFiniteSet(SeatRows)
         /\ IsFiniteSet(Sitting) /\ IsFiniteSet(HomeSeats)
         /\ IsFiniteSet(Sitters) /\ IsFiniteSet(Attached)
         /\ CurrentRows \subseteq MembershipKeys /\ Sitting \subseteq RoleKeys
<1>1. /\ CurrentRows \subseteq DOMAIN memberships /\ SeatRows \subseteq DOMAIN memberships
      /\ Sitting \subseteq DOMAIN roles /\ HomeSeats \subseteq DOMAIN roles
      /\ Attached \subseteq Sitters
  BY DEF CurrentRows, SeatRows, Sitting, Held, HomeSeats, Attached
<1>2. /\ IsFiniteSet(CurrentRows) /\ IsFiniteSet(SeatRows)
      /\ IsFiniteSet(Sitting) /\ IsFiniteSet(HomeSeats)
      /\ CurrentRows \subseteq MembershipKeys /\ Sitting \subseteq RoleKeys
  BY <1>1, FS_Subset DEF RowsKept
<1> DEFINE f == [r \in HomeSeats |-> r.person]
<1>3. f \in [HomeSeats -> Sitters]
  <2>1. \A r \in HomeSeats : r \in RoleKeys /\ r \in Sitting /\ CountryOf[r.person] = Home
    BY <1>2 DEF HomeSeats
  <2> QED
    BY <2>1 DEF Sitters, Sits, Persons
<1>4. \A p \in Sitters : \E r \in HomeSeats : f[r] = p
  BY DEF Sitters, Sits, HomeSeats
<1> HIDE DEF f
<1>5. IsFiniteSet(Sitters)
  BY <1>2, <1>3, <1>4, ImageOf
<1>6. IsFiniteSet(Attached)
  BY <1>1, <1>5, FS_Subset
<1> QED
  BY <1>2, <1>5, <1>6

LEMMA SeatsCounted ==
  ASSUME RowsKept
  PROVE  Seats(SeatDistribution(Home)) = Cardinality(SeatRows)
<1> DEFINE f == SeatDistribution(Home)
           tag == [k \in SeatRows |-> k.party]
<1>1. DOMAIN f = {k.party : k \in SeatRows}
  BY DEF SeatDistribution, SeatRows
<1>2. \A q \in DOMAIN f : f[q] = Cardinality({k \in MembersOf(q) : Sits(k.person)})
  BY DEF SeatDistribution
<1>3. \A q \in DOMAIN f :
         {k \in MembersOf(q) : Sits(k.person)} = {k \in SeatRows : tag[k] = q}
  BY <1>1 DEF MembersOf, SeatRows
<1>4. tag \in [SeatRows -> DOMAIN f]
  BY <1>1
<1> HIDE DEF f, tag
<1>5. Total(f) = Cardinality(SeatRows)
  BY <1>2, <1>3, <1>4, OfficesFinite, CountedByParts
<1> QED
  BY <1>5 DEF f, Seats

LEMMA SeatRowsOnce ==
  ASSUME RowsKept, OnePartyEach
  PROVE  Cardinality(SeatRows) = Cardinality(Attached)
<1> DEFINE f == [k \in SeatRows |-> k.person]
<1>1. ASSUME NEW k \in SeatRows
      PROVE  k.person \in Attached
  <2>1. k \in CurrentRows /\ CountryOf[k.person] = Home /\ Sits(k.person)
    BY DEF SeatRows, OnePartyEach
  <2>2. k.person \in Persons
    BY <2>1, OfficesFinite DEF Persons
  <2> QED
    BY <2>1, <2>2 DEF Attached, Sitters, Unattached
<1>2. ASSUME NEW p \in Attached
      PROVE  \E k \in SeatRows : f[k] = p
  <2>1. PICK k \in CurrentRows : k.person = p
    BY DEF Attached, Unattached
  <2>2. k \in SeatRows
    BY <2>1 DEF SeatRows, Attached, Sitters, OnePartyEach
  <2> QED
    BY <2>1, <2>2
<1>3. \A k, m \in SeatRows : f[k] = f[m] => k = m
  BY DEF SeatRows, OnePartyEach
<1>4. f \in [SeatRows -> Attached]
  BY <1>1
<1> HIDE DEF f
<1> QED
  BY <1>2, <1>3, <1>4, OfficesFinite, OneToOne

LEMMA UnattachedRest ==
  ASSUME RowsKept
  PROVE  /\ Unaffiliated(Home) = Cardinality(Sitters) - Cardinality(Attached)
         /\ Unaffiliated(Home) \in Nat
         /\ Cardinality(Sitters) \in Nat /\ Cardinality(Attached) \in Nat
<1>1. {p \in Persons : CountryOf[p] = Home /\ Sits(p) /\ Unattached(p)} = Sitters \ Attached
  BY DEF Sitters, Attached
<1>2. Sitters \cap Attached = Attached
  BY DEF Attached
<1>3. /\ IsFiniteSet(Sitters \ Attached)
      /\ Cardinality(Sitters \ Attached) = Cardinality(Sitters) - Cardinality(Attached)
  <2>1. IsFiniteSet(Sitters)
    BY OfficesFinite
  <2>2. /\ IsFiniteSet(Sitters \ Attached)
        /\ Cardinality(Sitters \ Attached)
              = Cardinality(Sitters) - Cardinality(Sitters \cap Attached)
    BY <2>1, FS_Difference, Zenon
  <2> QED
    BY <1>2, <2>2
<1> QED
  BY <1>1, <1>3, OfficesFinite, FS_CardinalityType DEF Unaffiliated

LEMMA CompositionWhole ==
  ASSUME RowsKept, OnePartyEach
  PROVE  Seats(SeatDistribution(Home)) + Unaffiliated(Home) = Cardinality(Sitters)
BY SeatsCounted, SeatRowsOnce, UnattachedRest

LEMMA PartyOf ==
  ASSUME RowsKept, OnePartyEach, NEW k \in CurrentRows
  PROVE  CurrentParty(k.person) = {k.party}
<1> DEFINE found == {m \in CurrentRows : m.person = k.person}
           of == {m.party : m \in found}
<1>1. found = {k}
  BY DEF OnePartyEach
<1>2. of = {k.party}
  BY <1>1
<1>3. PartyOrder[k.party] <= PartyOrder[k.party]
  BY OfficesFinite, OfficesAssumption
<1>4. CurrentParty(k.person) = IF of = {} THEN {} ELSE
         {CHOOSE q \in of : \A s \in of : PartyOrder[q] <= PartyOrder[s]}
  BY DEF CurrentParty
<1> HIDE DEF of
<1> QED
  BY <1>2, <1>3, <1>4

LEMMA HasParty ==
  ASSUME RowsKept, NEW p, CurrentParty(p) # {}
  PROVE  \E k \in CurrentRows : k.person = p
BY DEF CurrentParty

LEMMA SeatsOfParty ==
  ASSUME RowsKept, OnePartyEach, NEW q \in DOMAIN SeatDistribution(Home)
  PROVE  /\ SeatDistribution(Home)[q] = Cardinality({p \in Sitters : CurrentParty(p) = {q}})
         /\ ParliamentSeats(q) <= SeatDistribution(Home)[q]
         /\ SeatDistribution(Home)[q] <= MemberCounts(q)
<1> DEFINE X == {k \in MembersOf(q) : Sits(k.person)}
           Y == {p \in Sitters : CurrentParty(p) = {q}}
           mps == {k \in MembersOf(q) : \E r \in Held : r.person = k.person /\ r.type = "mp"}
           f == [k \in X |-> k.person]
<1>1. SeatDistribution(Home)[q] = Cardinality(X)
  BY DEF SeatDistribution
<1>2. CountryOf[q] = Home
  BY DEF SeatDistribution
<1>3. /\ X \subseteq MembersOf(q) /\ MembersOf(q) \subseteq CurrentRows
      /\ \A k \in MembersOf(q) : k.party = q
  BY DEF MembersOf
<1>4. IsFiniteSet(MembersOf(q)) /\ IsFiniteSet(X)
  BY <1>3, OfficesFinite, FS_Subset
<1>5. ASSUME NEW k \in X
      PROVE  k.person \in Y
  <2>1. CurrentParty(k.person) = {q}
    BY <1>3, PartyOf
  <2>2. k \in CurrentRows /\ CountryOf[k.person] = Home /\ Sits(k.person)
    BY <1>2, <1>3 DEF OnePartyEach
  <2>3. k.person \in Persons
    BY <2>2, OfficesFinite DEF Persons
  <2> QED
    BY <2>1, <2>2, <2>3 DEF Sitters
<1>6. ASSUME NEW p \in Y
      PROVE  \E k \in X : f[k] = p
  <2>1. PICK k \in CurrentRows : k.person = p
    BY HasParty
  <2>2. k.party = q
    BY <2>1, PartyOf
  <2>3. k \in X
    BY <2>1, <2>2 DEF MembersOf, Sitters
  <2> QED
    BY <2>1, <2>3
<1>7. \A k, m \in X : f[k] = f[m] => k = m
  BY <1>3 DEF OnePartyEach
<1>8. f \in [X -> Y]
  BY <1>5
<1> HIDE DEF f
<1>9. Cardinality(Y) = Cardinality(X)
  <2> HIDE DEF X, Y
  <2> QED
    BY <1>4, <1>6, <1>7, <1>8, OneToOne
<1>10. mps \subseteq X
  BY DEF Sits, Sitting, Legislative
<1>11. Cardinality(mps) <= Cardinality(X) /\ Cardinality(X) <= Cardinality(MembersOf(q))
  BY <1>3, <1>4, <1>10, FS_Subset
<1> QED
  BY <1>1, <1>9, <1>11 DEF ParliamentSeats, MemberCounts

LEMMA LeadersBelong ==
  ASSUME RowsKept, OnePartyEach, NEW q, NEW p \in Leaders(q)
  PROVE  CurrentParty(p) = {q}
<1>1. PICK k \in MembersOf(q) : k.person = p
  BY DEF Leaders
<1> QED
  BY <1>1, PartyOf DEF MembersOf

(* The seats of a chamber: each held by somebody of one party or of none.    *)
SeatsIn(org) == {r \in HomeSeats : r.org = org}
PairsIn(org) == {x \in ChamberSeats(Home) : x[2].org = org}

LEMMA PairsOfSeats ==
  ASSUME RowsKept, OnePartyEach, NEW org
  PROVE  /\ IsFiniteSet(PairsIn(org))
         /\ Cardinality(PairsIn(org)) = Cardinality({r \in SeatsIn(org) : ~Unattached(r.person)})
<1> DEFINE X == PairsIn(org)
           Y == {r \in SeatsIn(org) : ~Unattached(r.person)}
           f == [x \in X |-> x[2]]
<1>1. X \subseteq CurrentRows \X Sitting
  BY DEF PairsIn, ChamberSeats
<1>2. IsFiniteSet(X)
  BY <1>1, OfficesFinite, FS_Product, FS_Subset
<1>3. ASSUME NEW x \in X
      PROVE  /\ x = <<x[1], x[2]>> /\ x[1] \in CurrentRows /\ x[2] \in Sitting
             /\ x[1].person = x[2].person /\ CountryOf[x[2].person] = Home /\ x[2].org = org
  BY DEF PairsIn, ChamberSeats, OnePartyEach
<1>4. f \in [X -> Y]
  BY <1>3 DEF SeatsIn, HomeSeats, Unattached
<1>5. \A x, y \in X : f[x] = f[y] => x = y
  BY <1>3 DEF OnePartyEach
<1>6. ASSUME NEW r \in Y
      PROVE  \E x \in X : f[x] = r
  <2>1. PICK k \in CurrentRows : k.person = r.person
    BY DEF Unattached
  <2>2. <<k, r>> \in X
    BY <2>1 DEF PairsIn, ChamberSeats, SeatsIn, HomeSeats, OnePartyEach
  <2> QED
    BY <2>2
<1> HIDE DEF f
<1>7. Cardinality(Y) = Cardinality(X)
  BY <1>2, <1>4, <1>5, <1>6, OneToOne
<1> QED
  BY <1>2, <1>7

LEMMA ChamberWhole ==
  ASSUME RowsKept, OnePartyEach, NEW org \in DOMAIN Chambers(Home)
  PROVE  TotalOf(Chambers(Home)[org]) = Cardinality(SeatsIn(org))
<1> DEFINE ch == Chambers(Home)[org]
           f == ch.parties
           P == PairsIn(org)
           tag == [x \in P |-> x[1].party]
           A == {r \in SeatsIn(org) : ~Unattached(r.person)}
           B == {r \in SeatsIn(org) : Unattached(r.person)}
<1>1. /\ f = [q \in {x[1].party : x \in P} |-> Cardinality({x \in P : x[1].party = q})]
      /\ ch.independents = Cardinality(B)
  <2>1. {r \in Sitting : r.org = org /\ CountryOf[r.person] = Home /\ Unattached(r.person)} = B
    BY DEF SeatsIn, HomeSeats
  <2> QED
    BY <2>1 DEF Chambers, WithIndependents, PartiesByChamber, IndependentsOf, PairsIn
<1> HIDE DEF f, P, ch
<1>2. /\ DOMAIN f = {x[1].party : x \in P}
      /\ \A q \in DOMAIN f : f[q] = Cardinality({x \in P : tag[x] = q})
  <2>1. \A q : {x \in P : x[1].party = q} = {x \in P : tag[x] = q}
    OBVIOUS
  <2> QED
    BY <1>1, <2>1
<1>3. tag \in [P -> DOMAIN f]
  BY <1>2
<1>4. IsFiniteSet(P) /\ Cardinality(P) = Cardinality(A)
  BY PairsOfSeats DEF P
<1> HIDE DEF tag
<1>5. Total(f) = Cardinality(P)
  BY <1>2, <1>3, <1>4, CountedByParts
<1>6. SeatsIn(org) \subseteq HomeSeats
  BY DEF SeatsIn
<1>7. IsFiniteSet(SeatsIn(org)) /\ IsFiniteSet(A) /\ IsFiniteSet(B)
  BY <1>6, OfficesFinite, FS_Subset
<1>8. A \cup B = SeatsIn(org) /\ A \cap B = {}
  OBVIOUS
<1> HIDE DEF A, B
<1>9. Cardinality(A \cup B) = Cardinality(A) + Cardinality(B)
  BY <1>7, <1>8, FS_Union, FS_EmptySet, FS_CardinalityType
<1> QED
  BY <1>1, <1>4, <1>5, <1>8, <1>9 DEF TotalOf, Seats, ch, f

(* The chambers account for every seat held, but for those where nobody has  *)
(* a party.                                                                  *)
Lost == {r \in Sitting : CountryOf[r.person] = Home /\ r.org \notin DOMAIN Chambers(Home)}

LEMMA ChambersWhole ==
  ASSUME RowsKept, OnePartyEach, OneSeatEach
  PROVE  /\ Total([org \in DOMAIN Chambers(Home) |-> TotalOf(Chambers(Home)[org])])
               = Cardinality(Sitters) - Cardinality(Lost)
         /\ \A r \in Lost : Unattached(r.person)
<1> DEFINE ch == Chambers(Home)
           f == [org \in DOMAIN ch |-> TotalOf(ch[org])]
           A == HomeSeats \ Lost
           tag == [r \in A |-> r.org]
           g == [r \in HomeSeats |-> r.person]
<1>1. \A r \in A : r.org \in DOMAIN ch
  BY DEF HomeSeats, Lost
<1>2. IsFiniteSet(A) /\ Cardinality(A) = Cardinality(HomeSeats) - Cardinality(Lost)
  <2>1. HomeSeats \cap Lost = Lost
    BY DEF HomeSeats, Lost
  <2>2. IsFiniteSet(HomeSeats)
    BY OfficesFinite
  <2>3. /\ IsFiniteSet(HomeSeats \ Lost)
        /\ Cardinality(HomeSeats \ Lost)
              = Cardinality(HomeSeats) - Cardinality(HomeSeats \cap Lost)
    BY <2>2, FS_Difference, Zenon
  <2> QED
    BY <2>1, <2>3
<1>3. ASSUME NEW org \in DOMAIN f
      PROVE  Cardinality({r \in A : tag[r] = org}) = f[org]
  <2>1. {r \in A : tag[r] = org} = SeatsIn(org)
    BY DEF SeatsIn, HomeSeats, Lost
  <2> QED
    BY <2>1, ChamberWhole
<1>4. tag \in [A -> DOMAIN f]
  BY <1>1
<1>5. g \in [HomeSeats -> Sitters]
  <2>1. \A r \in HomeSeats : r \in RoleKeys /\ r \in Sitting /\ CountryOf[r.person] = Home
    BY OfficesFinite DEF HomeSeats
  <2> QED
    BY <2>1 DEF Sitters, Sits, Persons
<1>6. \A p \in Sitters : \E r \in HomeSeats : g[r] = p
  BY DEF Sitters, Sits, HomeSeats
<1>7. \A r, s \in HomeSeats : g[r] = g[s] => r = s
  BY DEF HomeSeats, OneSeatEach
<1> HIDE DEF f, tag, A, g
<1>8. Total(f) = Cardinality(A)
  BY <1>2, <1>3, <1>4, CountedByParts
<1>9. Cardinality(Sitters) = Cardinality(HomeSeats)
  BY <1>5, <1>6, <1>7, OfficesFinite, OneToOne
<1>10. ASSUME NEW r \in Lost
       PROVE  Unattached(r.person)
  <2> SUFFICES ASSUME NEW k \in CurrentRows, k.person = r.person
               PROVE  FALSE
    BY DEF Unattached
  <2>1. <<k, r>> \in ChamberSeats(Home)
    BY DEF ChamberSeats, Lost, OnePartyEach
  <2>2. r.org \in DOMAIN Chambers(Home)
    BY <2>1 DEF Chambers, WithIndependents, PartiesByChamber
  <2> QED
    BY <2>2 DEF Lost
<1> QED
  BY <1>2, <1>8, <1>9, <1>10 DEF f

LEMMA SmallestOf ==
  ASSUME NEW S, S \subseteq Nat, S # {}
  PROVE  \E n \in S : \A m \in S : n <= m
<1>1. PICK n \in S : \A m \in S : <<m, n>> \notin OpToRel(<, Nat)
  BY NatLessThanWellFounded, WFMin, Zenon
<1>2. \A m \in S : ~(m < n)
  BY <1>1 DEF OpToRel
<1> QED
  BY <1>2

LEMMA ChamberSizeKnown == ChamberSize \in Nat
<1> DEFINE past == {e \in PastElections : e.kind = "parliamentary"}
           latest == {e \in past : \A f \in past : f.held <= e.held}
           above(e) == {f \in past : f.held > e.held}
           ranks == {Cardinality(above(e)) : e \in past}
<1>1. CASE past = {}
  BY <1>1 DEF ChamberSize
<1>2. CASE past # {}
  <2>1. IsFiniteSet(past) /\ \A e \in past : e.held \in Nat /\ e.seats \in Nat
    BY OfficesAssumption, FS_Subset
  <2>2. \A e \in past : IsFiniteSet(above(e)) /\ Cardinality(above(e)) \in Nat
    BY <2>1, FS_Subset, FS_CardinalityType
  <2>3. PICK n \in ranks : \A m \in ranks : n <= m
    <3>1. ranks \subseteq Nat /\ ranks # {}
      BY <1>2, <2>2
    <3> HIDE DEF ranks
    <3> QED
      BY <3>1, SmallestOf
  <2>4. PICK e \in past : n = Cardinality(above(e))
    OBVIOUS
  <2>5. e \in latest
    <3> SUFFICES ASSUME NEW f \in past, ~(f.held <= e.held)
                 PROVE  FALSE
      OBVIOUS
    <3>1. f.held > e.held
      BY <2>1
    <3>2. above(f) \subseteq above(e) /\ f \in above(e) /\ f \notin above(f)
      BY <2>1, <3>1
    <3> DEFINE a == above(f)
               b == above(e)
    <3>3. IsFiniteSet(b) /\ a \in SUBSET b /\ a # b /\ Cardinality(a) \in Nat /\ Cardinality(b) \in Nat
      BY <2>2, <3>2
    <3> HIDE DEF a, b
    <3>4. Cardinality(a) < Cardinality(b)
      BY <3>3, FS_Subset
    <3>5. Cardinality(b) <= Cardinality(a)
      BY <2>3, <2>4 DEF a, b
    <3> QED
      BY <3>3, <3>4, <3>5
  <2>6. ChamberSize = (CHOOSE x \in latest : TRUE).seats
    BY <1>2 DEF ChamberSize
  <2>7. (CHOOSE x \in latest : TRUE) \in latest
    BY <2>5
  <2> QED
    BY <2>1, <2>6, <2>7
<1> QED
  BY <1>1, <1>2

-----------------------------------------------------------------------------
(* Offices: a page is put together while rows are written.                   *)

(* Two counts are at most d apart.                                           *)
Within(x, y, d) == x - y <= d /\ y - x <= d

LEMMA OneApart ==
  ASSUME NEW S, NEW T, NEW x, IsFiniteSet(S), IsFiniteSet(T), S \ {x} = T \ {x}
  PROVE  /\ Cardinality(S) \in Nat /\ Cardinality(T) \in Nat
         /\ Within(Cardinality(S), Cardinality(T), 1)
<1> DEFINE R == S \ {x}
<1>1. /\ Cardinality(S) \in Nat /\ Cardinality(T) \in Nat
      /\ IsFiniteSet(R) /\ Cardinality(R) \in Nat
  BY FS_CardinalityType, FS_RemoveElement
<1>2. /\ Cardinality(R) = IF x \in S THEN Cardinality(S) - 1 ELSE Cardinality(S)
      /\ Cardinality(R) = IF x \in T THEN Cardinality(T) - 1 ELSE Cardinality(T)
  BY FS_RemoveElement
<1> HIDE DEF R
<1> QED
  BY <1>1, <1>2 DEF Within

LEMMA Stale ==
  ASSUME NEW x \in Nat, NEW y \in Nat, NEW z \in Nat, NEW d \in Nat,
         Within(x, y, d), Within(y, z, 1)
  PROVE  Within(x, z, d + 1)
BY DEF Within

(* What the page under way has read is at most as many people off as rows    *)
(* were written since.                                                       *)
ReadWell ==
    consulted # NothingRead =>
        LET since == consulted.since
            total == Seats(consulted.seats)
        IN /\ consulted.at \in {"seats", "independents", "chambers"}
           /\ since \in Nat /\ since <= writes /\ consulted.single \in BOOLEAN
           /\ total \in Nat
           /\ consulted.at = "seats" =>
                (consulted.single => Within(total, Cardinality(Attached), writes - since))
           /\ consulted.at # "seats" =>
                /\ consulted.independents \in Nat
                /\ consulted.single => Within(total + consulted.independents,
                                              Cardinality(Sitters), writes - since)

ServedWell ==
    country # NothingRead =>
        LET total == Seats(country.seats) + country.independents
        IN /\ country.during \in 0..MaxWrites /\ country.independents \in Nat
           /\ country.vacant > 0 => country.vacant + total = ChamberSize
           /\ country.single => Abs(total - country.sitting) <= country.during

OfficesInv ==
    /\ RowsKept
    /\ \A k \in DOMAIN memberships : memberships[k] \in BOOLEAN
    /\ \A r \in DOMAIN roles : roles[r] \in BOOLEAN
    /\ writes \in 0..MaxWrites /\ visited \in 0..MaxCountryPages
    /\ ReadWell /\ ServedWell

LEMMA OfficesInvEnough == OfficesInv => OfficesTypeOK /\ SeatedOnce
<1> SUFFICES ASSUME OfficesInv PROVE OfficesTypeOK /\ SeatedOnce
  OBVIOUS
<1>1. OfficesTypeOK
  BY DEF OfficesInv, OfficesTypeOK, RowsKept, ReadWell, ServedWell
<1>2. ASSUME OnePartyEach
      PROVE  LET seats == SeatDistribution(Home)
             IN /\ Seats(seats) + Unaffiliated(Home) = Cardinality(Sitters)
                /\ \A q \in DOMAIN seats :
                     /\ seats[q] = Cardinality({p \in Sitters : CurrentParty(p) = {q}})
                     /\ ParliamentSeats(q) <= seats[q] /\ seats[q] <= MemberCounts(q)
                /\ \A q \in {k.party : k \in MembershipKeys} :
                     \A p \in Leaders(q) : CurrentParty(p) = {q}
  BY <1>2, CompositionWhole, SeatsOfParty, LeadersBelong DEF OfficesInv
<1>3. ASSUME OnePartyEach, OneSeatEach
      PROVE  LET chambers == Chambers(Home)
                 lost == {r \in Sitting : /\ CountryOf[r.person] = Home
                                          /\ r.org \notin DOMAIN chambers}
             IN /\ Total([org \in DOMAIN chambers |-> TotalOf(chambers[org])])
                       = Cardinality(Sitters) - Cardinality(lost)
                /\ \A r \in lost : Unattached(r.person)
  BY <1>3, ChambersWhole DEF OfficesInv, Lost
<1>4. country # NothingRead =>
        LET total == Seats(country.seats) + country.independents
        IN /\ country.vacant > 0 => country.vacant + total = ChamberSize
           /\ country.single => Abs(total - country.sitting) <= country.during
  BY DEF OfficesInv, ServedWell
<1> QED
  BY <1>1, <1>2, <1>3, <1>4 DEF SeatedOnce

RowsByKey(f, S) ==
    /\ IsFiniteSet(DOMAIN f) /\ DOMAIN f \subseteq S /\ \A k \in DOMAIN f : f[k] \in BOOLEAN
OnlyAt(g, f, S, k) ==
    /\ \A x \in S \ {k} : x \in DOMAIN g <=> x \in DOMAIN f
    /\ \A x \in DOMAIN f \ {k} : g[x] = f[x]

LEMMA PutRow ==
  ASSUME NEW S, NEW f, RowsByKey(f, S), NEW k \in S, NEW ended \in BOOLEAN
  PROVE  RowsByKey(Put(f, k, ended), S) /\ OnlyAt(Put(f, k, ended), f, S, k)
<1>1. DOMAIN Put(f, k, ended) = DOMAIN f \cup {k}
  BY DEF Put
<1>2. IsFiniteSet(DOMAIN f \cup {k})
  BY FS_AddElement DEF RowsByKey
<1> QED
  BY <1>1, <1>2 DEF Put, RowsByKey, OnlyAt

(* A row written makes one person more, or one less, of those who sit and of *)
(* those of them who have a party.                                           *)
LEMMA RowsWritten ==
  ASSUME OfficesInv,
         \/ \E k \in MembershipKeys, ended \in BOOLEAN : UpsertMembership(k, ended)
         \/ \E r \in RoleKeys, ended \in BOOLEAN : UpsertRole(r, ended)
  PROVE  /\ RowsKept'
         /\ \A k \in DOMAIN memberships' : memberships'[k] \in BOOLEAN
         /\ \A r \in DOMAIN roles' : roles'[r] \in BOOLEAN
         /\ writes' = writes + 1 /\ writes' \in 0..MaxWrites
         /\ UNCHANGED <<consulted, country, visited>>
         /\ \E p : Sitters' \ {p} = Sitters \ {p} /\ Attached' \ {p} = Attached \ {p}
<1>1. ASSUME NEW k \in MembershipKeys, NEW ended \in BOOLEAN, UpsertMembership(k, ended)
      PROVE  /\ RowsKept'
             /\ \A x \in DOMAIN memberships' : memberships'[x] \in BOOLEAN
             /\ roles' = roles
             /\ \E p : Sitters' \ {p} = Sitters \ {p} /\ Attached' \ {p} = Attached \ {p}
  <2>1. memberships' = Put(memberships, k, ended) /\ roles' = roles
    BY <1>1 DEF UpsertMembership
  <2>r. RowsByKey(memberships, MembershipKeys)
    BY DEF OfficesInv, RowsKept, RowsByKey
  <2>2. RowsByKey(memberships', MembershipKeys) /\ OnlyAt(memberships', memberships, MembershipKeys, k)
    BY <2>1, <2>r, PutRow
  <2>3. RowsKept'
    BY <2>1, <2>2 DEF OfficesInv, RowsKept, RowsByKey
  <2>4. Sitters' = Sitters
    BY <2>1 DEF Sitters, Sits, Sitting, Held
  <2>5. CurrentRows' \ {k} = CurrentRows \ {k}
    BY <2>2 DEF CurrentRows, OfficesInv, RowsKept, RowsByKey, OnlyAt
  <2>6. \A p : p # k.person => (Unattached(p)' <=> Unattached(p))
    BY <2>5 DEF Unattached
  <2>7. Attached' \ {k.person} = Attached \ {k.person}
    BY <2>4, <2>6 DEF Attached
  <2> QED
    BY <2>1, <2>2, <2>3, <2>4, <2>7 DEF RowsByKey
<1>2. ASSUME NEW r \in RoleKeys, NEW ended \in BOOLEAN, UpsertRole(r, ended)
      PROVE  /\ RowsKept'
             /\ \A x \in DOMAIN roles' : roles'[x] \in BOOLEAN
             /\ memberships' = memberships
             /\ \E p : Sitters' \ {p} = Sitters \ {p} /\ Attached' \ {p} = Attached \ {p}
  <2>1. roles' = Put(roles, r, ended) /\ memberships' = memberships
    BY <1>2 DEF UpsertRole
  <2>r. RowsByKey(roles, RoleKeys)
    BY DEF OfficesInv, RowsKept, RowsByKey
  <2>2. RowsByKey(roles', RoleKeys) /\ OnlyAt(roles', roles, RoleKeys, r)
    BY <2>1, <2>r, PutRow
  <2>3. RowsKept'
    BY <2>1, <2>2 DEF OfficesInv, RowsKept, RowsByKey
  <2>4. Sitting' \ {r} = Sitting \ {r}
    BY <2>2 DEF Sitting, Held, OfficesInv, RowsKept, RowsByKey, OnlyAt
  <2>5. \A p : p # r.person => (Sits(p)' <=> Sits(p))
    BY <2>4 DEF Sits
  <2>6. Sitters' \ {r.person} = Sitters \ {r.person}
    BY <2>5 DEF Sitters
  <2>7. \A p : Unattached(p)' <=> Unattached(p)
    BY <2>1 DEF Unattached, CurrentRows
  <2>8. Attached' \ {r.person} = Attached \ {r.person}
    BY <2>6, <2>7 DEF Attached
  <2> QED
    BY <2>1, <2>2, <2>3, <2>6, <2>8 DEF RowsByKey
<1>3. /\ UNCHANGED <<consulted, country, visited>>
      /\ writes' = writes + 1 /\ writes < MaxWrites
  BY DEF UpsertMembership, UpsertRole, Write
<1>4. writes' \in 0..MaxWrites
  BY <1>3, OfficesAssumption DEF OfficesInv
<1> QED
  BY <1>1, <1>2, <1>3, <1>4 DEF OfficesInv

LEMMA WriteKeeps ==
  ASSUME OfficesInv,
         \/ \E k \in MembershipKeys, ended \in BOOLEAN : UpsertMembership(k, ended)
         \/ \E r \in RoleKeys, ended \in BOOLEAN : UpsertRole(r, ended)
  PROVE  OfficesInv'
<1>1. /\ RowsKept'
      /\ \A k \in DOMAIN memberships' : memberships'[k] \in BOOLEAN
      /\ \A r \in DOMAIN roles' : roles'[r] \in BOOLEAN
      /\ writes' = writes + 1 /\ writes' \in 0..MaxWrites
      /\ UNCHANGED <<consulted, country, visited>>
  BY RowsWritten
<1>2. PICK p : Sitters' \ {p} = Sitters \ {p} /\ Attached' \ {p} = Attached \ {p}
  BY RowsWritten
<1>3. RowsKept /\ writes \in Nat
  BY OfficesAssumption DEF OfficesInv
<1>4. IsFiniteSet(Sitters) /\ IsFiniteSet(Attached)
  BY <1>3, OfficesFinite
<1>5. IsFiniteSet(Sitters') /\ IsFiniteSet(Attached')
  <2>1. Sitters' \subseteq Sitters \cup {p} /\ Attached' \subseteq Attached \cup {p}
    BY <1>2
  <2> QED
    BY <1>4, <2>1, FS_AddElement, FS_Subset
<1>6. /\ Cardinality(Sitters) \in Nat /\ Cardinality(Sitters') \in Nat
      /\ Within(Cardinality(Sitters), Cardinality(Sitters'), 1)
  BY <1>2, <1>4, <1>5, OneApart
<1>7. /\ Cardinality(Attached) \in Nat /\ Cardinality(Attached') \in Nat
      /\ Within(Cardinality(Attached), Cardinality(Attached'), 1)
  BY <1>2, <1>4, <1>5, OneApart
<1>8. ReadWell'
  <2> DEFINE since == consulted.since
             total == Seats(consulted.seats)
             d == writes - since
  <2> SUFFICES ASSUME consulted # NothingRead
               PROVE  /\ consulted.at \in {"seats", "independents", "chambers"}
                      /\ since \in Nat /\ since <= writes' /\ consulted.single \in BOOLEAN
                      /\ total \in Nat
                      /\ consulted.at = "seats" =>
                           (consulted.single =>
                               Within(total, Cardinality(Attached'), writes' - since))
                      /\ consulted.at # "seats" =>
                           /\ consulted.independents \in Nat
                           /\ consulted.single => Within(total + consulted.independents,
                                                         Cardinality(Sitters'), writes' - since)
    BY <1>1 DEF ReadWell
  <2>1. /\ consulted.at \in {"seats", "independents", "chambers"}
        /\ since \in Nat /\ since <= writes /\ consulted.single \in BOOLEAN /\ total \in Nat
        /\ consulted.at = "seats" => (consulted.single => Within(total, Cardinality(Attached), d))
        /\ consulted.at # "seats" =>
             /\ consulted.independents \in Nat
             /\ consulted.single =>
                  Within(total + consulted.independents, Cardinality(Sitters), d)
    BY DEF OfficesInv, ReadWell
  <2> HIDE DEF total, since
  <2>2. d \in Nat /\ since <= writes' /\ writes' - since = d + 1
    BY <1>1, <1>3, <2>1
  <2> HIDE DEF d
  <2>3. ASSUME consulted.at = "seats", consulted.single
        PROVE  Within(total, Cardinality(Attached'), d + 1)
    BY <1>7, <2>1, <2>2, <2>3, Stale
  <2>4. ASSUME consulted.at # "seats", consulted.single
        PROVE  Within(total + consulted.independents, Cardinality(Sitters'), d + 1)
    <3> DEFINE x == total + consulted.independents
    <3>1. x \in Nat /\ Within(x, Cardinality(Sitters), d)
      BY <2>1, <2>4
    <3> HIDE DEF x
    <3>2. Within(x, Cardinality(Sitters'), d + 1)
      BY <1>6, <2>2, <3>1, Stale
    <3> QED
      BY <3>2 DEF x
  <2> QED
    BY <2>1, <2>2, <2>3, <2>4
<1>9. ServedWell'
  BY <1>1 DEF OfficesInv, ServedWell, ChamberSize
<1> QED
  BY <1>1, <1>8, <1>9 DEF OfficesInv

LEMMA RowsStay ==
  ASSUME OfficesInv, UNCHANGED <<memberships, roles, writes>>, visited' \in 0..MaxCountryPages
  PROVE  /\ Sitters' = Sitters /\ Attached' = Attached
         /\ ReadWell' /\ ServedWell' => OfficesInv'
<1>1. Sitters' = Sitters
  BY DEF Sitters, Sits, Sitting, Held
<1>2. Attached' = Attached
  BY <1>1 DEF Attached, Unattached, CurrentRows
<1> QED
  BY <1>1, <1>2 DEF OfficesInv, RowsKept

LEMMA ReadSeatsKeeps ==
  ASSUME OfficesInv, ReadSeats
  PROVE  OfficesInv'
<1> DEFINE f == SeatDistribution(Home)
<1>1. /\ consulted' = [at |-> "seats", seats |-> f, since |-> writes, single |-> OnePartyEach]
      /\ UNCHANGED <<memberships, roles, country, writes>>
      /\ visited' = visited + 1 /\ visited < MaxCountryPages
  BY DEF ReadSeats
<1>2. visited' \in 0..MaxCountryPages /\ writes \in Nat
  BY <1>1, OfficesAssumption DEF OfficesInv
<1>3. RowsKept
  BY DEF OfficesInv
<1>4. Seats(f) \in Nat /\ Cardinality(Attached) \in Nat
  BY <1>3, SeatsCounted, OfficesFinite, FS_CardinalityType
<1>5. OnePartyEach => Seats(f) = Cardinality(Attached)
  BY <1>3, SeatsCounted, SeatRowsOnce
<1>6. OnePartyEach \in BOOLEAN
  BY DEF OnePartyEach
<1> HIDE DEF f
<1>7. /\ consulted'.at = "seats" /\ consulted'.seats = f /\ consulted'.since = writes
      /\ consulted'.single = OnePartyEach
  BY <1>1
<1>8. Attached' = Attached /\ (ReadWell' /\ ServedWell' => OfficesInv')
  BY <1>1, <1>2, RowsStay
<1>9. OnePartyEach => Within(Seats(f), Cardinality(Attached), 0)
  BY <1>4, <1>5 DEF Within
<1>10. ReadWell'
  BY <1>1, <1>2, <1>4, <1>6, <1>7, <1>8, <1>9 DEF ReadWell
<1>11. ServedWell'
  BY <1>1 DEF OfficesInv, ServedWell, ChamberSize
<1> QED
  BY <1>8, <1>10, <1>11

LEMMA ReadIndependentsKeeps ==
  ASSUME OfficesInv, ReadIndependents
  PROVE  OfficesInv'
<1> DEFINE since == consulted.since
           f == consulted.seats
           total == Seats(f)
           free == Unaffiliated(Home)
           single == consulted.single /\ OnePartyEach
           d == writes - since
<1>1. /\ consulted.at = "seats"
      /\ consulted' = [at |-> "independents", seats |-> f, independents |-> free,
                       since |-> since, single |-> single]
      /\ UNCHANGED <<memberships, roles, country, writes, visited>>
  BY DEF ReadIndependents
<1>2. /\ since \in Nat /\ since <= writes /\ consulted.single \in BOOLEAN /\ total \in Nat
      /\ consulted.single => Within(total, Cardinality(Attached), d)
  BY <1>1 DEF OfficesInv, ReadWell, NothingRead
<1>3. RowsKept /\ writes \in Nat /\ visited \in 0..MaxCountryPages
  BY OfficesAssumption DEF OfficesInv
<1>4. /\ free = Cardinality(Sitters) - Cardinality(Attached) /\ free \in Nat
      /\ Cardinality(Sitters) \in Nat /\ Cardinality(Attached) \in Nat
  BY <1>3, UnattachedRest
<1>5. d \in Nat
  BY <1>2, <1>3
<1>6. /\ consulted'.at = "independents" /\ consulted'.seats = f /\ consulted'.independents = free
      /\ consulted'.since = since /\ consulted'.single = single
  BY <1>1
<1>7. Sitters' = Sitters /\ (ReadWell' /\ ServedWell' => OfficesInv')
  BY <1>1, <1>3, RowsStay
<1>8. single \in BOOLEAN
  BY <1>2 DEF OnePartyEach
<1> HIDE DEF f, since, free, total, d
<1>9. single => Within(total + free, Cardinality(Sitters), d)
  BY <1>2, <1>4, <1>5 DEF Within
<1> HIDE DEF single
<1>10. ReadWell'
  BY <1>1, <1>2, <1>4, <1>6, <1>7, <1>8, <1>9 DEF ReadWell, total, d
<1>11. ServedWell'
  BY <1>1 DEF OfficesInv, ServedWell, ChamberSize
<1> QED
  BY <1>7, <1>10, <1>11

LEMMA ReadChambersKeeps ==
  ASSUME OfficesInv, ReadChambers
  PROVE  OfficesInv'
<1>1. /\ consulted.at = "independents" /\ consulted # NothingRead
      /\ consulted'.at = "chambers" /\ consulted'.seats = consulted.seats
      /\ consulted'.independents = consulted.independents
      /\ consulted'.since = consulted.since /\ consulted'.single = consulted.single
      /\ UNCHANGED <<memberships, roles, country, writes, visited>>
  BY DEF ReadChambers, NothingRead
<1>2. visited' \in 0..MaxCountryPages
  BY <1>1 DEF OfficesInv
<1>3. Sitters' = Sitters /\ (ReadWell' /\ ServedWell' => OfficesInv')
  BY <1>1, <1>2, RowsStay
<1>4. ReadWell'
  BY <1>1, <1>3 DEF OfficesInv, ReadWell
<1>5. ServedWell'
  BY <1>1 DEF OfficesInv, ServedWell, ChamberSize
<1> QED
  BY <1>3, <1>4, <1>5

LEMMA ServeKeeps ==
  ASSUME OfficesInv, ServeCountry
  PROVE  OfficesInv'
<1> DEFINE f == consulted.seats
           free == consulted.independents
           total == Seats(f) + free
           v == country'.vacant
           n == country'.sitting
           d == country'.during
<1>1. /\ consulted.at = "chambers" /\ consulted' = NothingRead
      /\ UNCHANGED <<memberships, roles, writes, visited>>
      /\ country'.seats = f /\ country'.independents = free
      /\ v = 0 \/ v = ChamberSize - total
      /\ d = writes - consulted.since /\ country'.single = consulted.single
      /\ n = Cardinality(Sitters)
  BY DEF ServeCountry
<1>2. /\ consulted.since \in Nat /\ consulted.since <= writes /\ consulted.single \in BOOLEAN
      /\ Seats(f) \in Nat /\ free \in Nat
      /\ consulted.single => Within(total, Cardinality(Sitters), writes - consulted.since)
  BY <1>1 DEF OfficesInv, ReadWell, NothingRead
<1>3. RowsKept /\ writes \in 0..MaxWrites /\ MaxWrites \in Nat /\ visited \in 0..MaxCountryPages
  BY OfficesAssumption DEF OfficesInv
<1>4. n \in Nat
  BY <1>1, <1>3, UnattachedRest
<1>5. d \in 0..MaxWrites
  BY <1>1, <1>2, <1>3
<1>6. total \in Nat /\ ChamberSize \in Nat
  BY <1>2, ChamberSizeKnown
<1>7. country'.single => Within(total, n, d)
  BY <1>1, <1>2
<1>8. ReadWell' /\ (ReadWell' /\ ServedWell' => OfficesInv')
  BY <1>1, <1>3, RowsStay DEF ReadWell
<1>9. ChamberSize' = ChamberSize
  BY DEF ChamberSize
<1> HIDE DEF total, v, n, d
<1>10. v > 0 => v + total = ChamberSize
  BY <1>1, <1>6
<1>11. country'.single => Abs(total - n) <= d
  BY <1>4, <1>5, <1>6, <1>7 DEF Within, Abs
<1>12. Seats(country'.seats) + country'.independents = total
  BY <1>1 DEF total
<1>13. ServedWell'
  BY <1>1, <1>2, <1>5, <1>9, <1>10, <1>11, <1>12 DEF ServedWell, v, n, d
<1> QED
  BY <1>8, <1>13

LEMMA OfficesInitInv == OfficesInit => OfficesInv
<1> SUFFICES ASSUME OfficesInit PROVE OfficesInv
  OBVIOUS
<1>1. RowsKept
  BY FS_EmptySet DEF OfficesInit, RowsKept
<1> QED
  BY <1>1, OfficesAssumption DEF OfficesInit, OfficesInv, ReadWell, ServedWell

LEMMA OfficesStepInv == OfficesInv /\ [OfficesNext]_officesVars => OfficesInv'
<1> SUFFICES ASSUME OfficesInv, [OfficesNext]_officesVars PROVE OfficesInv'
  OBVIOUS
<1>1. ASSUME UNCHANGED officesVars
      PROVE  OfficesInv'
  <2>1. UNCHANGED <<memberships, roles, consulted, country, writes, visited>>
    BY <1>1 DEF officesVars
  <2>2. /\ visited \in 0..MaxCountryPages
        /\ Sitters' = Sitters /\ Attached' = Attached
        /\ ReadWell' /\ ServedWell' => OfficesInv'
    BY <2>1, RowsStay DEF OfficesInv
  <2>3. ReadWell' /\ ServedWell'
    BY <2>1, <2>2 DEF OfficesInv, ReadWell, ServedWell, ChamberSize
  <2> QED
    BY <2>2, <2>3
<1>2. ASSUME \/ \E k \in MembershipKeys, ended \in BOOLEAN : UpsertMembership(k, ended)
             \/ \E r \in RoleKeys, ended \in BOOLEAN : UpsertRole(r, ended)
      PROVE  OfficesInv'
  BY <1>2, WriteKeeps
<1>3. ASSUME ReadSeats PROVE OfficesInv'
  BY <1>3, ReadSeatsKeeps
<1>4. ASSUME ReadIndependents PROVE OfficesInv'
  BY <1>4, ReadIndependentsKeeps
<1>5. ASSUME ReadChambers PROVE OfficesInv'
  BY <1>5, ReadChambersKeeps
<1>6. ASSUME ServeCountry PROVE OfficesInv'
  BY <1>6, ServeKeeps
<1> QED
  BY <1>1, <1>2, <1>3, <1>4, <1>5, <1>6 DEF OfficesNext

(* Whatever rows come and end, however often and in whatever order: once     *)
(* nobody has two parties, the parties' seats and the independents are those *)
(* who sit, per party, per chamber and in the lists; and a page put together *)
(* while n rows are written is off by no more than n.                        *)
THEOREM SeatedOnceAlways == OfficesSpec => []SeatedOnce
<1>1. OfficesInv => SeatedOnce
  BY OfficesInvEnough
<1> QED
  BY <1>1, OfficesInitInv, OfficesStepInv, PTL DEF OfficesSpec

-----------------------------------------------------------------------------
(* Totals of parts, and shares.                                              *)

LEMMA UnitsFinite ==
  ASSUME NEW f, IsFiniteSet(DOMAIN f), \A x \in DOMAIN f : f[x] \in Nat
  PROVE  IsFiniteSet(Units(f)) /\ Total(f) \in Nat
<1> DEFINE D == DOMAIN f
           piece == [x \in D |-> {x} \X (1..f[x])]
           parts == {{x} \X (1..f[x]) : x \in D}
<1>1. piece \in [D -> parts] /\ \A t \in parts : \E x \in D : piece[x] = t
  OBVIOUS
<1>2. ASSUME NEW x \in D
      PROVE  IsFiniteSet({x} \X (1..f[x]))
  <2>1. IsFiniteSet(1..f[x]) /\ IsFiniteSet({x})
    BY UpTo, FS_Singleton
  <2> QED
    BY <2>1, FS_Product
<1>3. \A t \in parts : IsFiniteSet(t)
  BY <1>2
<1>4. Units(f) = UNION parts
  BY DEF Units
<1> HIDE DEF parts, piece
<1>5. IsFiniteSet(parts)
  BY <1>1, ImageOf
<1> QED
  BY <1>3, <1>4, <1>5, FS_UNION, FS_CardinalityType DEF Total

(* The total of two parts.                                                   *)
InTwo(f, g, h) ==
    /\ IsFiniteSet(DOMAIN f) /\ \A x \in DOMAIN f : f[x] \in Nat
    /\ DOMAIN f = DOMAIN g \cup DOMAIN h /\ DOMAIN g \cap DOMAIN h = {}
    /\ \A x \in DOMAIN g : g[x] = f[x]
    /\ \A x \in DOMAIN h : h[x] = f[x]

LEMMA TotalOfParts ==
  ASSUME NEW f, NEW g, NEW h, InTwo(f, g, h)
  PROVE  /\ Total(f) = Total(g) + Total(h)
         /\ Total(f) \in Nat /\ Total(g) \in Nat /\ Total(h) \in Nat
<1>0. /\ IsFiniteSet(DOMAIN f) /\ \A x \in DOMAIN f : f[x] \in Nat
      /\ DOMAIN f = DOMAIN g \cup DOMAIN h /\ DOMAIN g \cap DOMAIN h = {}
      /\ \A x \in DOMAIN g : g[x] = f[x]
      /\ \A x \in DOMAIN h : h[x] = f[x]
  BY DEF InTwo
<1>1. IsFiniteSet(DOMAIN g) /\ IsFiniteSet(DOMAIN h)
  BY <1>0, FS_Subset
<1>2. /\ IsFiniteSet(Units(g)) /\ Total(g) \in Nat
      /\ IsFiniteSet(Units(h)) /\ Total(h) \in Nat
      /\ Total(f) \in Nat
  BY <1>0, <1>1, UnitsFinite
<1>3. \A k : \A u : u \in Units(k) <=> \E x \in DOMAIN k : \E i \in 1..k[x] : u = <<x, i>>
  BY DEF Units
<1>4. /\ \A u : u \in Units(f) <=> \E x \in DOMAIN f : \E i \in 1..f[x] : u = <<x, i>>
      /\ \A u : u \in Units(g) <=> \E x \in DOMAIN g : \E i \in 1..f[x] : u = <<x, i>>
      /\ \A u : u \in Units(h) <=> \E x \in DOMAIN h : \E i \in 1..f[x] : u = <<x, i>>
  BY <1>0, <1>3
<1>u. Units(f) = Units(g) \cup Units(h)
  BY <1>0, <1>4
<1>i. Units(g) \cap Units(h) = {}
  <2>1. \A u \in Units(g) : u[1] \in DOMAIN g
    BY <1>4
  <2>2. \A u \in Units(h) : u[1] \in DOMAIN h
    BY <1>4
  <2> QED
    BY <1>0, <2>1, <2>2
<1>5. Cardinality(Units(g) \cup Units(h)) = Cardinality(Units(g)) + Cardinality(Units(h))
  <2> DEFINE X == Units(g)
             Y == Units(h)
  <2>1. IsFiniteSet(X) /\ IsFiniteSet(Y) /\ Cardinality(X) \in Nat /\ Cardinality(Y) \in Nat
    BY <1>2 DEF Total
  <2>2. X \cap Y = {} /\ Cardinality({}) = 0
    BY <1>i, FS_EmptySet
  <2> HIDE DEF X, Y
  <2>3. Cardinality(X \cup Y) = Cardinality(X) + Cardinality(Y) - Cardinality(X \cap Y)
    BY <2>1, FS_Union
  <2>4. Cardinality(X \cap Y) = 0
    BY <2>2
  <2>5. Cardinality(X \cup Y) = Cardinality(X) + Cardinality(Y)
    BY <2>1, <2>3, <2>4
  <2> QED
    BY <2>5 DEF X, Y
<1> QED
  BY <1>2, <1>u, <1>5 DEF Total

(* The total does not depend on the order.                                   *)
LEMMA TotalReordered ==
  ASSUME NEW f, NEW g, IsFiniteSet(DOMAIN g), \A x \in DOMAIN g : g[x] \in Nat,
         NEW b \in [DOMAIN g -> DOMAIN f], \A x \in DOMAIN g : f[b[x]] = g[x],
         \A x, y \in DOMAIN g : b[x] = b[y] => x = y,
         \A z \in DOMAIN f : \E x \in DOMAIN g : b[x] = z
  PROVE  Total(f) = Total(g)
<1> DEFINE c == [u \in Units(g) |-> <<b[u[1]], u[2]>>]
<1>1. \A k : \A u : u \in Units(k) <=> \E x \in DOMAIN k : \E i \in 1..k[x] : u = <<x, i>>
  BY DEF Units
<1>2. \A u \in Units(g) : /\ u = <<u[1], u[2]>> /\ u[1] \in DOMAIN g /\ u[2] \in 1..g[u[1]]
                          /\ c[u] = <<b[u[1]], u[2]>>
  BY <1>1
<1>3. \A u \in Units(f) : u = <<u[1], u[2]>> /\ u[1] \in DOMAIN f /\ u[2] \in 1..f[u[1]]
  BY <1>1
<1>4. c \in [Units(g) -> Units(f)]
  BY <1>1, <1>2
<1>5. ASSUME NEW u \in Units(g), NEW v \in Units(g), c[u] = c[v]
      PROVE  u = v
  BY <1>2, <1>5
<1>6. ASSUME NEW u \in Units(f)
      PROVE  \E v \in Units(g) : c[v] = u
  <2>1. PICK x \in DOMAIN g : b[x] = u[1]
    BY <1>3
  <2>2. u[2] \in 1..g[x]
    BY <1>3, <2>1
  <2>3. <<x, u[2]>> \in Units(g)
    BY <1>1, <2>2
  <2> QED
    BY <1>3, <2>1, <2>3
<1> HIDE DEF c
<1> QED
  BY <1>4, <1>5, <1>6, UnitsFinite, OneToOne DEF Total

LEMMA Floor ==
  ASSUME NEW x \in Nat, NEW v \in Nat \ {0}
  PROVE  x \div v \in Nat /\ (x \div v) * v <= x /\ x < (x \div v + 1) * v
<1>1. x \div v \in Nat /\ (x \div v) * v <= x /\ x < (x \div v) * v + v
  BY SMTT(30)
<1> QED
  BY <1>1, Products

LEMMA Fewer ==
  ASSUME NEW a \in Nat, NEW b \in Nat, NEW v \in Nat, NEW x \in Nat, a * v <= x, x < b * v
  PROVE  a < b
<1> SUFFICES ASSUME ~(a < b) PROVE FALSE
  OBVIOUS
<1>1. b * v <= a * v /\ a * v \in Nat /\ b * v \in Nat
  BY Products
<1> QED
  BY <1>1

LEMMA FloorGrows ==
  ASSUME NEW x \in Nat, NEW y \in Nat, NEW v \in Nat \ {0}, x <= y
  PROVE  x \div v <= y \div v
<1> DEFINE a == x \div v
           b == y \div v
<1>1. a \in Nat /\ b \in Nat /\ a * v <= x /\ y < (b + 1) * v
  BY Floor
<1> HIDE DEF a, b
<1>2. a * v \in Nat /\ a * v <= y
  BY <1>1, Products
<1>3. a < b + 1
  BY <1>1, <1>2, Fewer
<1>4. a <= b
  BY <1>1, <1>3
<1> QED
  BY <1>4 DEF a, b

(* Rounding down twice drops at most one more than rounding down the sum.    *)
LEMMA FloorOfSum ==
  ASSUME NEW x \in Nat, NEW y \in Nat, NEW v \in Nat \ {0}
  PROVE  (x + y) \div v - (x \div v + y \div v) \in 0..1
<1> DEFINE a == x \div v
           b == y \div v
           c == (x + y) \div v
<1>1. /\ a \in Nat /\ a * v <= x /\ x < (a + 1) * v
      /\ b \in Nat /\ b * v <= y /\ y < (b + 1) * v
  BY Floor
<1>2. c \in Nat /\ c * v <= x + y /\ x + y < (c + 1) * v
  <2> DEFINE z == x + y
  <2>1. z \in Nat
    OBVIOUS
  <2> HIDE DEF z
  <2>2. z \div v \in Nat /\ (z \div v) * v <= z /\ z < (z \div v + 1) * v
    BY <2>1, Floor
  <2> QED
    BY <2>2 DEF z
<1> HIDE DEF a, b, c
<1>3. (a + b) * v = a * v + b * v /\ (a + b + 2) * v = (a + 1) * v + (b + 1) * v
  BY <1>1
<1>4. (a + b) * v \in Nat /\ (a + b) * v <= x + y /\ x + y < (a + b + 2) * v
  <2>1. /\ a * v \in Nat /\ b * v \in Nat /\ (a + 1) * v \in Nat /\ (b + 1) * v \in Nat
    BY <1>1, Products
  <2> QED
    BY <1>1, <1>3, <2>1
<1>5. a + b < c + 1
  <2>1. a + b \in Nat /\ c + 1 \in Nat /\ x + y \in Nat
    BY <1>1, <1>2
  <2> QED
    BY <1>2, <1>4, <2>1, Fewer
<1>6. c < a + b + 2
  <2>1. a + b + 2 \in Nat /\ x + y \in Nat
    BY <1>1
  <2> QED
    BY <1>2, <1>4, <2>1, Fewer
<1>7. c - (a + b) \in 0..1
  BY <1>1, <1>2, <1>5, <1>6
<1> QED
  BY <1>7 DEF a, b, c

-----------------------------------------------------------------------------
(* Elections: which of them a page shows.                                    *)

ElectionKept(e) ==
    /\ elections[e].slug = e /\ elections[e].id \in 1..Cardinality(DOMAIN elections)
    /\ elections[e].held \in Nat /\ elections[e].note \in BOOLEAN
    /\ \E r \in ElectionRows : /\ r.slug = e /\ r.valid = elections[e].valid
                               /\ r.edition = elections[e].edition
ResultKept(k) == results[k] \in ResultRows /\ k = <<results[k].election, results[k].who>>

ElectionsInv ==
    /\ today \in 1..LastDay /\ written \in 0..MaxWritten
    /\ IsFiniteSet(DOMAIN elections) /\ IsFiniteSet(DOMAIN results)
    /\ \A e \in DOMAIN elections : ElectionKept(e)
    /\ \A e, f \in DOMAIN elections : elections[e].id = elections[f].id => e = f
    /\ \A k \in DOMAIN results : ResultKept(k)

LEMMA DaysOf ==
  ASSUME ElectionsInv
  PROVE  /\ today \in Nat
         /\ \A e \in DOMAIN elections :
              elections[e].held \in Nat /\ elections[e].id \in Nat /\ elections[e].valid \in Nat
<1>1. \A e \in DOMAIN elections : elections[e].held \in Nat /\ elections[e].valid \in Nat
  BY ElectionsAssumption DEF ElectionsInv, ElectionKept
<1>2. \A e \in DOMAIN elections : elections[e].id \in Nat
  BY FS_CardinalityType DEF ElectionsInv, ElectionKept
<1>3. today \in Nat
  BY ElectionsAssumption DEF ElectionsInv
<1> QED
  BY <1>1, <1>2, <1>3

LEMMA NextRoundIsWhole ==
  ASSUME ElectionsInv
  PROVE  NextRoundWhole
<1> DEFINE dated == {e \in Upcoming : Dated(e)}
           days == {elections[e].held : e \in dated}
           soonest == IF days = {} THEN 0 ELSE Min(days)
<1>1. /\ \A e \in Upcoming : elections[e].held \in Nat
      /\ \A e \in Upcoming : Dated(e) <=> elections[e].held > 0
  BY DaysOf DEF Upcoming, Dated
<1>2. NextForCountry = {e \in Upcoming : elections[e].held = soonest}
  BY DEF NextForCountry
<1>3. CASE days = {}
  <2>1. soonest = 0 /\ \A e \in Upcoming : ~Dated(e) /\ elections[e].held = 0
    BY <1>1, <1>3
  <2> HIDE DEF soonest
  <2>2. NextForCountry = Upcoming
    BY <1>2, <2>1
  <2> QED
    BY <2>1, <2>2 DEF NextRoundWhole
<1>4. CASE days # {}
  <2>1. days \subseteq Nat
    BY <1>1
  <2>2. PICK d \in days : \A c \in days : d <= c
    <3> HIDE DEF days
    <3> QED
      BY <1>4, <2>1, SmallestOf
  <2>3. soonest \in days /\ \A c \in days : soonest <= c
    <3>1. soonest = CHOOSE c \in days : \A b \in days : c <= b
      BY <1>4 DEF Min
    <3> HIDE DEF soonest, days
    <3> QED
      BY <2>2, <3>1
  <2> HIDE DEF soonest
  <2>4. soonest \in Nat /\ soonest > 0 /\ \E e \in Upcoming : elections[e].held = soonest
    BY <1>1, <2>1, <2>3
  <2>5. \A e \in Upcoming : Dated(e) => soonest <= elections[e].held
    BY <2>3
  <2>6. \A e \in Upcoming : Dated(e) => soonest \in 1..elections[e].held
    BY <1>1, <2>4, <2>5
  <2> QED
    BY <1>2, <2>4, <2>6 DEF NextRoundWhole
<1> QED
  BY <1>3, <1>4

LaterPairs == {x \in (DOMAIN elections) \X (DOMAIN elections) : Later(x[1], x[2])}

LEMMA LaterIsAnOrder ==
  ASSUME ElectionsInv
  PROVE  IsFiniteSet(DOMAIN elections) /\ Orders(LaterPairs, DOMAIN elections)
<1>1. \A e \in DOMAIN elections : elections[e].held \in Nat /\ elections[e].id \in Nat
  BY DaysOf
<1>2. \A e, f \in DOMAIN elections : elections[e].id = elections[f].id => e = f
  BY DEF ElectionsInv
<1>3. \A e \in DOMAIN elections : ~Later(e, e)
  BY <1>1 DEF Later
<1>4. \A e, f \in DOMAIN elections : e # f => Later(e, f) \/ Later(f, e)
  BY <1>1, <1>2 DEF Later
<1>5. \A e, f, g \in DOMAIN elections : Later(e, f) /\ Later(f, g) => Later(e, g)
  BY <1>1 DEF Later
<1>6. \A e, f \in DOMAIN elections : <<e, f>> \in LaterPairs <=> Later(e, f)
  BY DEF LaterPairs
<1> QED
  BY <1>3, <1>4, <1>5, <1>6 DEF Orders, ElectionsInv

LEMMA ComparedInTurnAll ==
  ASSUME ElectionsInv
  PROVE  ComparedInTurn
<1> SUFFICES ASSUME NEW e \in DOMAIN elections, NEW f \in PreviousComparable(e)
             PROVE  /\ \E i, j \in DOMAIN ListForCountry :
                         i < j /\ ListForCountry[i] = e /\ ListForCountry[j] = f
                    /\ ~\E g \in DOMAIN elections : /\ elections[g].kind = elections[e].kind
                                                    /\ elections[g].held > elections[f].held
                                                    /\ elections[g].held < elections[e].held
  BY DEF ComparedInTurn
<1> DEFINE n == Cardinality(DOMAIN elections)
           s == ListForCountry
           R == LaterPairs
<1>1. /\ f \in DOMAIN elections /\ Dated(e) /\ Dated(f) /\ elections[f].held < elections[e].held
      /\ elections[f].kind = elections[e].kind
      /\ \A g \in DOMAIN elections :
           Dated(g) /\ elections[g].held < elections[e].held /\ elections[g].kind = elections[e].kind
             => g = f \/ Later(f, g)
  BY DEF PreviousComparable
<1>2. \A g \in DOMAIN elections : elections[g].held \in Nat
  BY DaysOf
<1>3. s = Listed(DOMAIN elections, R)
  BY DEF ListForCountry, LaterPairs
<1>4. /\ n \in Nat /\ s \in [1..n -> DOMAIN elections]
      /\ \A i, j \in 1..n : i < j => <<s[i], s[j]>> \in R
      /\ \A g \in DOMAIN elections : \E i \in 1..n : s[i] = g
  BY <1>3, LaterIsAnOrder, ListedInOrder
<1>5. \A g, h \in DOMAIN elections : <<g, h>> \in R <=> Later(g, h)
  BY DEF LaterPairs
<1> HIDE DEF s, n, R
<1>6. \E i, j \in DOMAIN s : i < j /\ s[i] = e /\ s[j] = f
  <2>1. PICK i \in 1..n : s[i] = e
    BY <1>4
  <2>2. PICK j \in 1..n : s[j] = f
    BY <1>1, <1>4
  <2>3. ~Later(f, e)
    BY <1>1, <1>2 DEF Later
  <2>4. i # j
    BY <1>1, <1>2, <2>1, <2>2
  <2>5. i < j
    <3> SUFFICES ASSUME j < i PROVE FALSE
      BY <1>4, <2>4
    <3>1. <<s[j], s[i]>> \in R
      BY <1>4
    <3>2. <<f, e>> \in R
      BY <2>1, <2>2, <3>1
    <3> QED
      BY <1>1, <1>5, <2>3, <3>2
  <2> QED
    BY <1>4, <2>1, <2>2, <2>5
<1>7. ASSUME NEW g \in DOMAIN elections, elections[g].kind = elections[e].kind,
             elections[g].held > elections[f].held, elections[g].held < elections[e].held
      PROVE  FALSE
  <2>1. Dated(g) /\ g # f
    BY <1>1, <1>2, <1>7 DEF Dated
  <2>2. Later(f, g)
    BY <1>1, <1>7, <2>1
  <2> QED
    BY <1>1, <1>2, <1>7, <2>2 DEF Later
<1> QED
  BY <1>6, <1>7 DEF s

-----------------------------------------------------------------------------
(* Elections: the bars of one election.                                      *)

LEMMA RowsOfElection ==
  ASSUME ElectionsInv, NEW e
  PROVE  /\ IsFiniteSet(ResultsOf(e)) /\ IsFiniteSet(WithVotes(e))
         /\ WithVotes(e) \subseteq ResultsOf(e)
         /\ \A r \in ResultsOf(e) :
              /\ r \in ResultRows /\ r.election = e
              /\ r.votes \in Int /\ r.seats \in Int /\ ContestantOrder[r.who] \in Nat
         /\ \A r \in WithVotes(e) : r.votes \in Nat
         /\ \A r, s \in ResultsOf(e) : ContestantOrder[r.who] = ContestantOrder[s.who] => r = s
<1> DEFINE K == {k \in DOMAIN results : k[1] = e}
           f == [k \in K |-> results[k]]
<1>1. IsFiniteSet(K)
  BY FS_Subset DEF ElectionsInv
<1>2. f \in [K -> ResultsOf(e)] /\ \A r \in ResultsOf(e) : \E k \in K : f[k] = r
  BY DEF ResultsOf
<1>3. IsFiniteSet(ResultsOf(e))
  <2> HIDE DEF K, f
  <2> QED
    BY <1>1, <1>2, ImageOf
<1>4. \A r \in ResultsOf(e) : r \in ResultRows /\ <<e, r.who>> \in DOMAIN results
                              /\ results[<<e, r.who>>] = r /\ r.election = e
  BY DEF ResultsOf, ElectionsInv, ResultKept
<1>5. WithVotes(e) \subseteq ResultsOf(e) /\ IsFiniteSet(WithVotes(e))
  BY <1>3, FS_Subset DEF WithVotes
<1>6. \A r \in ResultRows :
         /\ r.votes \in Nat \cup {Unknown} /\ r.seats \in Nat \cup {Unknown}
         /\ ContestantOrder[r.who] \in Nat
  BY ElectionsAssumption
<1>7. \A r \in ResultsOf(e) :
         r.votes \in Int /\ r.seats \in Int /\ ContestantOrder[r.who] \in Nat
  <2>1. \A x \in Nat \cup {Unknown} : x \in Int
    BY DEF Unknown
  <2> QED
    BY <1>4, <1>6, <2>1
<1>8. \A r \in WithVotes(e) : r.votes \in Nat
  BY <1>4, <1>6 DEF WithVotes
<1>9. ASSUME NEW r \in ResultsOf(e), NEW s \in ResultsOf(e),
             ContestantOrder[r.who] = ContestantOrder[s.who]
      PROVE  r = s
  <2>1. r.who = s.who
    BY <1>4, <1>9, ElectionsAssumption
  <2> QED
    BY <1>4, <2>1
<1> QED
  BY <1>3, <1>4, <1>5, <1>7, <1>8, <1>9

LEMMA AboveIsAnOrder ==
  ASSUME ElectionsInv, NEW e
  PROVE  /\ \A r \in ResultsOf(e) : ~Above(r, r) /\ ~ByVotes(r, r)
         /\ \A r, s \in ResultsOf(e) :
              /\ r # s => Above(r, s) \/ Above(s, r)
              /\ r # s => ByVotes(r, s) \/ ByVotes(s, r)
         /\ \A r, s, t \in ResultsOf(e) :
              /\ Above(r, s) /\ Above(s, t) => Above(r, t)
              /\ ByVotes(r, s) /\ ByVotes(s, t) => ByVotes(r, t)
<1>1. /\ \A r \in ResultsOf(e) :
           r.votes \in Int /\ r.seats \in Int /\ ContestantOrder[r.who] \in Nat
      /\ \A r, s \in ResultsOf(e) : ContestantOrder[r.who] = ContestantOrder[s.who] => r = s
  BY RowsOfElection
<1>2. \A r \in ResultsOf(e) : ~Above(r, r)
  BY <1>1 DEF Above
<1>3. \A r, s \in ResultsOf(e) : r # s => Above(r, s) \/ Above(s, r)
  BY <1>1 DEF Above
<1>4. \A r, s, t \in ResultsOf(e) : Above(r, s) /\ Above(s, t) => Above(r, t)
  BY <1>1 DEF Above
<1>5. \A r \in ResultsOf(e) : ~ByVotes(r, r)
  BY <1>1, <1>2 DEF ByVotes
<1>6. \A r, s \in ResultsOf(e) : r # s => ByVotes(r, s) \/ ByVotes(s, r)
  BY <1>1, <1>3 DEF ByVotes
<1>7. \A r, s, t \in ResultsOf(e) : ByVotes(r, s) /\ ByVotes(s, t) => ByVotes(r, t)
  BY <1>1, <1>4 DEF ByVotes
<1> QED
  BY <1>2, <1>3, <1>4, <1>5, <1>6, <1>7

(* The results by votes: each once, most votes first.                        *)
VotedCount(e) == Cardinality(WithVotes(e))
ByVotesPairs(e) == {x \in WithVotes(e) \X WithVotes(e) : ByVotes(x[1], x[2])}

LEMMA VotedInOrderOfVotes ==
  ASSUME ElectionsInv, NEW e
  PROVE  /\ VotedCount(e) \in Nat
         /\ Voted(e) \in [1..VotedCount(e) -> WithVotes(e)]
         /\ \A i, j \in 1..VotedCount(e) : Voted(e)[i] = Voted(e)[j] => i = j
         /\ \A r \in WithVotes(e) : \E i \in 1..VotedCount(e) : Voted(e)[i] = r
         /\ \A i \in 1..VotedCount(e) : Voted(e)[i].votes \in Nat
         /\ \A i, j \in 1..VotedCount(e) : i < j => Voted(e)[j].votes <= Voted(e)[i].votes
<1> DEFINE R == WithVotes(e)
           P == ByVotesPairs(e)
           s == Voted(e)
           n == VotedCount(e)
<1>1. IsFiniteSet(R) /\ R \subseteq ResultsOf(e) /\ \A r \in R : r.votes \in Nat
  BY RowsOfElection
<1>2. \A r, t \in R : <<r, t>> \in P <=> ByVotes(r, t)
  BY DEF ByVotesPairs
<1>3. Orders(P, R)
  BY <1>1, <1>2, AboveIsAnOrder DEF Orders
<1>4. s = Listed(R, P)
  BY DEF Voted, ByVotesPairs
<1> HIDE DEF P, R, s, n
<1>5. /\ n \in Nat /\ s \in [1..n -> R]
      /\ \A i, j \in 1..n : i < j => <<s[i], s[j]>> \in P
      /\ \A i, j \in 1..n : s[i] = s[j] => i = j
      /\ \A r \in R : \E i \in 1..n : s[i] = r
  BY <1>1, <1>3, <1>4, ListedInOrder DEF n, VotedCount, R
<1>6. \A r, t \in R : ByVotes(r, t) => t.votes <= r.votes
  BY <1>1 DEF ByVotes
<1>7. \A i \in 1..n : s[i].votes \in Nat
  BY <1>1, <1>5
<1>8. \A i, j \in 1..n : i < j => s[j].votes <= s[i].votes
  BY <1>2, <1>5, <1>6
<1> QED
  BY <1>5, <1>7, <1>8 DEF R, s, n

(* A run of totals, and what rounding drops of it.                           *)
LEMMA TotalUpTo ==
  ASSUME NEW n \in Nat, NEW w \in [1..n -> Nat], NEW k \in 0..n
  PROVE  /\ Total([i \in 1..k |-> w[i]]) \in Nat /\ Total([i \in (k + 1)..n |-> w[i]]) \in Nat
         /\ Total(w) = Total([i \in 1..k |-> w[i]]) + Total([i \in (k + 1)..n |-> w[i]])
         /\ k = 0 => Total([i \in 1..k |-> w[i]]) = 0
         /\ k < n => Total([i \in 1..(k + 1) |-> w[i]]) = Total([i \in 1..k |-> w[i]]) + w[k + 1]
<1> DEFINE g == [i \in 1..k |-> w[i]]
           h == [i \in (k + 1)..n |-> w[i]]
           f == [i \in 1..(k + 1) |-> w[i]]
           o == [i \in {k + 1} |-> w[i]]
<1>1. IsFiniteSet(DOMAIN w) /\ \A i \in DOMAIN w : w[i] \in Nat
  BY UpTo
<1>2. /\ DOMAIN w = DOMAIN g \cup DOMAIN h /\ DOMAIN g \cap DOMAIN h = {}
      /\ \A i \in DOMAIN g : g[i] = w[i]
      /\ \A i \in DOMAIN h : h[i] = w[i]
  OBVIOUS
<1>3. Total(w) = Total(g) + Total(h) /\ Total(g) \in Nat /\ Total(h) \in Nat
  <2> HIDE DEF g, h
  <2>1. InTwo(w, g, h)
    BY <1>1, <1>2 DEF InTwo
  <2> QED
    BY <2>1, TotalOfParts
<1>4. k = 0 => Total(g) = 0
  <2> HAVE k = 0
  <2>1. Units(g) = {}
    BY DEF Units
  <2> QED
    BY <2>1, FS_EmptySet DEF Total
<1>5. ASSUME k < n
      PROVE  Total(f) = Total(g) + w[k + 1]
  <2>1. /\ DOMAIN f = DOMAIN g \cup DOMAIN o /\ DOMAIN g \cap DOMAIN o = {}
        /\ \A i \in DOMAIN g : g[i] = f[i]
        /\ \A i \in DOMAIN o : o[i] = f[i]
    OBVIOUS
  <2>2. IsFiniteSet(DOMAIN f) /\ \A i \in DOMAIN f : f[i] \in Nat
    <3>1. k + 1 \in Nat /\ \A i \in 1..(k + 1) : i \in 1..n
      BY <1>5
    <3> QED
      BY <3>1, UpTo
  <2>3. Total(f) = Total(g) + Total(o)
    <3> HIDE DEF f, g, o
    <3>1. InTwo(f, g, o)
      BY <2>1, <2>2 DEF InTwo
    <3> QED
      BY <3>1, TotalOfParts
  <2>4. Total(o) = w[k + 1]
    <3> DEFINE m == w[k + 1]
               x == k + 1
               S == 1..m
               T == {x} \X S
               b == [i \in S |-> <<x, i>>]
    <3>1. m \in Nat
      BY <1>5
    <3>2. Units(o) = T
      BY DEF Units
    <3>3. IsFiniteSet(S) /\ Cardinality(S) = m
      <4> HIDE DEF m
      <4> QED
        BY <3>1, UpTo
    <3> HIDE DEF m, x, S
    <3>4. b \in [S -> T]
      OBVIOUS
    <3>5. \A i, j \in S : b[i] = b[j] => i = j
      OBVIOUS
    <3>6. \A u \in T : \E i \in S : b[i] = u
      OBVIOUS
    <3> HIDE DEF b, T
    <3>7. Cardinality(T) = Cardinality(S)
      BY <3>3, <3>4, <3>5, <3>6, OneToOne
    <3> QED
      BY <3>2, <3>3, <3>7 DEF Total, m
  <2> QED
    BY <2>3, <2>4
<1> QED
  BY <1>3, <1>4, <1>5

(* w are votes of valid ones: their tenths add up to those of their total,   *)
(* but for one at most for each.                                             *)
Tenth(x, valid) == (x * 1000) \div valid

DropsAtMost(c, w, rest, valid) ==
    LET votes == Total([i \in 1..c |-> w[i]])
        tenths == Total([i \in 1..c |-> Tenth(w[i], valid)])
    IN /\ votes \in Nat /\ tenths \in Nat
       /\ Tenth(votes + rest, valid) - (tenths + Tenth(rest, valid)) \in 0..c

LEMMA TenthsDropped ==
  ASSUME NEW n \in Nat, NEW w \in [1..n -> Nat], NEW rest \in Nat, NEW valid \in Nat \ {0},
         NEW c \in 0..n
  PROVE  DropsAtMost(c, w, rest, valid)
<1> DEFINE t == [i \in 1..n |-> Tenth(w[i], valid)]
           A(k) == Total([i \in 1..k |-> w[i]])
           B(k) == Total([i \in 1..k |-> t[i]])
           dropped(k) == Tenth(A(k) + rest, valid) - (B(k) + Tenth(rest, valid))
           wrong == {k \in 0..c : ~(dropped(k) \in 0..k)}
<1>1. \A x \in Nat : Tenth(x, valid) \in Nat
  <2> TAKE x \in Nat
  <2>1. x * 1000 \in Nat
    OBVIOUS
  <2> QED
    BY <2>1, Floor DEF Tenth
<1>2. ASSUME NEW x \in Nat, NEW y \in Nat
      PROVE  Tenth(x + y, valid) - (Tenth(x, valid) + Tenth(y, valid)) \in 0..1
  <2> DEFINE p == x * 1000
             q == y * 1000
  <2>1. p \in Nat /\ q \in Nat /\ (x + y) * 1000 = p + q
    OBVIOUS
  <2> HIDE DEF p, q
  <2>2. (p + q) \div valid - (p \div valid + q \div valid) \in 0..1
    BY <2>1, FloorOfSum
  <2> QED
    BY <2>1, <2>2 DEF Tenth, p, q
<1>3. t \in [1..n -> Nat]
  BY <1>1
<1>4. \A k \in 0..n : /\ A(k) \in Nat /\ (k = 0 => A(k) = 0)
                      /\ k < n => A(k + 1) = A(k) + w[k + 1]
  BY TotalUpTo
<1>5. \A k \in 0..n : /\ B(k) \in Nat /\ (k = 0 => B(k) = 0)
                      /\ k < n => B(k + 1) = B(k) + t[k + 1]
  <2> HIDE DEF t
  <2> QED
    BY <1>3, TotalUpTo
<1>6. \A i \in 1..n : t[i] = Tenth(w[i], valid)
  OBVIOUS
<1>7. B(c) = Total([i \in 1..c |-> Tenth(w[i], valid)])
  <2>1. [i \in 1..c |-> t[i]] = [i \in 1..c |-> Tenth(w[i], valid)]
    OBVIOUS
  <2> QED
    BY <2>1
<1> HIDE DEF t, A, B
<1>8. dropped(0) \in 0..0
  <2>0. 0 \in 0..n
    OBVIOUS
  <2>1. A(0) = 0 /\ B(0) = 0 /\ Tenth(rest, valid) \in Nat
    BY <1>1, <1>4, <1>5, <2>0
  <2>2. A(0) + rest = rest
    BY <2>1
  <2> QED
    BY <2>1, <2>2
<1>9. ASSUME NEW k \in 0..n, k < n, dropped(k) \in 0..k
      PROVE  dropped(k + 1) \in 0..(k + 1)
  <2>1. k + 1 \in 1..n
    BY <1>9
  <2> DEFINE x == A(k) + rest
             y == w[k + 1]
             z == t[k + 1]
  <2>2. A(k) \in Nat /\ B(k) \in Nat /\ x \in Nat /\ y \in Nat
    BY <1>4, <1>5, <2>1
  <2>3. z = Tenth(y, valid) /\ A(k + 1) = A(k) + y /\ B(k + 1) = B(k) + z
    BY <1>4, <1>5, <1>6, <1>9, <2>1
  <2>4. A(k + 1) + rest = x + y
    BY <2>2, <2>3
  <2> HIDE DEF x, y, z
  <2>5. Tenth(x + y, valid) - (Tenth(x, valid) + Tenth(y, valid)) \in 0..1
    BY <1>2, <2>2
  <2>6. Tenth(x, valid) - (B(k) + Tenth(rest, valid)) \in 0..k
    BY <1>9 DEF x
  <2>7. /\ Tenth(x, valid) \in Nat /\ Tenth(y, valid) \in Nat /\ Tenth(rest, valid) \in Nat
        /\ Tenth(x + y, valid) \in Nat
    <3>1. x + y \in Nat
      BY <2>2
    <3> QED
      BY <1>1, <2>2, <3>1, Zenon
  <2> DEFINE a == Tenth(x, valid)
             d == Tenth(x + y, valid)
             b == B(k)
             e == Tenth(rest, valid)
  <2>8. d - (b + z + e) \in 0..(k + 1)
    <3>1. /\ a \in Nat /\ z \in Nat /\ e \in Nat /\ d \in Nat /\ b \in Nat
          /\ d - (a + z) \in 0..1 /\ a - (b + e) \in 0..k
      <4>1. a \in Nat /\ z \in Nat /\ e \in Nat /\ d \in Nat /\ b \in Nat
        BY <2>2, <2>3, <2>7
      <4>2. d - (a + z) \in 0..1
        BY <2>3, <2>5
      <4>3. a - (b + e) \in 0..k
        BY <2>6
      <4> QED
        BY <4>1, <4>2, <4>3
    <3> HIDE DEF a, b, d, e
    <3> QED
      BY <3>1
  <2>9. dropped(k + 1) = d - (b + z + e)
    BY <2>3, <2>4
  <2> QED
    BY <2>8, <2>9
<1>10. dropped(c) \in 0..c
  <2> HIDE DEF dropped
  <2> SUFFICES ASSUME ~(dropped(c) \in 0..c) PROVE FALSE
    OBVIOUS
  <2>1. wrong # {} /\ wrong \subseteq Nat
    OBVIOUS
  <2>2. PICK k \in wrong : \A m \in wrong : k <= m
    <3> HIDE DEF wrong
    <3> QED
      BY <2>1, SmallestOf
  <2>3. k # 0
    BY <1>8, <2>2
  <2>4. k - 1 \in 0..n /\ k - 1 < n /\ k - 1 \in 0..c /\ k - 1 \notin wrong /\ k - 1 + 1 = k
    BY <2>2, <2>3
  <2> DEFINE j == k - 1
  <2>5. j \in 0..n /\ j < n /\ j + 1 = k /\ dropped(j) \in 0..j
    BY <2>4
  <2> HIDE DEF j
  <2>6. dropped(k) \in 0..k
    BY <1>9, <2>5
  <2> QED
    BY <2>2, <2>6
<1>11. c \in 0..n /\ A(c) \in Nat /\ B(c) \in Nat
  BY <1>4, <1>5
<1> QED
  BY <1>7, <1>10, <1>11 DEF A, DropsAtMost

(* What is drawn of them: as many bars as the box has room for.              *)
ShownCount(e) == IF VotedCount(e) > BarLimit THEN BarLimit ELSE VotedCount(e)
BarSwing(e, i) ==
    {Tenths(Voted(e)[i].votes, e) - p[2] : p \in {p \in PrevShares(e) : p[1] = Voted(e)[i].who}}
OtherVotes(e) ==
    Total([i \in (ShownCount(e) + 1)..VotedCount(e) |-> Voted(e)[i].votes])

LEMMA BarsOf ==
  ASSUME ElectionsInv, NEW e
  PROVE  LET list == VoteShareList(e, BarLimit)
         IN /\ ShownCount(e) \in 0..VotedCount(e)
            /\ DOMAIN list.bars = 1..ShownCount(e) /\ Len(list.bars) = ShownCount(e)
            /\ \A i \in 1..ShownCount(e) : /\ list.bars[i].who = Voted(e)[i].who
                                           /\ list.bars[i].share = Tenths(Voted(e)[i].votes, e)
                                           /\ list.bars[i].swing = BarSwing(e, i)
            /\ list.others = Tenths(OtherVotes(e), e)
<1> DEFINE voted == Voted(e)
           n == VotedCount(e)
           c == ShownCount(e)
           cut == IF Len(voted) > BarLimit THEN BarLimit ELSE Len(voted)
           others == Total([i \in (cut + 1)..Len(voted) |-> voted[i].votes])
           bar(i) == [who |-> voted[i].who, share |-> Tenths(voted[i].votes, e),
                      swing |-> {Tenths(voted[i].votes, e) - p[2] :
                                 p \in {p \in PrevShares(e) : p[1] = voted[i].who}}]
<1>1. n \in Nat /\ voted \in [1..n -> WithVotes(e)]
  BY VotedInOrderOfVotes
<1>2. BarLimit \in Nat
  BY ElectionsAssumption
<1>3. Len(voted) = n
  <2> HIDE DEF voted, n
  <2> QED
    BY <1>1
<1>4. cut = c /\ others = OtherVotes(e)
  BY <1>3 DEF ShownCount, OtherVotes
<1>5. c \in 0..n
  <2> HIDE DEF n
  <2>1. c = IF n > BarLimit THEN BarLimit ELSE n
    BY DEF ShownCount, n
  <2> QED
    BY <1>1, <1>2, <2>1
<1>6. VoteShareList(e, BarLimit) = [bars |-> [i \in 1..cut |-> bar(i)],
                                    others |-> Tenths(others, e)]
  BY DEF VoteShareList
<1>7. \A i \in 1..c : /\ bar(i).who = Voted(e)[i].who
                      /\ bar(i).share = Tenths(Voted(e)[i].votes, e)
                      /\ bar(i).swing = BarSwing(e, i)
  BY DEF BarSwing
<1> HIDE DEF bar, cut, others, voted, n, c
<1> DEFINE bars == [i \in 1..c |-> bar(i)]
<1>8. VoteShareList(e, BarLimit).bars = bars
      /\ VoteShareList(e, BarLimit).others = Tenths(OtherVotes(e), e)
  BY <1>4, <1>6
<1>9. Len(bars) = c
  <2>1. c \in Nat
    BY <1>1, <1>5
  <2> QED
    BY <2>1
<1>10. DOMAIN bars = 1..c /\ \A i \in 1..c : bars[i] = bar(i)
  OBVIOUS
<1> HIDE DEF bars
<1> QED
  BY <1>5, <1>7, <1>8, <1>9, <1>10 DEF c, n

LEMMA TenthsOf ==
  ASSUME NEW e, NEW x
  PROVE  Tenths(x, e) = Tenth(x, elections[e].valid)
BY DEF Tenths, Tenth

LEMMA TenthGrows ==
  ASSUME NEW x \in Nat, NEW y \in Nat, NEW v \in Nat \ {0}, x <= y
  PROVE  Tenth(x, v) \in Nat /\ Tenth(x, v) <= Tenth(y, v)
<1> DEFINE p == x * 1000
           q == y * 1000
<1>1. p \in Nat /\ q \in Nat /\ p <= q
  OBVIOUS
<1> HIDE DEF p, q
<1>2. p \div v \in Nat /\ p \div v <= q \div v
  BY <1>1, Floor, FloorGrows
<1> QED
  BY <1>2 DEF Tenth, p, q

(* Bars go down, and no hidden one would be longer than one that is shown.   *)
LEMMA BarsGoDown ==
  ASSUME ElectionsInv, NEW e \in DOMAIN elections, elections[e].valid > 0
  PROVE  LET list == VoteShareList(e, BarLimit)
             bars == list.bars
             hidden == {r \in WithVotes(e) : \A i \in DOMAIN bars : bars[i].who # r.who}
         IN /\ \A i \in 1..(Len(bars) - 1) : bars[i].share >= bars[i + 1].share
            /\ \A r \in hidden : \A i \in DOMAIN bars : Tenths(r.votes, e) <= bars[i].share
<1> DEFINE n == VotedCount(e)
           c == ShownCount(e)
           s == Voted(e)
           v == elections[e].valid
           bars == VoteShareList(e, BarLimit).bars
<1>1. /\ c \in 0..n /\ DOMAIN bars = 1..c /\ Len(bars) = c
      /\ \A i \in 1..c : bars[i].who = s[i].who /\ bars[i].share = Tenth(s[i].votes, v)
  BY BarsOf, TenthsOf
<1>2. /\ n \in Nat
      /\ \A r \in WithVotes(e) : \E i \in 1..n : s[i] = r
      /\ \A i \in 1..n : s[i].votes \in Nat
      /\ \A i, j \in 1..n : i < j => s[j].votes <= s[i].votes
  BY VotedInOrderOfVotes
<1>3. v \in Nat \ {0}
  BY DaysOf
<1>4. \A r : Tenths(r.votes, e) = Tenth(r.votes, v)
  BY TenthsOf
<1> HIDE DEF n, c, s, v, bars
<1>5. \A i, j \in 1..n : i < j => /\ Tenth(s[j].votes, v) \in Nat /\ Tenth(s[i].votes, v) \in Nat
                                  /\ Tenth(s[j].votes, v) <= Tenth(s[i].votes, v)
  BY <1>2, <1>3, TenthGrows
<1>6. \A i \in 1..(c - 1) : bars[i].share >= bars[i + 1].share
  <2> TAKE i \in 1..(c - 1)
  <2>1. i \in 1..n /\ i + 1 \in 1..n /\ i < i + 1 /\ i \in 1..c /\ i + 1 \in 1..c
    BY <1>1, <1>2
  <2> DEFINE j == i + 1
  <2> HIDE DEF j
  <2>2. /\ Tenth(s[j].votes, v) \in Nat /\ Tenth(s[i].votes, v) \in Nat
        /\ Tenth(s[j].votes, v) <= Tenth(s[i].votes, v)
    BY <1>5, <2>1 DEF j
  <2>3. bars[i].share = Tenth(s[i].votes, v) /\ bars[j].share = Tenth(s[j].votes, v)
    BY <1>1, <2>1 DEF j
  <2>4. bars[i].share >= bars[j].share
    BY <2>2, <2>3
  <2> QED
    BY <2>4 DEF j
<1>7. ASSUME NEW r \in WithVotes(e), \A i \in 1..c : bars[i].who # r.who, NEW i \in 1..c
      PROVE  Tenth(r.votes, v) <= bars[i].share
  <2>1. PICK j \in 1..n : s[j] = r
    BY <1>2
  <2>2. j \notin 1..c
    BY <1>1, <1>7, <2>1
  <2>3. i \in 1..n /\ i < j
    BY <1>1, <1>2, <2>2
  <2>4. Tenth(s[j].votes, v) <= Tenth(s[i].votes, v)
    BY <1>5, <2>3
  <2> QED
    BY <1>1, <2>1, <2>4
<1> QED
  BY <1>1, <1>4, <1>6, <1>7 DEF bars

(* Bars and "Others" miss of all votes what rounding drops, and no more.     *)
LEMMA OnlyRoundingDrops ==
  ASSUME ElectionsInv, NEW e \in DOMAIN elections, elections[e].valid > 0
  PROVE  LET list == VoteShareList(e, BarLimit)
             bars == list.bars
             shown == Total([i \in DOMAIN bars |-> bars[i].share])
             votes == Total([r \in WithVotes(e) |-> r.votes])
         IN /\ shown \in Nat /\ list.others \in Nat /\ votes \in Nat
            /\ Tenths(votes, e) \in Nat
            /\ Tenths(votes, e) - (shown + list.others) \in 0..Len(bars)
<1> DEFINE n == VotedCount(e)
           c == ShownCount(e)
           s == Voted(e)
           v == elections[e].valid
           R == WithVotes(e)
           list == VoteShareList(e, BarLimit)
           bars == list.bars
           f == [r \in R |-> r.votes]
           w == [i \in 1..n |-> s[i].votes]
           rest == OtherVotes(e)
           shown == Total([i \in DOMAIN bars |-> bars[i].share])
<1>1. /\ c \in 0..n /\ DOMAIN bars = 1..c /\ Len(bars) = c
      /\ \A i \in 1..c : bars[i].share = Tenth(s[i].votes, v)
      /\ list.others = Tenth(rest, v)
  BY BarsOf, TenthsOf
<1>2. /\ n \in Nat /\ s \in [1..n -> R]
      /\ \A i, j \in 1..n : s[i] = s[j] => i = j
      /\ \A r \in R : \E i \in 1..n : s[i] = r
      /\ \A i \in 1..n : s[i].votes \in Nat
  BY VotedInOrderOfVotes
<1>3. v \in Nat \ {0}
  BY DaysOf
<1>4. rest = Total([i \in (c + 1)..n |-> s[i].votes])
  BY DEF OtherVotes
<1> HIDE DEF n, c, s, v, R, list, rest
<1>5. w \in [1..n -> Nat]
  BY <1>2
<1>6. Total(f) = Total(w)
  <2>1. /\ DOMAIN w = 1..n /\ DOMAIN f = R
        /\ \A i \in 1..n : f[s[i]] = w[i]
    BY <1>2
  <2> HIDE DEF f, w
  <2>2. IsFiniteSet(DOMAIN w)
    BY <1>2, <2>1, UpTo
  <2>3. s \in [DOMAIN w -> DOMAIN f]
    BY <1>2, <2>1
  <2>4. \A x \in DOMAIN w : w[x] \in Nat
    BY <1>5, <2>1
  <2>5. \A x \in DOMAIN w : f[s[x]] = w[x]
    BY <2>1
  <2>6. \A x, y \in DOMAIN w : s[x] = s[y] => x = y
    BY <1>2, <2>1
  <2>7. \A z \in DOMAIN f : \E x \in DOMAIN w : s[x] = z
    BY <1>2, <2>1
  <2> QED
    BY <2>2, <2>3, <2>4, <2>5, <2>6, <2>7, TotalReordered, Zenon
<1>7. rest = Total([i \in (c + 1)..n |-> w[i]])
  <2>1. \A i \in (c + 1)..n : i \in 1..n
    BY <1>1, <1>2
  <2>2. [i \in (c + 1)..n |-> s[i].votes] = [i \in (c + 1)..n |-> w[i]]
    BY <2>1
  <2> QED
    BY <1>4, <2>2
<1>8. shown = Total([i \in 1..c |-> Tenth(w[i], v)])
  <2>1. \A i \in 1..c : i \in 1..n /\ bars[i].share = Tenth(w[i], v)
    BY <1>1, <1>2
  <2>2. [i \in DOMAIN bars |-> bars[i].share] = [i \in 1..c |-> Tenth(w[i], v)]
    BY <1>1, <2>1
  <2> QED
    BY <2>2
<1> DEFINE kept == Total([i \in 1..c |-> w[i]])
           all == Total(f)
           cut == Total([i \in 1..c |-> Tenth(w[i], v)])
<1>9. kept \in Nat /\ rest \in Nat /\ all = kept + rest
  <2>1. n \in Nat /\ c \in 0..n
    BY <1>1, <1>2
  <2> HIDE DEF w, f
  <2>2. /\ kept \in Nat /\ Total([i \in (c + 1)..n |-> w[i]]) \in Nat
        /\ Total(w) = kept + Total([i \in (c + 1)..n |-> w[i]])
    BY <1>5, <2>1, TotalUpTo
  <2> QED
    BY <1>6, <1>7, <2>2
<1>10. cut \in Nat /\ Tenth(kept + rest, v) - (cut + Tenth(rest, v)) \in 0..c
  <2>1. n \in Nat /\ c \in 0..n /\ rest \in Nat
    BY <1>1, <1>2, <1>9
  <2>2. DropsAtMost(c, w, rest, v)
    <3> HIDE DEF w
    <3> QED
      BY <1>3, <1>5, <2>1, TenthsDropped
  <2> HIDE DEF w
  <2> QED
    BY <2>2 DEF DropsAtMost
<1>11. Tenth(rest, v) \in Nat /\ Tenth(all, v) \in Nat /\ all \in Nat
  <2>1. all \in Nat
    <3> HIDE DEF kept, all
    <3> QED
      BY <1>9
  <2> HIDE DEF all
  <2> QED
    BY <1>3, <1>9, <2>1, TenthGrows
<1>12. Tenths(all, e) = Tenth(all, v)
  BY TenthsOf DEF v
<1>13. Tenth(all, v) - (shown + list.others) \in 0..Len(bars)
  <2>1. shown = cut /\ list.others = Tenth(rest, v) /\ Len(bars) = c /\ all = kept + rest
    BY <1>1, <1>8, <1>9
  <2> HIDE DEF shown, cut, kept, all, bars
  <2> QED
    BY <1>10, <2>1
<1>14. shown \in Nat /\ list.others \in Nat /\ all \in Nat /\ Tenths(all, e) \in Nat
  <2>1. shown = cut
    BY <1>8
  <2> HIDE DEF shown, cut, all
  <2> QED
    BY <1>1, <1>10, <1>11, <1>12, <2>1
<1>15. Tenths(all, e) - (shown + list.others) \in 0..Len(bars)
  <2> HIDE DEF shown, all, bars
  <2> QED
    BY <1>12, <1>13
<1> QED
  BY <1>14, <1>15 DEF list, R

LEMMA TotalOfFewer ==
  ASSUME NEW f, NEW g, IsFiniteSet(DOMAIN f), \A x \in DOMAIN f : f[x] \in Nat,
         DOMAIN g \subseteq DOMAIN f, \A x \in DOMAIN g : g[x] = f[x]
  PROVE  Total(g) \in Nat /\ Total(f) \in Nat /\ Total(g) <= Total(f)
<1> DEFINE h == [x \in DOMAIN f \ DOMAIN g |-> f[x]]
<1>1. /\ DOMAIN f = DOMAIN g \cup DOMAIN h /\ DOMAIN g \cap DOMAIN h = {}
      /\ \A x \in DOMAIN h : h[x] = f[x]
  OBVIOUS
<1> HIDE DEF h
<1>2. /\ Total(f) = Total(g) + Total(h)
      /\ Total(f) \in Nat /\ Total(g) \in Nat /\ Total(h) \in Nat
  <2>1. InTwo(f, g, h)
    BY <1>1 DEF InTwo
  <2> QED
    BY <2>1, TotalOfParts, Zenon
<1> QED
  BY <1>2

LEMMA WholeInTenths ==
  ASSUME NEW v \in Nat \ {0}
  PROVE  Tenth(v, v) <= 1000
<1> DEFINE x == v * 1000
           a == x \div v
<1>1. x \in Nat /\ x < 1001 * v
  OBVIOUS
<1> HIDE DEF x
<1>2. a \in Nat /\ a * v <= x
  BY <1>1, Floor
<1> HIDE DEF a
<1>3. a < 1001
  BY <1>1, <1>2, Fewer
<1>4. a <= 1000
  BY <1>2, <1>3
<1> QED
  BY <1>4 DEF Tenth, a, x

(* Results and totals of one edition: no more votes than are valid.          *)
LEMMA SharesWithinValid ==
  ASSUME ElectionsInv, NEW e \in DOMAIN elections, elections[e].valid > 0,
         \A r \in ResultsOf(e) : r.edition = elections[e].edition
  PROVE  LET votes == Total([r \in WithVotes(e) |-> r.votes])
         IN Tenths(votes, e) <= 1000
<1> DEFINE v == elections[e].valid
           g == [r \in WithVotes(e) |-> r.votes]
<1>1. PICK row \in ElectionRows : /\ row.slug = e /\ row.valid = v
                                  /\ row.edition = elections[e].edition
  BY DEF ElectionsInv, ElectionKept
<1> DEFINE counted == {r \in ResultRows : /\ r.election = e /\ r.edition = elections[e].edition
                                          /\ r.votes # Unknown}
           f == [r \in counted |-> r.votes]
<1>2. v \in Nat \ {0}
  BY DaysOf
<1>3. WithVotes(e) \subseteq counted
  BY RowsOfElection DEF WithVotes
<1>4. Total(f) <= v
  <2>1. row.valid > 0
    BY <1>1
  <2>2. LET among == {r \in ResultRows : /\ r.election = row.slug /\ r.edition = row.edition
                                         /\ r.votes # Unknown}
        IN Total([r \in among |-> r.votes]) <= row.valid
    BY <2>1, ElectionsAssumption
  <2> QED
    BY <1>1, <2>2
<1>5. IsFiniteSet(counted) /\ \A r \in counted : r.votes \in Nat
  <2>1. IsFiniteSet(ResultRows) /\ \A r \in ResultRows : r.votes \in Nat \cup {Unknown}
    BY ElectionsAssumption
  <2> QED
    BY <2>1, FS_Subset
<1>6. /\ DOMAIN g = WithVotes(e) /\ DOMAIN f = counted
      /\ \A r \in DOMAIN g : g[r] = f[r]
      /\ \A r \in counted : f[r] = r.votes
  BY <1>3
<1> HIDE DEF v, counted, f, g
<1>7. Total(g) \in Nat /\ Total(f) \in Nat /\ Total(g) <= Total(f)
  <2>1. IsFiniteSet(DOMAIN f) /\ \A r \in DOMAIN f : f[r] \in Nat
    BY <1>5, <1>6
  <2>2. DOMAIN g \subseteq DOMAIN f
    BY <1>3, <1>6
  <2> QED
    BY <1>6, <2>1, <2>2, TotalOfFewer
<1>8. Total(g) <= v
  BY <1>2, <1>4, <1>7
<1>9. Tenth(Total(g), v) \in Nat /\ Tenth(v, v) \in Nat /\ Tenth(Total(g), v) <= Tenth(v, v)
  BY <1>2, <1>7, <1>8, TenthGrows
<1>10. Tenth(Total(g), v) <= 1000
  BY <1>2, <1>9, WholeInTenths
<1> QED
  BY <1>10, TenthsOf DEF v, g

LEMMA AtMostOne ==
  ASSUME NEW S, \A x, y \in S : x = y
  PROVE  IsFiniteSet(S) /\ Cardinality(S) <= 1
<1>1. CASE S = {}
  BY <1>1, FS_EmptySet
<1>2. CASE S # {}
  <2>1. PICK x \in S : S = {x}
    BY <1>2
  <2>2. IsFiniteSet({x}) /\ Cardinality({x}) = 1
    BY FS_Singleton
  <2> QED
    BY <2>1, <2>2
<1> QED
  BY <1>1, <1>2

(* A bar has one swing at most, and one row at most leads by seats.          *)
LEMMA OneSwing ==
  ASSUME ElectionsInv, NEW e \in DOMAIN elections, NEW i
  PROVE  Cardinality(BarSwing(e, i)) <= 1
<1>1. \A f, g \in PreviousComparable(e) : f = g
  <2>1. /\ PreviousComparable(e) \subseteq DOMAIN elections
        /\ \A f, g \in PreviousComparable(e) : f # g => Later(f, g) /\ Later(g, f)
    BY DEF PreviousComparable
  <2>2. \A f, g \in DOMAIN elections : ~(Later(f, g) /\ Later(g, f))
    BY DaysOf DEF Later
  <2> QED
    BY <2>1, <2>2
<1>2. \A p \in PrevShares(e) :
         \E f \in PreviousComparable(e) : \E r \in WithVotes(f) : p = <<r.who, Tenths(r.votes, f)>>
  BY DEF PrevShares
<1>3. \A f : \A r, s \in WithVotes(f) : r.who = s.who => r = s
  BY RowsOfElection
<1>4. ASSUME NEW p \in PrevShares(e), NEW q \in PrevShares(e), p[1] = q[1]
      PROVE  p = q
  <2>1. PICK f \in PreviousComparable(e) :
           \E r \in WithVotes(f) : p = <<r.who, Tenths(r.votes, f)>>
    BY <1>2
  <2>2. PICK r \in WithVotes(f) : p = <<r.who, Tenths(r.votes, f)>>
    BY <2>1
  <2>3. PICK g \in PreviousComparable(e) :
           \E s \in WithVotes(g) : q = <<s.who, Tenths(s.votes, g)>>
    BY <1>2
  <2>4. PICK s \in WithVotes(g) : q = <<s.who, Tenths(s.votes, g)>>
    BY <2>3
  <2>5. f = g
    BY <1>1
  <2>6. r.who = s.who
    BY <1>4, <2>2, <2>4
  <2>7. r = s
    BY <1>3, <2>5, <2>6
  <2> QED
    BY <2>2, <2>4, <2>5, <2>7
<1>5. \A x, y \in BarSwing(e, i) : x = y
  BY <1>4 DEF BarSwing
<1> QED
  BY <1>5, AtMostOne

LEMMA OneLeader ==
  ASSUME ElectionsInv, NEW e, NEW r \in LeaderBySeats(e), NEW s \in LeaderBySeats(e)
  PROVE  r = s
<1> SUFFICES ASSUME r # s PROVE FALSE
  OBVIOUS
<1>1. /\ r \in ResultsOf(e) /\ s \in ResultsOf(e)
      /\ s.seats < r.seats \/ (s.seats = r.seats /\ Above(s, r))
      /\ r.seats < s.seats \/ (r.seats = s.seats /\ Above(r, s))
  BY DEF LeaderBySeats
<1>2. r.seats \in Int /\ s.seats \in Int
  BY <1>1, RowsOfElection
<1>3. Above(s, r) /\ Above(r, s)
  BY <1>1, <1>2
<1> QED
  BY <1>1, <1>3, AboveIsAnOrder

LEMMA SharesDoAddUp ==
  ASSUME ElectionsInv
  PROVE  SharesAddUp
<1> SUFFICES ASSUME NEW e \in DOMAIN elections, elections[e].valid > 0
             PROVE  LET list == VoteShareList(e, BarLimit)
                        bars == list.bars
                        hidden == {r \in WithVotes(e) : \A i \in DOMAIN bars : bars[i].who # r.who}
                        shown == Total([i \in DOMAIN bars |-> bars[i].share])
                        votes == Total([r \in WithVotes(e) |-> r.votes])
                        oneEdition == \A r \in ResultsOf(e) : r.edition = elections[e].edition
                    IN /\ \A i \in 1..(Len(bars) - 1) : bars[i].share >= bars[i + 1].share
                       /\ \A r \in hidden : \A i \in DOMAIN bars : Tenths(r.votes, e) <= bars[i].share
                       /\ Tenths(votes, e) - (shown + list.others) \in 0..Len(bars)
                       /\ oneEdition => shown + list.others <= 1000
                       /\ \A i \in DOMAIN bars : Cardinality(bars[i].swing) <= 1
                       /\ \A r, s \in LeaderBySeats(e) : r = s
  BY DEF SharesAddUp
<1> DEFINE list == VoteShareList(e, BarLimit)
           bars == list.bars
           hidden == {r \in WithVotes(e) : \A i \in DOMAIN bars : bars[i].who # r.who}
           shown == Total([i \in DOMAIN bars |-> bars[i].share])
           votes == Total([r \in WithVotes(e) |-> r.votes])
           oneEdition == \A r \in ResultsOf(e) : r.edition = elections[e].edition
<1>1. /\ \A i \in 1..(Len(bars) - 1) : bars[i].share >= bars[i + 1].share
      /\ \A r \in hidden : \A i \in DOMAIN bars : Tenths(r.votes, e) <= bars[i].share
  BY BarsGoDown
<1>2. /\ shown \in Nat /\ list.others \in Nat /\ votes \in Nat /\ Tenths(votes, e) \in Nat
      /\ Tenths(votes, e) - (shown + list.others) \in 0..Len(bars)
  BY OnlyRoundingDrops
<1>3. oneEdition => shown + list.others <= 1000
  <2> HAVE oneEdition
  <2>1. Tenths(votes, e) <= 1000
    BY SharesWithinValid
  <2> HIDE DEF shown, votes, list
  <2> QED
    BY <1>2, <2>1
<1>4. \A i \in DOMAIN bars : Cardinality(bars[i].swing) <= 1
  <2> TAKE i \in DOMAIN bars
  <2>1. bars[i].swing = BarSwing(e, i)
    BY BarsOf
  <2> QED
    BY <2>1, OneSwing
<1>5. \A r, s \in LeaderBySeats(e) : r = s
  BY OneLeader
<1> QED
  BY <1>1, <1>2, <1>3, <1>4, <1>5

LEMMA ElectionsInvEnough == ElectionsInv => ElectionsTypeOK /\ ElectionPages
<1> HAVE ElectionsInv
<1>1. ElectionsTypeOK
  BY DEF ElectionsInv, ElectionKept, ResultKept, ElectionsTypeOK
<1>2. NextRoundWhole /\ ComparedInTurn /\ SharesAddUp
  BY NextRoundIsWhole, ComparedInTurnAll, SharesDoAddUp
<1> QED
  BY <1>1, <1>2 DEF ElectionPages

-----------------------------------------------------------------------------
(* Elections: what each step keeps.                                          *)

LEMMA ElectionsInitInv == ElectionsInit => ElectionsInv
<1> HAVE ElectionsInit
<1>1. DOMAIN elections = {} /\ DOMAIN results = {} /\ today = 1 /\ written = 0
  BY DEF ElectionsInit
<1>2. IsFiniteSet({})
  BY FS_EmptySet
<1>3. 1 \in 1..LastDay /\ 0 \in 0..MaxWritten
  BY ElectionsAssumption
<1> QED
  BY <1>1, <1>2, <1>3 DEF ElectionsInv

LEMMA PutElectionKeeps ==
  ASSUME ElectionsInv, NEW r \in ElectionRows, PutElection(r)
  PROVE  ElectionsInv'
<1> DEFINE D == DOMAIN elections
           n == Cardinality(D)
           id == IF r.slug \in D THEN elections[r.slug].id ELSE n + 1
           row == [slug |-> r.slug, held |-> r.held, kind |-> r.kind, note |-> r.note,
                   valid |-> r.valid, edition |-> r.edition, id |-> id]
           E == D \cup {r.slug}
           m == Cardinality(E)
<1>1. /\ written < MaxWritten /\ written' = written + 1 /\ UNCHANGED <<today, results>>
      /\ elections' = [e \in E |-> IF e = r.slug THEN row ELSE elections[e]]
  BY DEF PutElection
<1>2. IsFiniteSet(D) /\ n \in Nat
  BY FS_CardinalityType DEF ElectionsInv
<1>3. IsFiniteSet(E) /\ m \in Nat /\ (r.slug \in D => m = n) /\ (r.slug \notin D => m = n + 1)
  <2> DEFINE x == r.slug
  <2> HIDE DEF x, D
  <2>1. /\ IsFiniteSet(D \cup {x})
        /\ Cardinality(D \cup {x}) = IF x \in D THEN Cardinality(D) ELSE Cardinality(D) + 1
    BY <1>2, FS_AddElement
  <2>2. E = D \cup {x}
    BY DEF x
  <2> HIDE DEF E
  <2> QED
    BY <1>2, <2>1, <2>2 DEF x
<1>4. \A e \in D : elections[e].id \in 1..n
  BY DEF ElectionsInv, ElectionKept
<1>5. id \in 1..m /\ \A e \in D : elections[e].id \in 1..m
  <2> HIDE DEF n, m, D
  <2>1. 1..n \subseteq 1..m
    BY <1>2, <1>3
  <2>2. \A e \in D : elections[e].id \in 1..m
    BY <1>4, <2>1
  <2>3. r.slug \notin D => n + 1 \in 1..m
    BY <1>2, <1>3
  <2> QED
    BY <2>2, <2>3
<1>6. \A e \in D : elections[e].id = id => e = r.slug
  <2>1. \A e, f \in D : elections[e].id = elections[f].id => e = f
    BY DEF ElectionsInv
  <2> HIDE DEF n, m, D
  <2> QED
    BY <1>2, <1>4, <2>1
<1>7. r.held \in Nat /\ r.note \in BOOLEAN
  BY ElectionsAssumption
<1>8. DOMAIN elections' = E /\ Cardinality(DOMAIN elections') = m
  BY <1>1
<1>9. \A e \in E : elections'[e] = IF e = r.slug THEN row ELSE elections[e]
  BY <1>1
<1>10. /\ row.slug = r.slug /\ row.held = r.held /\ row.note = r.note /\ row.valid = r.valid
       /\ row.edition = r.edition /\ row.id = id
  OBVIOUS
<1> HIDE DEF id, m, row
<1>11. ASSUME NEW e \in E
       PROVE  ElectionKept(e)'
  <2>1. CASE e = r.slug
    <3>1. /\ elections'[e].slug = e /\ elections'[e].id \in 1..m
          /\ elections'[e].held \in Nat /\ elections'[e].note \in BOOLEAN
          /\ elections'[e].valid = r.valid /\ elections'[e].edition = r.edition
      BY <1>5, <1>7, <1>9, <1>10, <2>1
    <3> QED
      BY <1>8, <2>1, <3>1 DEF ElectionKept
  <2>2. CASE e # r.slug
    <3>1. e \in D /\ elections'[e] = elections[e]
      BY <1>9, <2>2
    <3>2. ElectionKept(e)
      BY <3>1 DEF ElectionsInv
    <3>3. elections'[e].id \in 1..m
      BY <1>5, <3>1
    <3> QED
      BY <1>8, <3>1, <3>2, <3>3 DEF ElectionKept
  <2> QED
    BY <2>1, <2>2
<1>12. ASSUME NEW e \in E, NEW f \in E, elections'[e].id = elections'[f].id
       PROVE  e = f
  <2>1. \A g, h \in D : elections[g].id = elections[h].id => g = h
    BY DEF ElectionsInv
  <2> QED
    BY <1>6, <1>9, <1>10, <1>12, <2>1
<1>13. \A k \in DOMAIN results' : ResultKept(k)'
  BY <1>1 DEF ElectionsInv, ResultKept
<1>14. today' \in 1..LastDay /\ written' \in 0..MaxWritten /\ IsFiniteSet(DOMAIN results')
  BY <1>1, ElectionsAssumption DEF ElectionsInv
<1> QED
  BY <1>3, <1>8, <1>11, <1>12, <1>13, <1>14 DEF ElectionsInv

LEMMA PutResultKeeps ==
  ASSUME ElectionsInv, NEW r \in ResultRows, PutResult(r)
  PROVE  ElectionsInv'
<1> DEFINE k == <<r.election, r.who>>
           D == DOMAIN results
<1>1. /\ written < MaxWritten /\ written' = written + 1 /\ UNCHANGED <<today, elections>>
      /\ results' = [x \in D \cup {k} |-> IF x \in D THEN results[x] ELSE r]
  BY DEF PutResult
<1>2. IsFiniteSet(D \cup {k})
  <2>1. IsFiniteSet(D)
    BY DEF ElectionsInv
  <2> HIDE DEF D, k
  <2> QED
    BY <2>1, FS_AddElement
<1>3. DOMAIN results' = D \cup {k}
  BY <1>1
<1>4. ASSUME NEW x \in D \cup {k}
      PROVE  ResultKept(x)'
  <2>1. CASE x \in D
    <3>1. results'[x] = results[x] /\ ResultKept(x)
      BY <1>1, <2>1 DEF ElectionsInv
    <3> QED
      BY <3>1 DEF ResultKept
  <2>2. CASE x \notin D
    <3>1. results'[x] = r /\ x = k
      BY <1>1, <2>2
    <3> QED
      BY <3>1 DEF ResultKept
  <2> QED
    BY <2>1, <2>2
<1>5. \A e \in DOMAIN elections' : ElectionKept(e)'
  BY <1>1 DEF ElectionsInv, ElectionKept
<1>6. today' \in 1..LastDay /\ written' \in 0..MaxWritten
  BY <1>1, ElectionsAssumption DEF ElectionsInv
<1> QED
  BY <1>1, <1>2, <1>3, <1>4, <1>5, <1>6 DEF ElectionsInv

LEMMA ElectionsStepInv == ElectionsInv /\ [ElectionsNext]_electionsVars => ElectionsInv'
<1> SUFFICES ASSUME ElectionsInv, [ElectionsNext]_electionsVars PROVE ElectionsInv'
  OBVIOUS
<1>1. ASSUME NewDay PROVE ElectionsInv'
  <2>1. /\ today' = today + 1 /\ today < LastDay
        /\ UNCHANGED <<elections, results, written>>
    BY <1>1 DEF NewDay
  <2>2. today' \in 1..LastDay
    BY <2>1, ElectionsAssumption DEF ElectionsInv
  <2> QED
    BY <2>1, <2>2 DEF ElectionsInv, ElectionKept, ResultKept
<1>2. ASSUME UNCHANGED electionsVars PROVE ElectionsInv'
  BY <1>2 DEF electionsVars, ElectionsInv, ElectionKept, ResultKept
<1> QED
  BY <1>1, <1>2, PutElectionKeeps, PutResultKeeps DEF ElectionsNext

(* What the pages show of elections is consistent, whatever rows, bars and   *)
(* days there are: NextForCountry, PreviousComparable and VoteShareList.     *)
THEOREM ElectionPagesAlways == ElectionsSpec => []ElectionPages
<1>1. ElectionsInv => ElectionPages
  BY ElectionsInvEnough
<1> QED
  BY <1>1, ElectionsInitInv, ElectionsStepInv, PTL DEF ElectionsSpec

-----------------------------------------------------------------------------
(* Compass: means, and what rounding them keeps.                             *)

LEMMA Cancelled ==
  ASSUME NEW x \in Nat, NEW y \in Nat, NEW k \in Nat \ {0}
  PROVE  /\ x * k <= y * k => x <= y
         /\ x * k < y * k => x < y
         /\ x * k = y * k => x = y
<1>1. /\ x * k \in Nat /\ y * k \in Nat
      /\ y + 1 <= x => (y + 1) * k <= x * k
      /\ x + 1 <= y => (x + 1) * k <= y * k
      /\ y <= x => y * k <= x * k
  BY Products
<1>2. (y + 1) * k = y * k + k /\ (x + 1) * k = x * k + k
  BY Products
<1>3. x * k <= y * k => x <= y
  BY <1>1, <1>2
<1>4. x * k < y * k => x < y
  BY <1>1, <1>2
<1>5. x * k = y * k => x = y
  BY <1>1, <1>2
<1> QED
  BY <1>3, <1>4, <1>5

(* Where every one of e is between lo and hi hundredths of the one of p, so  *)
(* is the total.                                                             *)
LEMMA MeanOfRow ==
  ASSUME NEW n \in Nat, NEW e \in [1..n -> Nat], NEW p \in [1..n -> Nat],
         NEW lo \in Nat, NEW hi \in Nat,
         \A i \in 1..n : lo * p[i] <= 100 * e[i] /\ 100 * e[i] <= hi * p[i]
  PROVE  lo * Total(p) <= 100 * Total(e) /\ 100 * Total(e) <= hi * Total(p)
<1> DEFINE E(k) == Total([i \in 1..k |-> e[i]])
           P(k) == Total([i \in 1..k |-> p[i]])
           fits(k) == lo * P(k) <= 100 * E(k) /\ 100 * E(k) <= hi * P(k)
           wrong == {k \in 0..n : ~fits(k)}
<1>1. \A k \in 0..n : /\ E(k) \in Nat /\ (k = 0 => E(k) = 0)
                      /\ k < n => E(k + 1) = E(k) + e[k + 1]
  BY TotalUpTo
<1>2. \A k \in 0..n : /\ P(k) \in Nat /\ (k = 0 => P(k) = 0)
                      /\ k < n => P(k + 1) = P(k) + p[k + 1]
  BY TotalUpTo
<1>3. E(n) = Total(e) /\ P(n) = Total(p)
  <2>1. [i \in 1..n |-> e[i]] = e /\ [i \in 1..n |-> p[i]] = p
    OBVIOUS
  <2> QED
    BY <2>1
<1> HIDE DEF E, P
<1>4. fits(0)
  <2>0. 0 \in 0..n
    OBVIOUS
  <2>1. E(0) = 0 /\ P(0) = 0
    BY <1>1, <1>2, <2>0
  <2> QED
    BY <2>1
<1>5. ASSUME NEW k \in 0..n, k < n, fits(k)
      PROVE  fits(k + 1)
  <2>1. k + 1 \in 1..n
    BY <1>5
  <2> DEFINE x == e[k + 1]
             y == p[k + 1]
             a == E(k)
             b == P(k)
  <2>2. a \in Nat /\ b \in Nat /\ x \in Nat /\ y \in Nat
    BY <1>1, <1>2, <2>1
  <2>3. E(k + 1) = a + x /\ P(k + 1) = b + y
    BY <1>1, <1>2, <1>5
  <2>4. lo * b <= 100 * a /\ 100 * a <= hi * b
    BY <1>5
  <2>5. lo * y <= 100 * x /\ 100 * x <= hi * y
    BY <2>1
  <2> HIDE DEF a, b, x, y
  <2>6. /\ lo * b \in Nat /\ lo * y \in Nat /\ hi * b \in Nat /\ hi * y \in Nat
        /\ lo * (b + y) = lo * b + lo * y /\ hi * (b + y) = hi * b + hi * y
    BY <2>2
  <2>7. lo * (b + y) <= 100 * (a + x) /\ 100 * (a + x) <= hi * (b + y)
    BY <2>2, <2>4, <2>5, <2>6
  <2> QED
    BY <2>3, <2>7
<1>6. fits(n)
  <2> HIDE DEF fits
  <2> SUFFICES ASSUME ~fits(n) PROVE FALSE
    OBVIOUS
  <2>1. wrong # {} /\ wrong \subseteq Nat
    <3>1. n \in 0..n /\ 0..n \subseteq Nat
      OBVIOUS
    <3>2. n \in wrong
      BY <3>1
    <3>3. wrong \subseteq 0..n
      OBVIOUS
    <3> QED
      BY <3>1, <3>2, <3>3, Zenon
  <2>2. PICK k \in wrong : \A m \in wrong : k <= m
    <3> HIDE DEF wrong
    <3> QED
      BY <2>1, SmallestOf
  <2>3. k # 0
    BY <1>4, <2>2
  <2> DEFINE j == k - 1
  <2>4. j \in 0..n /\ j < n /\ j + 1 = k /\ j \notin wrong
    BY <2>2, <2>3
  <2>5. fits(j)
    BY <2>4
  <2> HIDE DEF j
  <2>6. fits(k)
    BY <1>5, <2>4, <2>5
  <2> QED
    BY <2>2, <2>6
<1> QED
  BY <1>3, <1>6

(* So, then, for any finite set of them: a mean lies among what it is of.    *)
EachBetween(S, e, p, lo, hi) ==
    /\ IsFiniteSet(S) /\ e \in [S -> Nat] /\ p \in [S -> Nat] /\ lo \in Nat /\ hi \in Nat
    /\ \A x \in S : lo * p[x] <= 100 * e[x] /\ 100 * e[x] <= hi * p[x]

LEMMA MeanOf ==
  ASSUME NEW S, NEW e, NEW p, NEW lo, NEW hi, EachBetween(S, e, p, lo, hi)
  PROVE  lo * Total(p) <= 100 * Total(e) /\ 100 * Total(e) <= hi * Total(p)
<1>0. /\ IsFiniteSet(S) /\ e \in [S -> Nat] /\ p \in [S -> Nat] /\ lo \in Nat /\ hi \in Nat
      /\ \A x \in S : lo * p[x] <= 100 * e[x] /\ 100 * e[x] <= hi * p[x]
  BY DEF EachBetween
<1>1. PICK n \in Nat : ExistsBijection(1..n, S)
  BY <1>0, FS_NatBijection
<1>2. PICK b \in Bijection(1..n, S) : TRUE
  BY <1>1, Zenon DEF ExistsBijection
<1>3. /\ b \in [1..n -> S]
      /\ \A i, j \in 1..n : b[i] = b[j] => i = j
      /\ \A x \in S : \E i \in 1..n : b[i] = x
  BY <1>2 DEF Bijection, Injection, Surjection, IsInjective
<1> DEFINE E == [i \in 1..n |-> e[b[i]]]
           P == [i \in 1..n |-> p[b[i]]]
<1>4. E \in [1..n -> Nat] /\ P \in [1..n -> Nat]
  BY <1>0, <1>3
<1>5. \A i \in 1..n : lo * P[i] <= 100 * E[i] /\ 100 * E[i] <= hi * P[i]
  BY <1>0, <1>3
<1>6. ASSUME NEW f \in [S -> Nat], NEW F \in [1..n -> Nat], \A i \in 1..n : F[i] = f[b[i]]
      PROVE  Total(f) = Total(F)
  <2>1. IsFiniteSet(DOMAIN F) /\ \A i \in DOMAIN F : F[i] \in Nat
    BY UpTo
  <2>2. b \in [DOMAIN F -> DOMAIN f]
    BY <1>3
  <2>3. \A i \in DOMAIN F : f[b[i]] = F[i]
    BY <1>6
  <2>4. \A i, j \in DOMAIN F : b[i] = b[j] => i = j
    BY <1>3
  <2>5. \A x \in DOMAIN f : \E i \in DOMAIN F : b[i] = x
    BY <1>3
  <2> QED
    BY <2>1, <2>2, <2>3, <2>4, <2>5, TotalReordered, Zenon
<1>7. \A i \in 1..n : E[i] = e[b[i]] /\ P[i] = p[b[i]]
  OBVIOUS
<1> HIDE DEF E, P
<1>8. Total(e) = Total(E) /\ Total(p) = Total(P)
  BY <1>0, <1>4, <1>6, <1>7
<1>9. lo * Total(P) <= 100 * Total(E) /\ 100 * Total(E) <= hi * Total(P)
  BY <1>0, <1>4, <1>5, MeanOfRow
<1> QED
  BY <1>8, <1>9

LEMMA TotalPositive ==
  ASSUME NEW f, IsFiniteSet(DOMAIN f), \A x \in DOMAIN f : f[x] \in Nat,
         NEW x \in DOMAIN f, f[x] > 0
  PROVE  Total(f) \in Nat \ {0}
<1>1. IsFiniteSet(Units(f)) /\ Total(f) \in Nat
  BY UnitsFinite
<1>2. <<x, 1>> \in Units(f)
  BY DEF Units
<1> QED
  BY <1>1, <1>2, FS_EmptySet DEF Total

(* Percent rounds to the nearest integer, ties to the even one.              *)
LEMMA Rounded ==
  ASSUME NEW s, s.earned \in Nat, s.possible \in Nat \ {0}
  PROVE  LET a == 100 * s.earned
             v == s.possible
             p == Percent(s)
         IN /\ p \in Nat
            /\ 2 * (p * v) <= 2 * a + v /\ 2 * a <= 2 * (p * v) + v
            /\ 2 * a = 2 * (p * v) + v => p % 2 = 0
            /\ 2 * (p * v) = 2 * a + v => p % 2 = 0
<1> DEFINE a == 100 * s.earned
           v == s.possible
           p == Percent(s)
           q == a \div v
           m == a % v
<1>1. a \in Nat /\ v \in Nat \ {0}
  OBVIOUS
<1>2. p = IF 2 * m > v \/ (2 * m = v /\ q % 2 = 1) THEN q + 1 ELSE q
  BY DEF Percent
<1> HIDE DEF a, v, p
<1>3. q \in Nat /\ m \in 0..(v - 1) /\ a = q * v + m
  BY <1>1, SMTT(30)
<1> HIDE DEF q, m
<1>4. q * v \in Nat /\ (q + 1) * v = q * v + v
  BY <1>1, <1>3, Products
<1>5. q % 2 \in {0, 1} /\ (q % 2 = 1 => (q + 1) % 2 = 0)
  BY <1>3
<1> DEFINE w == q * v
<1>6. w \in Nat /\ (q + 1) * v = w + v /\ a = w + m
  BY <1>3, <1>4
<1>7. CASE 2 * m > v \/ (2 * m = v /\ q % 2 = 1)
  <2>1. p = q + 1 /\ p * v = w + v
    BY <1>2, <1>6, <1>7
  <2> HIDE DEF w
  <2>2. p \in Nat /\ 2 * (w + v) <= 2 * a + v /\ 2 * a < 2 * (w + v) + v
    BY <1>1, <1>3, <1>6, <1>7, <2>1
  <2>3. 2 * (w + v) = 2 * a + v => p % 2 = 0
    BY <1>1, <1>3, <1>5, <1>6, <1>7, <2>1
  <2>4. 2 * a # 2 * (w + v) + v /\ 2 * a <= 2 * (w + v) + v
    BY <1>1, <1>6, <2>2
  <2> QED
    BY <2>1, <2>2, <2>3, <2>4 DEF a, v, p
<1>8. CASE ~(2 * m > v \/ (2 * m = v /\ q % 2 = 1))
  <2>1. p = q /\ p * v = w
    BY <1>2, <1>8
  <2> HIDE DEF w
  <2>2. p \in Nat /\ 2 * w < 2 * a + v /\ 2 * a <= 2 * w + v
    BY <1>1, <1>3, <1>6, <1>8, <2>1
  <2>3. 2 * a = 2 * w + v => p % 2 = 0
    BY <1>1, <1>3, <1>5, <1>6, <1>8, <2>1
  <2>4. 2 * w # 2 * a + v /\ 2 * w <= 2 * a + v
    BY <1>1, <1>6, <2>2
  <2> QED
    BY <2>1, <2>2, <2>3, <2>4 DEF a, v, p
<1> QED
  BY <1>7, <1>8

(* What lies between two whole percents is rounded to between them.          *)
LEMMA RoundedBetween ==
  ASSUME NEW s, s.earned \in Nat, s.possible \in Nat \ {0}, NEW lo \in Nat, NEW hi \in Nat,
         lo * s.possible <= 100 * s.earned, 100 * s.earned <= hi * s.possible
  PROVE  Percent(s) \in lo..hi
<1> DEFINE a == 100 * s.earned
           v == s.possible
           p == Percent(s)
           P == p * v
           L == lo * v
           H == hi * v
<1>1. p \in Nat /\ 2 * P <= 2 * a + v /\ 2 * a <= 2 * P + v
  BY Rounded
<1>2. a \in Nat /\ v \in Nat \ {0} /\ L <= a /\ a <= H
  OBVIOUS
<1> HIDE DEF a, v, p
<1>3. P \in Nat /\ L \in Nat /\ H \in Nat
  BY <1>1, <1>2, Products
<1>4. /\ (p + 1) * v = P + v /\ (hi + 1) * v = H + v
      /\ p + 1 <= lo => (p + 1) * v <= L
      /\ hi + 1 <= p => (hi + 1) * v <= P
  BY <1>1, <1>2, Products
<1> HIDE DEF P, L, H
<1>5. ~(p + 1 <= lo)
  BY <1>1, <1>2, <1>3, <1>4
<1>6. ~(hi + 1 <= p)
  BY <1>1, <1>2, <1>3, <1>4
<1>7. p \in lo..hi
  BY <1>1, <1>5, <1>6
<1> QED
  BY <1>7 DEF p

(* Rounding keeps the order.                                                 *)
LEMMA RoundedGrows ==
  ASSUME NEW s, s.earned \in Nat, s.possible \in Nat \ {0},
         NEW t, t.earned \in Nat, t.possible \in Nat \ {0}, Compare(s, t) >= 0
  PROVE  Percent(s) >= Percent(t)
<1> DEFINE a == 100 * s.earned
           v == s.possible
           p == Percent(s)
           b == 100 * t.earned
           w == t.possible
           q == Percent(t)
<1>1. /\ p \in Nat /\ 2 * (p * v) <= 2 * a + v /\ 2 * a <= 2 * (p * v) + v
      /\ 2 * a = 2 * (p * v) + v => p % 2 = 0
  BY Rounded
<1>2. /\ q \in Nat /\ 2 * (q * w) <= 2 * b + w /\ 2 * b <= 2 * (q * w) + w
      /\ 2 * (q * w) = 2 * b + w => q % 2 = 0
  BY Rounded
<1>3. a \in Nat /\ v \in Nat \ {0} /\ b \in Nat /\ w \in Nat \ {0}
  OBVIOUS
<1>4. b * v <= a * w
  <2> DEFINE x == s.earned * w
             y == t.earned * v
  <2>1. x \in Nat /\ y \in Nat /\ x - y >= 0
    BY <1>3 DEF Compare
  <2>2. a * w = 100 * x /\ b * v = 100 * y
    BY <1>3
  <2> HIDE DEF x, y, a, b, v, w
  <2> QED
    BY <2>1, <2>2
<1> HIDE DEF a, v, p, b, w, q
<1> SUFFICES ASSUME p + 1 <= q PROVE FALSE
  BY <1>1, <1>2 DEF p, q
<1> DEFINE c == 2 * p + 1
<1>5. c \in Nat /\ c * v = 2 * (p * v) + v /\ c * w = 2 * (p * w) + w
  BY <1>1, <1>3
<1>6. p * w \in Nat /\ q * w \in Nat /\ p * w + w <= q * w
  <2>1. (p + 1) * w <= q * w /\ (p + 1) * w = p * w + w /\ p * w \in Nat /\ q * w \in Nat
    BY <1>1, <1>2, <1>3, Products
  <2> QED
    BY <2>1
<1>7. 2 * a <= c * v /\ c * w <= 2 * b
  <2> DEFINE x == p * w
             y == q * w
             z == p * v
  <2>1. z \in Nat
    BY <1>1, <1>3, Products
  <2>2. 2 * a <= 2 * z + v /\ 2 * y <= 2 * b + w /\ x \in Nat /\ y \in Nat /\ x + w <= y
    BY <1>1, <1>2, <1>6
  <2>3. c * v = 2 * z + v /\ c * w = 2 * x + w
    BY <1>5
  <2> HIDE DEF x, y, z, c
  <2> QED
    BY <1>3, <2>1, <2>2, <2>3
<1>8. 2 * a = c * v /\ 2 * b = c * w
  <2> HIDE DEF c
  <2> DEFINE A == 2 * a
             B == 2 * b
             X == c * v
             Y == c * w
  <2>1. A \in Nat /\ B \in Nat /\ X \in Nat /\ Y \in Nat /\ A <= X /\ Y <= B
    BY <1>3, <1>5, <1>7, Products
  <2>2. B * v <= A * w
    <3>1. B * v = 2 * (b * v) /\ A * w = 2 * (a * w) /\ b * v \in Nat /\ a * w \in Nat
      BY <1>3
    <3> HIDE DEF A, B
    <3> QED
      BY <1>4, <3>1
  <2>3. X * w = Y * v
    BY <1>3, <1>5
  <2> HIDE DEF A, B, X, Y
  <2>4. A * w <= X * w /\ Y * v <= B * v
    BY <1>3, <2>1, Products
  <2>5. A * w \in Nat /\ X * w \in Nat /\ Y * v \in Nat /\ B * v \in Nat
    BY <1>3, <2>1, Products
  <2>6. A * w = X * w /\ B * v = Y * v
    BY <2>2, <2>3, <2>4, <2>5
  <2>7. A = X /\ B = Y
    BY <1>3, <2>1, <2>6, Cancelled
  <2> QED
    BY <2>7 DEF A, B, X, Y
<1>9. p % 2 = 0
  BY <1>1, <1>5, <1>8
<1>10. q * w = p * w + w /\ 2 * (q * w) = 2 * b + w
  <2> DEFINE x == p * w
             y == q * w
  <2>1. x \in Nat /\ y \in Nat /\ x + w <= y /\ 2 * y <= 2 * b + w /\ 2 * b = 2 * x + w
    BY <1>2, <1>5, <1>6, <1>8
  <2> HIDE DEF x, y
  <2>2. y = x + w /\ 2 * y = 2 * b + w
    BY <1>3, <2>1
  <2> QED
    BY <2>2 DEF x, y
<1>11. q = p + 1
  <2>1. (p + 1) * w = q * w
    BY <1>1, <1>3, <1>10, Products
  <2>2. p + 1 \in Nat
    BY <1>1
  <2> QED
    BY <1>2, <1>3, <2>1, <2>2, Cancelled
<1>12. q % 2 = 0
  BY <1>2, <1>10
<1> QED
  BY <1>1, <1>9, <1>11, <1>12

-----------------------------------------------------------------------------
(* Compass: the order of scores.                                             *)

LEMMA FractionsInTurn ==
  ASSUME NEW a \in Nat, NEW b \in Nat, NEW c \in Nat,
         NEW p \in Nat \ {0}, NEW q \in Nat \ {0}, NEW r \in Nat \ {0},
         b * p <= a * q, c * q <= b * r
  PROVE  /\ c * p <= a * r
         /\ b * p < a * q \/ c * q < b * r => c * p < a * r
<1> DEFINE x == (a * q) * r
           y == (b * p) * r
           z == (c * q) * p
<1>1. /\ a * q \in Nat /\ b * p \in Nat /\ b * r \in Nat /\ c * q \in Nat
      /\ a * r \in Nat /\ c * p \in Nat
  BY Products
<1>2. y <= x /\ (x <= y => a * q <= b * p)
  <2> DEFINE u == a * q
             w == b * p
  <2>1. u \in Nat /\ w \in Nat /\ w <= u
    BY <1>1
  <2> HIDE DEF u, w
  <2>2. w * r <= u * r /\ (u * r <= w * r => u <= w)
    BY <2>1, Products, Cancelled
  <2> QED
    BY <2>2 DEF u, w
<1>3. z <= y /\ (y <= z => b * r <= c * q)
  <2> DEFINE u == b * r
             w == c * q
  <2>1. u \in Nat /\ w \in Nat /\ w <= u
    BY <1>1
  <2> HIDE DEF u, w
  <2>2. w * p <= u * p /\ (u * p <= w * p => u <= w)
    BY <2>1, Products, Cancelled
  <2> HIDE DEF z
  <2>3. u * p = y /\ w * p = z
    BY DEF u, w, z
  <2> QED
    BY <2>2, <2>3 DEF u, w
<1>4. x = (a * r) * q /\ z = (c * p) * q
  OBVIOUS
<1>5. x \in Nat /\ y \in Nat /\ z \in Nat
  BY <1>1, Products
<1> DEFINE u == a * r
           w == c * p
<1>6. u \in Nat /\ w \in Nat /\ x = u * q /\ z = w * q
  BY <1>1, <1>4
<1> HIDE DEF x, y, z, u, w
<1>7. z <= x
  BY <1>2, <1>3, <1>5
<1>8. w <= u
  BY <1>6, <1>7, Cancelled
<1>9. ASSUME b * p < a * q \/ c * q < b * r
      PROVE  w < u
  <2>1. y < x \/ z < y
    BY <1>1, <1>2, <1>3, <1>5, <1>9
  <2>2. z < x
    BY <1>2, <1>3, <1>5, <2>1
  <2> QED
    BY <1>6, <2>2, Cancelled
<1> QED
  BY <1>8, <1>9 DEF u, w

Weighed(sc) ==
    \A c \in DOMAIN sc :
        c \in Nat /\ sc[c].earned \in Nat /\ sc[c].possible \in Nat \ {0}
OutranksPairs(sc, S) == {x \in S \X S : Outranks(sc[x[1]], x[1], sc[x[2]], x[2])}

LEMMA OutranksIsAnOrder ==
  ASSUME NEW sc, Weighed(sc), NEW S, S \subseteq DOMAIN sc
  PROVE  /\ Orders(OutranksPairs(sc, S), S)
         /\ \A c, d \in S : <<c, d>> \in OutranksPairs(sc, S) => Compare(sc[c], sc[d]) >= 0
<1> DEFINE above(c, d) == Outranks(sc[c], c, sc[d], d)
           more(c, d) == sc[d].earned * sc[c].possible <= sc[c].earned * sc[d].possible
           much(c, d) == sc[d].earned * sc[c].possible < sc[c].earned * sc[d].possible
<1>1. \A c \in S : c \in Nat /\ sc[c].earned \in Nat /\ sc[c].possible \in Nat \ {0}
  BY DEF Weighed
<1>2. \A c, d \in S : sc[c].earned * sc[d].possible \in Nat
  BY <1>1, Products
<1>3. \A c, d \in S :
         /\ above(c, d) <=> much(c, d) \/ (more(c, d) /\ more(d, c) /\ c < d)
         /\ above(c, d) => more(c, d)
         /\ Compare(sc[c], sc[d]) >= 0 <=> more(c, d)
         /\ more(c, d) \/ much(d, c)
         /\ much(c, d) <=> more(c, d) /\ ~more(d, c)
  <2> TAKE c \in S, d \in S
  <2> DEFINE x == sc[c].earned * sc[d].possible
             y == sc[d].earned * sc[c].possible
  <2>1. x \in Nat /\ y \in Nat /\ c \in Nat /\ d \in Nat
    BY <1>1, <1>2
  <2>2. Compare(sc[c], sc[d]) = x - y
    BY DEF Compare
  <2>3. above(c, d) <=> x - y > 0 \/ (x - y = 0 /\ c < d)
    BY <2>2 DEF Outranks
  <2>4. /\ (more(c, d) <=> y <= x) /\ (much(c, d) <=> y < x)
        /\ (more(d, c) <=> x <= y) /\ (much(d, c) <=> x < y)
    OBVIOUS
  <2> HIDE DEF x, y, above, more, much
  <2> QED
    BY <2>1, <2>2, <2>3, <2>4
<1>4. ASSUME NEW c \in S, NEW d \in S, NEW e \in S, more(c, d), more(d, e)
      PROVE  more(c, e) /\ (much(c, d) \/ much(d, e) => much(c, e))
  <2> DEFINE a == sc[c].earned
             p == sc[c].possible
             b == sc[d].earned
             q == sc[d].possible
             f == sc[e].earned
             r == sc[e].possible
  <2>1. /\ a \in Nat /\ b \in Nat /\ f \in Nat
        /\ p \in Nat \ {0} /\ q \in Nat \ {0} /\ r \in Nat \ {0}
    BY <1>1
  <2>2. b * p <= a * q /\ f * q <= b * r
    BY <1>4
  <2> HIDE DEF a, b, f, p, q, r
  <2>3. /\ f * p <= a * r
        /\ b * p < a * q \/ f * q < b * r => f * p < a * r
    BY <2>1, <2>2, FractionsInTurn
  <2> QED
    BY <2>3 DEF a, b, f, p, q, r
<1> HIDE DEF above, more, much
<1>5. \A c \in S : ~above(c, c)
  BY <1>1, <1>3
<1>6. \A c, d \in S : c # d => above(c, d) \/ above(d, c)
  BY <1>1, <1>3
<1>7. ASSUME NEW c \in S, NEW d \in S, NEW e \in S, above(c, d), above(d, e)
      PROVE  above(c, e)
  <2>1. more(c, d) /\ more(d, e) /\ more(c, e)
    BY <1>3, <1>4, <1>7
  <2>2. CASE much(c, d) \/ much(d, e)
    BY <1>3, <1>4, <2>1, <2>2
  <2>3. CASE ~(much(c, d) \/ much(d, e))
    <3>1. more(d, c) /\ more(e, d) /\ c < d /\ d < e
      BY <1>3, <1>7, <2>3
    <3>2. more(e, c) /\ c < e
      BY <1>1, <1>4, <3>1
    <3> QED
      BY <1>3, <2>1, <3>2
  <2> QED
    BY <2>2, <2>3
<1>8. \A c, d \in S : <<c, d>> \in OutranksPairs(sc, S) <=> above(c, d)
  BY DEF OutranksPairs, above
<1> QED
  BY <1>3, <1>5, <1>6, <1>7, <1>8 DEF Orders

(* A list of contestants by score: each once, best first.                    *)
LEMMA RankedInOrder ==
  ASSUME NEW sc, Weighed(sc), NEW S, S \subseteq DOMAIN sc, IsFiniteSet(S)
  PROVE  /\ Cardinality(S) \in Nat
         /\ Ranked(sc, S) \in [1..Cardinality(S) -> S]
         /\ \A i, j \in 1..Cardinality(S) :
              i < j => Compare(sc[Ranked(sc, S)[i]], sc[Ranked(sc, S)[j]]) >= 0
         /\ \A i, j \in 1..Cardinality(S) : Ranked(sc, S)[i] = Ranked(sc, S)[j] => i = j
         /\ \A c \in S : \E i \in 1..Cardinality(S) : Ranked(sc, S)[i] = c
<1> DEFINE l == Ranked(sc, S)
           R == OutranksPairs(sc, S)
           n == Cardinality(S)
<1>1. l = Listed(S, R)
  BY DEF Ranked, OutranksPairs
<1>2. Orders(R, S) /\ \A c, d \in S : <<c, d>> \in R => Compare(sc[c], sc[d]) >= 0
  BY OutranksIsAnOrder
<1> HIDE DEF l, R, n
<1>3. /\ n \in Nat /\ l \in [1..n -> S]
      /\ \A i, j \in 1..n : i < j => <<l[i], l[j]>> \in R
      /\ \A i, j \in 1..n : l[i] = l[j] => i = j
      /\ \A c \in S : \E i \in 1..n : l[i] = c
  BY <1>1, <1>2, ListedInOrder DEF n
<1>4. \A i, j \in 1..n : i < j => Compare(sc[l[i]], sc[l[j]]) >= 0
  BY <1>2, <1>3
<1> QED
  BY <1>3, <1>4 DEF l, n

-----------------------------------------------------------------------------
(* Compass: scores of stances.                                               *)

AnswersOK(answers) ==
    \A t \in DOMAIN answers : answers[t].value \in -2..2 /\ answers[t].weight \in 1..2
StancesOK(stances) ==
    IsFiniteSet(stances) /\ \A s \in stances : s.who \in Nat /\ s.stance \in -2..2

LEMMA PointsOf ==
  ASSUME NEW x \in -2..2, NEW y \in -2..2
  PROVE  AgreementPoints(x, y) \in 0..4
BY DEF AgreementPoints, AbsDiff

LEMMA OnAnsweredOf ==
  ASSUME NEW answers, AnswersOK(answers), NEW stances, StancesOK(stances),
         NEW c \in Compared(answers, stances)
  PROVE  LET of == OnAnswered(answers, stances, c)
         IN /\ IsFiniteSet(of) /\ of # {} /\ of \subseteq stances /\ c \in Nat
            /\ \A s \in of : /\ answers[s.thesis].weight \in 1..2
                             /\ AgreementPoints(answers[s.thesis].value, s.stance) \in 0..4
<1> DEFINE of == OnAnswered(answers, stances, c)
<1>1. of \subseteq stances /\ IsFiniteSet(of)
  BY FS_Subset DEF OnAnswered, StancesOK
<1>2. of # {} /\ c \in Nat
  BY DEF OnAnswered, Compared, StancesOK
<1>3. \A s \in of : /\ answers[s.thesis].weight \in 1..2
                    /\ answers[s.thesis].value \in -2..2 /\ s.stance \in -2..2
  BY DEF OnAnswered, AnswersOK, StancesOK
<1>4. \A s \in of : AgreementPoints(answers[s.thesis].value, s.stance) \in 0..4
  BY <1>3, PointsOf
<1> QED
  BY <1>1, <1>2, <1>3, <1>4

LEMMA ScoreOf ==
  ASSUME NEW answers, AnswersOK(answers), NEW stances, StancesOK(stances)
  PROVE  LET sc == Score(answers, stances)
         IN /\ DOMAIN sc = Compared(answers, stances) /\ IsFiniteSet(DOMAIN sc)
            /\ Weighed(sc)
            /\ \A c \in DOMAIN sc : LET of == OnAnswered(answers, stances, c)
                                    IN /\ sc[c].matched = Cardinality(of)
                                       /\ sc[c].earned = Earned(answers, of)
                                       /\ sc[c].possible = Possible(answers, of)
<1> DEFINE sc == Score(answers, stances)
           D == Compared(answers, stances)
           of(c) == OnAnswered(answers, stances, c)
<1>1. /\ DOMAIN sc = D
      /\ \A c \in D : /\ sc[c].matched = Cardinality(of(c))
                      /\ sc[c].earned = Earned(answers, of(c))
                      /\ sc[c].possible = Possible(answers, of(c))
  BY DEF Score
<1>2. IsFiniteSet(D)
  <2> DEFINE T == {s \in stances : s.thesis \in DOMAIN answers}
             f == [s \in T |-> s.who]
  <2>1. IsFiniteSet(T)
    BY FS_Subset DEF StancesOK
  <2>2. f \in [T -> D] /\ \A c \in D : \E s \in T : f[s] = c
    BY DEF Compared
  <2> HIDE DEF T, f, D
  <2> QED
    BY <2>1, <2>2, ImageOf
<1>3. ASSUME NEW c \in D
      PROVE  Earned(answers, of(c)) \in Nat /\ Possible(answers, of(c)) \in Nat \ {0}
  <2> DEFINE S == of(c)
             e == [s \in S |-> AgreementPoints(answers[s.thesis].value, s.stance)
                               * answers[s.thesis].weight]
             p == [s \in S |-> 4 * answers[s.thesis].weight]
  <2>1. /\ IsFiniteSet(S) /\ S # {}
        /\ \A s \in S : /\ answers[s.thesis].weight \in 1..2
                        /\ AgreementPoints(answers[s.thesis].value, s.stance) \in 0..4
    BY OnAnsweredOf
  <2> HIDE DEF S
  <2>2. DOMAIN e = S /\ DOMAIN p = S /\ \A s \in S : e[s] \in Nat /\ p[s] \in Nat \ {0}
    <3>1. \A x \in 0..4, y \in 1..2 : x * y \in Nat /\ 4 * y \in Nat \ {0}
      OBVIOUS
    <3> QED
      BY <2>1, <3>1
  <2>3. PICK x \in S : TRUE
    BY <2>1
  <2>4. p[x] > 0
    BY <2>2
  <2> HIDE DEF e, p
  <2>5. Total(e) \in Nat
    BY <2>1, <2>2, UnitsFinite
  <2>6. Total(p) \in Nat \ {0}
    BY <2>1, <2>2, <2>4, TotalPositive
  <2>7. Earned(answers, S) = Total(e) /\ Possible(answers, S) = Total(p)
    BY DEF Earned, Possible, e, p
  <2> QED
    BY <2>5, <2>6, <2>7 DEF S
<1>4. \A c \in D : c \in Nat
  BY OnAnsweredOf
<1> HIDE DEF sc, D, of
<1>5. Weighed(sc)
  BY <1>1, <1>3, <1>4 DEF Weighed
<1> QED
  BY <1>1, <1>2, <1>5 DEF sc, D, of

(* A score lies between the least and the most of the agreements it rests on. *)
PointsFor(answers, stances, c) ==
    {25 * AgreementPoints(answers[s.thesis].value, s.stance) : s \in OnAnswered(answers, stances, c)}

LEMMA ScoreIsMean ==
  ASSUME NEW answers, AnswersOK(answers), NEW stances, StancesOK(stances),
         NEW c \in Compared(answers, stances)
  PROVE  LET points == PointsFor(answers, stances, c)
         IN /\ Percent(Score(answers, stances)[c]) \in Min(points)..Max(points)
            /\ Percent(Score(answers, stances)[c]) \in 0..100
<1> DEFINE of == OnAnswered(answers, stances, c)
           points == PointsFor(answers, stances, c)
           lo == Min(points)
           hi == Max(points)
           pts(s) == AgreementPoints(answers[s.thesis].value, s.stance)
           w(s) == answers[s.thesis].weight
           e == [s \in of |-> pts(s) * w(s)]
           p == [s \in of |-> 4 * w(s)]
           x == Score(answers, stances)[c]
<1>1. /\ IsFiniteSet(of) /\ of # {}
      /\ \A s \in of : w(s) \in 1..2 /\ pts(s) \in 0..4
  BY OnAnsweredOf
<1>2. points = {25 * pts(s) : s \in of}
  BY DEF PointsFor
<1>3. /\ x.earned = Total(e) /\ x.possible = Total(p)
      /\ x.earned \in Nat /\ x.possible \in Nat \ {0}
  BY ScoreOf DEF Weighed, Earned, Possible
<1> HIDE DEF of, points, x, pts, w
<1>4. points # {} /\ \A y \in points : y \in 0..100
  BY <1>1, <1>2
<1>5. lo \in points /\ \A y \in points : lo <= y
  <2>1. PICK least \in points : \A m \in points : least <= m
    BY <1>4, SmallestOf
  <2>2. lo = CHOOSE n \in points : \A m \in points : n <= m
    BY DEF Min
  <2> HIDE DEF lo
  <2> QED
    BY <2>1, <2>2
<1>6. hi \in points /\ \A y \in points : y <= hi
  <2> DEFINE from == {100 - y : y \in points}
  <2>1. from # {} /\ from \subseteq Nat
    BY <1>4
  <2> HIDE DEF from
  <2>2. PICK n \in from : \A m \in from : n <= m
    BY <2>1, SmallestOf
  <2>3. PICK z \in points : n = 100 - z
    BY <2>2 DEF from
  <2>4. \A y \in points : 100 - z <= 100 - y
    BY <2>2, <2>3 DEF from
  <2>5. \A y \in points : z >= y
    BY <1>4, <2>4
  <2>6. hi = CHOOSE n_ \in points : \A m \in points : n_ >= m
    BY DEF Max
  <2> HIDE DEF hi
  <2>7. hi \in points /\ \A y \in points : hi >= y
    BY <2>3, <2>5, <2>6
  <2> QED
    BY <1>4, <2>7
<1>7. lo \in Nat /\ hi \in Nat
  BY <1>4, <1>5, <1>6
<1>8. e \in [of -> Nat] /\ p \in [of -> Nat]
  <2>1. \A y \in 0..4, z \in 1..2 : y * z \in Nat /\ 4 * z \in Nat
    OBVIOUS
  <2> QED
    BY <1>1, <2>1
<1>9. \A s \in of : lo <= 25 * pts(s) /\ 25 * pts(s) <= hi
  BY <1>2, <1>5, <1>6
<1> HIDE DEF lo, hi
<1>10. ASSUME NEW s \in of
       PROVE  lo * p[s] <= 100 * e[s] /\ 100 * e[s] <= hi * p[s]
  <2> DEFINE y == 25 * pts(s)
             z == 4 * w(s)
  <2>1. y \in Nat /\ z \in Nat /\ lo <= y /\ y <= hi
    BY <1>1, <1>9
  <2>2. 100 * e[s] = y * z /\ p[s] = z
    <3>1. pts(s) \in Nat /\ w(s) \in Nat
      BY <1>1
    <3>2. e[s] = pts(s) * w(s)
      OBVIOUS
    <3> QED
      BY <3>1, <3>2
  <2> HIDE DEF y, z
  <2>3. lo * z <= y * z /\ y * z <= hi * z
    BY <1>7, <2>1, Products
  <2> QED
    BY <2>2, <2>3
<1> HIDE DEF e, p
<1>11. lo * Total(p) <= 100 * Total(e) /\ 100 * Total(e) <= hi * Total(p)
  <2>1. IsFiniteSet(of)
    BY <1>1
  <2>2. EachBetween(of, e, p, lo, hi)
    BY <1>7, <1>8, <1>10, <2>1 DEF EachBetween
  <2> QED
    BY <2>2, MeanOf, Zenon
<1>12. Percent(x) \in lo..hi
  BY <1>3, <1>7, <1>11, RoundedBetween
<1>13. Percent(x) \in 0..100
  BY <1>4, <1>5, <1>6, <1>12
<1> QED
  BY <1>12, <1>13 DEF lo, hi, points, x

-----------------------------------------------------------------------------
(* Compass: who stands for whom.                                             *)

WithEvidence(found) == {e.who : e \in found}

LEMMA SignedAlike ==
  ASSUME NEW found, NEW c \in WithEvidence(found), NEW d,
         Signatures(found, d) = Signatures(found, c)
  PROVE  d \in WithEvidence(found)
<1>1. \A x : DOMAIN Signatures(found, x) = {Signature(e) : e \in {e \in found : e.who = x}}
  BY DEF Signatures
<1>2. DOMAIN Signatures(found, d) = DOMAIN Signatures(found, c)
  OBVIOUS
<1>3. PICK e \in found : e.who = c
  BY DEF WithEvidence
<1>4. Signature(e) \in DOMAIN Signatures(found, c)
  BY <1>1, <1>3
<1>5. Signature(e) \in {Signature(f) : f \in {f \in found : f.who = d}}
  BY <1>1, <1>2, <1>4
<1>6. \E f \in found : f.who = d
  BY <1>5
<1> QED
  BY <1>6 DEF WithEvidence

LEMMA StandsFor ==
  ASSUME NEW found, \A e \in found : e.who \in Nat
  PROVE  LET stand == MergeIdentical(found)
         IN /\ DOMAIN stand = WithEvidence(found)
            /\ \A c \in WithEvidence(found) :
                 /\ stand[c] \in WithEvidence(found)
                 /\ Signatures(found, stand[c]) = Signatures(found, c)
            /\ \A c, d \in WithEvidence(found) :
                 Signatures(found, c) = Signatures(found, d) => stand[c] = stand[d]
<1> DEFINE stand == MergeIdentical(found)
           ids == WithEvidence(found)
           like(c) == {d \in ids : Signatures(found, d) = Signatures(found, c)}
<1>1. DOMAIN stand = ids /\ \A c \in ids : stand[c] = Min(like(c))
  BY DEF MergeIdentical, WithEvidence
<1>2. ids \subseteq Nat
  BY DEF WithEvidence
<1> HIDE DEF stand, ids
<1>3. ASSUME NEW c \in ids
      PROVE  stand[c] \in like(c)
  <2> DEFINE S == like(c)
  <2>1. S # {} /\ S \subseteq Nat
    BY <1>2
  <2> HIDE DEF S
  <2>2. PICK n \in S : \A m \in S : n <= m
    BY <2>1, SmallestOf
  <2>3. Min(S) = CHOOSE k \in S : \A m \in S : k <= m
    BY DEF Min
  <2>4. Min(S) \in S
    BY <2>2, <2>3
  <2> QED
    BY <1>1, <2>4 DEF S
<1>4. ASSUME NEW c \in ids, NEW d \in ids, Signatures(found, c) = Signatures(found, d)
      PROVE  stand[c] = stand[d]
  <2>1. like(c) = like(d)
    BY <1>4
  <2> QED
    BY <1>1, <2>1
<1> QED
  BY <1>1, <1>3, <1>4 DEF stand, ids

(* Stances of the contestants that stand for themselves: what is scored.     *)
PositionsOK(positions) ==
    /\ StancesOK(positions)
    /\ \A p, q \in positions : p.thesis = q.thesis /\ p.who = q.who => p = q
StandingFor(positions, found) ==
    {p \in positions : /\ p.who \in DOMAIN MergeIdentical(found)
                       /\ MergeIdentical(found)[p.who] = p.who}

LEMMA ScoredOf ==
  ASSUME NEW positions, PositionsOK(positions), NEW found, NEW answers
  PROVE  LET stances == StandingFor(positions, found)
         IN /\ StancesOK(stances)
            /\ \A c \in Compared(answers, stances) :
                 /\ c \in DOMAIN MergeIdentical(found) /\ MergeIdentical(found)[c] = c
                 /\ OnAnswered(answers, stances, c) = OnAnswered(answers, positions, c)
<1> DEFINE stances == StandingFor(positions, found)
           stand == MergeIdentical(found)
<1>1. \A p : p \in stances <=> p \in positions /\ p.who \in DOMAIN stand /\ stand[p.who] = p.who
  BY DEF StandingFor
<1> HIDE DEF stances, stand
<1>2. StancesOK(stances)
  <2>1. stances \subseteq positions /\ IsFiniteSet(positions)
    BY <1>1 DEF PositionsOK, StancesOK
  <2>2. IsFiniteSet(stances)
    BY <2>1, FS_Subset
  <2> QED
    BY <2>1, <2>2 DEF PositionsOK, StancesOK
<1>3. ASSUME NEW c \in Compared(answers, stances)
      PROVE  /\ c \in DOMAIN stand /\ stand[c] = c
             /\ OnAnswered(answers, stances, c) = OnAnswered(answers, positions, c)
  <2>1. c \in DOMAIN stand /\ stand[c] = c
    BY <1>1 DEF Compared
  <2> QED
    BY <1>1, <2>1 DEF OnAnswered
<1> QED
  BY <1>2, <1>3 DEF stances, stand

-----------------------------------------------------------------------------
(* Compass: the rows of a result.                                            *)

ScoresOf(answers, positions, found) == Score(answers, StandingFor(positions, found))
RowsShown(answers, positions, found, known) ==
    ResultRowsOf(ScoresOf(answers, positions, found), MergeIdentical(found), known)
RowCount(answers, positions, found, known) ==
    Cardinality(known \cap DOMAIN ScoresOf(answers, positions, found))
RankedOf(answers, positions, found, known) ==
    LET scores == ScoresOf(answers, positions, found)
    IN Ranked(scores, known \cap DOMAIN scores)

LEMMA RowsInOrder ==
  ASSUME NEW answers, AnswersOK(answers), NEW positions, PositionsOK(positions),
         NEW found, NEW known
  PROVE  LET scores == ScoresOf(answers, positions, found)
             n == RowCount(answers, positions, found, known)
             l == RankedOf(answers, positions, found, known)
             shown == RowsShown(answers, positions, found, known)
         IN /\ n \in Nat /\ l \in [1..n -> known \cap DOMAIN scores]
            /\ DOMAIN shown = 1..n
            /\ \A i \in 1..n :
                 /\ shown[i].who = l[i] /\ shown[i].percent = Percent(scores[l[i]])
                 /\ shown[i].matched = scores[l[i]].matched
                 /\ shown[i].also = {d \in known \cap DOMAIN MergeIdentical(found) :
                                        d # l[i] /\ MergeIdentical(found)[d] = l[i]}
            /\ \A i, j \in 1..n : l[i] = l[j] => i = j
            /\ \A c \in known \cap DOMAIN scores : \E i \in 1..n : l[i] = c
            /\ \A i, j \in 1..n : i < j => Percent(scores[l[i]]) >= Percent(scores[l[j]])
<1> DEFINE stances == StandingFor(positions, found)
           scores == ScoresOf(answers, positions, found)
           S == known \cap DOMAIN scores
           n == RowCount(answers, positions, found, known)
           l == RankedOf(answers, positions, found, known)
           shown == RowsShown(answers, positions, found, known)
           stand == MergeIdentical(found)
           row(c) == [who |-> c, percent |-> Percent(scores[c]), matched |-> scores[c].matched,
                      also |-> {d \in known \cap DOMAIN stand : d # c /\ stand[d] = c}]
<1>1. StancesOK(stances)
  BY ScoredOf
<1>2. IsFiniteSet(DOMAIN scores) /\ Weighed(scores)
  BY <1>1, ScoreOf DEF ScoresOf
<1>3. n = Cardinality(S) /\ l = Ranked(scores, S)
  BY DEF RowCount, RankedOf
<1>4. shown = [i \in DOMAIN l |-> row(l[i])]
  BY DEF RowsShown, ResultRowsOf, RankedOf
<1>5. S \subseteq DOMAIN scores /\ IsFiniteSet(S)
  <2>1. S \subseteq DOMAIN scores
    OBVIOUS
  <2> HIDE DEF S
  <2> QED
    BY <1>2, <2>1, FS_Subset
<1> HIDE DEF scores, S, n, l, shown
<1>6. /\ n \in Nat /\ l \in [1..n -> S]
      /\ \A i, j \in 1..n : i < j => Compare(scores[l[i]], scores[l[j]]) >= 0
      /\ \A i, j \in 1..n : l[i] = l[j] => i = j
      /\ \A c \in S : \E i \in 1..n : l[i] = c
  BY <1>2, <1>3, <1>5, RankedInOrder
<1>7. ASSUME NEW i \in 1..n, NEW j \in 1..n, i < j
      PROVE  Percent(scores[l[i]]) >= Percent(scores[l[j]])
  <2> DEFINE s == scores[l[i]]
             t == scores[l[j]]
  <2>1. /\ s.earned \in Nat /\ s.possible \in Nat \ {0}
        /\ t.earned \in Nat /\ t.possible \in Nat \ {0}
    BY <1>2, <1>5, <1>6 DEF Weighed
  <2>2. Compare(s, t) >= 0
    BY <1>6, <1>7
  <2> HIDE DEF s, t
  <2>3. Percent(s) >= Percent(t)
    BY <2>1, <2>2, RoundedGrows
  <2> QED
    BY <2>3 DEF s, t
<1>8. DOMAIN shown = 1..n /\ \A i \in 1..n : shown[i] = row(l[i])
  <2>1. DOMAIN l = 1..n
    BY <1>6
  <2> HIDE DEF row
  <2> QED
    BY <1>4, <2>1
<1>9. \A i \in 1..n :
         /\ shown[i].who = l[i] /\ shown[i].percent = Percent(scores[l[i]])
         /\ shown[i].matched = scores[l[i]].matched
         /\ shown[i].also = {d \in known \cap DOMAIN stand : d # l[i] /\ stand[d] = l[i]}
  BY <1>8
<1> HIDE DEF row
<1> QED
  BY <1>6, <1>7, <1>8, <1>9 DEF scores, S, n, l, shown

NamedIn(l, i) == {l[i].who} \cup l[i].also
RowsApart(l, found) ==
    /\ \A i, j \in DOMAIN l : i # j => NamedIn(l, i) \cap NamedIn(l, j) = {}
    /\ \A i \in DOMAIN l : \A c \in l[i].also : Signatures(found, c) = Signatures(found, l[i].who)

(* No contestant is in two rows, a row folds in only those with the evidence *)
(* of its contestant, and those scored have their row.                       *)
LEMMA RowsOnce ==
  ASSUME NEW answers, AnswersOK(answers), NEW positions, PositionsOK(positions),
         NEW found, \A e \in found : e.who \in Nat, NEW known
  PROVE  RowsApart(RowsShown(answers, positions, found, known), found)
<1> DEFINE stand == MergeIdentical(found)
           scores == ScoresOf(answers, positions, found)
           n == RowCount(answers, positions, found, known)
           l == RankedOf(answers, positions, found, known)
           shown == RowsShown(answers, positions, found, known)
           named(i) == {shown[i].who} \cup shown[i].also
           ids == WithEvidence(found)
<1>1. /\ n \in Nat /\ l \in [1..n -> known \cap DOMAIN scores] /\ DOMAIN shown = 1..n
      /\ \A i \in 1..n :
           /\ shown[i].who = l[i]
           /\ shown[i].also = {d \in known \cap DOMAIN stand : d # l[i] /\ stand[d] = l[i]}
      /\ \A i, j \in 1..n : l[i] = l[j] => i = j
  BY RowsInOrder
<1>2. /\ DOMAIN stand = ids
      /\ \A c \in ids : Signatures(found, stand[c]) = Signatures(found, c)
  BY StandsFor
<1>3. \A c \in DOMAIN scores : c \in DOMAIN stand /\ stand[c] = c
  <2>1. DOMAIN scores = Compared(answers, StandingFor(positions, found))
    BY DEF ScoresOf, Score
  <2> QED
    BY <2>1, ScoredOf
<1> HIDE DEF stand, scores, n, l, shown, ids
<1>4. ASSUME NEW i \in 1..n, NEW c \in named(i)
      PROVE  c \in DOMAIN stand /\ stand[c] = l[i]
  BY <1>1, <1>3, <1>4
<1>5. ASSUME NEW i \in 1..n, NEW j \in 1..n, i # j
      PROVE  named(i) \cap named(j) = {}
  <2> HIDE DEF named
  <2>1. l[i] # l[j]
    BY <1>1, <1>5
  <2> QED
    BY <1>4, <2>1
<1>6. ASSUME NEW i \in 1..n, NEW c \in shown[i].also
      PROVE  Signatures(found, c) = Signatures(found, shown[i].who)
  <2>1. c \in ids /\ stand[c] = shown[i].who
    BY <1>1, <1>2, <1>6
  <2> QED
    BY <1>2, <2>1
<1>7. RowsApart(shown, found)
  BY <1>1, <1>5, <1>6 DEF RowsApart, NamedIn
<1> QED
  BY <1>7 DEF shown

(* And no one is left out whose evidence was read, unless the one it is      *)
(* folded under was recorded after the positions were read.                  *)
LEMMA NobodyLeftOut ==
  ASSUME NEW answers, AnswersOK(answers), NEW positions, PositionsOK(positions),
         NEW found, \A e \in found : e.who \in Nat, NEW known,
         NEW p \in positions, p.thesis \in DOMAIN answers, p.who \in known,
         NEW q \in positions, q.who \in known,
         \E e \in found : e.who = p.who,
         Signatures(found, p.who) = Signatures(found, q.who), p.who = MergeIdentical(found)[p.who]
  PROVE  LET shown == RowsShown(answers, positions, found, known)
         IN \E i \in DOMAIN shown :
                shown[i].who = p.who /\ q.who \in {shown[i].who} \cup shown[i].also
<1> DEFINE stand == MergeIdentical(found)
           scores == ScoresOf(answers, positions, found)
           n == RowCount(answers, positions, found, known)
           l == RankedOf(answers, positions, found, known)
           shown == RowsShown(answers, positions, found, known)
           ids == WithEvidence(found)
<1>1. /\ DOMAIN shown = 1..n
      /\ \A i \in 1..n :
           /\ shown[i].who = l[i]
           /\ shown[i].also = {d \in known \cap DOMAIN stand : d # l[i] /\ stand[d] = l[i]}
      /\ \A c \in known \cap DOMAIN scores : \E i \in 1..n : l[i] = c
  BY RowsInOrder
<1>2. p.who \in ids
  BY DEF WithEvidence
<1>3. q.who \in ids
  BY <1>2, SignedAlike
<1>4. /\ DOMAIN stand = ids
      /\ \A c, d \in ids : Signatures(found, c) = Signatures(found, d) => stand[c] = stand[d]
  BY StandsFor
<1>5. p.who \in DOMAIN scores
  <2>1. p \in StandingFor(positions, found)
    BY <1>2, <1>4 DEF StandingFor
  <2>2. p.who \in Compared(answers, StandingFor(positions, found))
    BY <2>1 DEF Compared
  <2> QED
    BY <2>2 DEF ScoresOf, Score
<1>6. stand[q.who] = p.who
  BY <1>2, <1>3, <1>4
<1> HIDE DEF stand, scores, n, l, shown, ids
<1>7. PICK i \in 1..n : l[i] = p.who
  BY <1>1, <1>5
<1>8. q.who \in {shown[i].who} \cup shown[i].also
  BY <1>1, <1>3, <1>4, <1>6, <1>7
<1>9. shown[i].who = p.who /\ i \in DOMAIN shown
  BY <1>1, <1>7
<1> QED
  BY <1>8, <1>9 DEF shown

Means(l, answers, positions) ==
    \A i \in DOMAIN l :
        LET on == OnAnswered(answers, positions, l[i].who)
            points == {25 * AgreementPoints(answers[p.thesis].value, p.stance) : p \in on}
        IN /\ l[i].matched = Cardinality({p.thesis : p \in on})
           /\ l[i].percent \in Min(points)..Max(points)
           /\ l[i].percent \in 0..100 /\ l[i].matched \in Nat \ {0}

(* A row's percentage is a mean of the positions it counts.                  *)
LEMMA RowsAreMeans ==
  ASSUME NEW answers, AnswersOK(answers), NEW positions, PositionsOK(positions),
         NEW found, NEW known
  PROVE  Means(RowsShown(answers, positions, found, known), answers, positions)
<1> DEFINE stances == StandingFor(positions, found)
           scores == ScoresOf(answers, positions, found)
           n == RowCount(answers, positions, found, known)
           l == RankedOf(answers, positions, found, known)
           shown == RowsShown(answers, positions, found, known)
<1>1. /\ l \in [1..n -> known \cap DOMAIN scores] /\ DOMAIN shown = 1..n
      /\ \A i \in 1..n : /\ shown[i].who = l[i] /\ shown[i].percent = Percent(scores[l[i]])
                         /\ shown[i].matched = scores[l[i]].matched
  BY RowsInOrder
<1>2. /\ StancesOK(stances)
      /\ \A c \in Compared(answers, stances) :
           OnAnswered(answers, stances, c) = OnAnswered(answers, positions, c)
  BY ScoredOf
<1>3. /\ DOMAIN scores = Compared(answers, stances)
      /\ \A c \in DOMAIN scores :
           scores[c].matched = Cardinality(OnAnswered(answers, stances, c))
  BY <1>2, ScoreOf DEF ScoresOf
<1> HIDE DEF n, l, shown
<1> SUFFICES ASSUME NEW i \in 1..n
             PROVE  LET on == OnAnswered(answers, positions, shown[i].who)
                        points == {25 * AgreementPoints(answers[p.thesis].value, p.stance) :
                                       p \in on}
                    IN /\ shown[i].matched = Cardinality({p.thesis : p \in on})
                       /\ shown[i].percent \in Min(points)..Max(points)
                       /\ shown[i].percent \in 0..100 /\ shown[i].matched \in Nat \ {0}
  BY <1>1 DEF shown, Means
<1> DEFINE c == l[i]
           on == OnAnswered(answers, positions, c)
           points == {25 * AgreementPoints(answers[p.thesis].value, p.stance) : p \in on}
           seen == {p.thesis : p \in on}
<1>4. c \in Compared(answers, stances) /\ shown[i].who = c
  BY <1>1, <1>3
<1>5. OnAnswered(answers, stances, c) = on
  BY <1>2, <1>4
<1>6. IsFiniteSet(on) /\ on # {} /\ on \subseteq positions
      /\ \A p \in on : AgreementPoints(answers[p.thesis].value, p.stance) \in 0..4
  <2>1. stances \subseteq positions
    BY DEF StandingFor
  <2>2. LET of == OnAnswered(answers, stances, c)
        IN /\ IsFiniteSet(of) /\ of # {} /\ of \subseteq stances /\ c \in Nat
           /\ \A s \in of : /\ answers[s.thesis].weight \in 1..2
                            /\ AgreementPoints(answers[s.thesis].value, s.stance) \in 0..4
    BY <1>2, <1>4, OnAnsweredOf
  <2> HIDE DEF c, on, stances
  <2> QED
    BY <1>5, <2>1, <2>2
<1>7. Cardinality(seen) = Cardinality(on)
  <2> DEFINE f == [p \in on |-> p.thesis]
  <2>1. f \in [on -> seen] /\ \A t \in seen : \E p \in on : f[p] = t
    OBVIOUS
  <2>2. \A p, q \in on : f[p] = f[q] => p = q
    BY <1>6 DEF PositionsOK, OnAnswered
  <2> HIDE DEF f, on, seen
  <2> QED
    BY <1>6, <2>1, <2>2, OneToOne
<1>8. shown[i].matched = Cardinality(seen)
  BY <1>1, <1>3, <1>4, <1>5, <1>7
<1>9. shown[i].percent \in Min(points)..Max(points) /\ shown[i].percent \in 0..100
  <2>1. LET over == PointsFor(answers, stances, c)
        IN /\ Percent(Score(answers, stances)[c]) \in Min(over)..Max(over)
           /\ Percent(Score(answers, stances)[c]) \in 0..100
    BY <1>2, <1>4, ScoreIsMean
  <2>2. PointsFor(answers, stances, c) = points
    BY <1>5 DEF PointsFor
  <2>3. shown[i].percent = Percent(Score(answers, stances)[c])
    BY <1>1 DEF ScoresOf
  <2> HIDE DEF points
  <2> QED
    BY <2>1, <2>2, <2>3
<1>10. shown[i].matched \in Nat \ {0}
  <2> HIDE DEF on, seen
  <2> QED
    BY <1>6, <1>7, <1>8, FS_CardinalityType, FS_EmptySet
<1> QED
  BY <1>4, <1>8, <1>9, <1>10

-----------------------------------------------------------------------------
(* Compass: the members of a place.                                          *)

OnceEach(l, S) ==
    /\ IsFiniteSet(S) /\ l \in [1..Cardinality(S) -> S]
    /\ \A i, j \in 1..Cardinality(S) : l[i] = l[j] => i = j
    /\ \A x \in S : \E i \in 1..Cardinality(S) : l[i] = x

LEMMA OnceEachJoined ==
  ASSUME NEW A, NEW B, NEW a, NEW b, OnceEach(a, A), OnceEach(b, B), A \cap B = {}
  PROVE  OnceEach(a \o b, A \cup B)
<1> DEFINE m == Cardinality(A)
           n == Cardinality(B)
           l == a \o b
           S == A \cup B
<1>1. IsFiniteSet(A) /\ IsFiniteSet(B) /\ m \in Nat /\ n \in Nat
  BY FS_CardinalityType DEF OnceEach
<1>2. IsFiniteSet(S) /\ Cardinality(S) = m + n
  <2>1. IsFiniteSet(S) /\ Cardinality(S) = m + n - Cardinality(A \cap B)
    BY <1>1, FS_Union
  <2>2. Cardinality(A \cap B) = 0
    BY FS_EmptySet
  <2> HIDE DEF S, m, n
  <2>3. m + n - 0 = m + n
    BY <1>1
  <2> QED
    BY <2>1, <2>2, <2>3
<1>3. /\ a \in [1..m -> A] /\ \A i, j \in 1..m : a[i] = a[j] => i = j
      /\ \A x \in A : \E i \in 1..m : a[i] = x
  BY DEF OnceEach
<1>4. /\ b \in [1..n -> B] /\ \A i, j \in 1..n : b[i] = b[j] => i = j
      /\ \A x \in B : \E i \in 1..n : b[i] = x
  BY DEF OnceEach
<1> HIDE DEF m, n, S
<1>5. /\ a \in Seq(A) /\ Len(a) = m /\ b \in Seq(B) /\ Len(b) = n
  BY <1>1, <1>3, <1>4
<1>6. /\ DOMAIN l = 1..(m + n)
      /\ \A i \in 1..(m + n) : l[i] = IF i <= m THEN a[i] ELSE b[i - m]
  <2>1. a \in Seq(S) /\ b \in Seq(S)
    BY <1>3, <1>4, <1>5 DEF S
  <2>2. /\ l \in Seq(S) /\ Len(l) = m + n
        /\ \A i \in 1..(m + n) : l[i] = IF i <= m THEN a[i] ELSE b[i - m]
    <3>1. /\ l \in Seq(S) /\ Len(l) = Len(a) + Len(b)
          /\ \A i \in 1..(Len(a) + Len(b)) : l[i] = IF i <= Len(a) THEN a[i] ELSE b[i - Len(a)]
      BY <2>1, ConcatProperties, Zenon
    <3> QED
      BY <1>5, <3>1, Zenon
  <2> HIDE DEF l
  <2> QED
    BY <2>2, LenProperties
<1> HIDE DEF l
<1>7. \A i \in 1..(m + n) : \/ i \in 1..m /\ l[i] = a[i] /\ l[i] \in A
                            \/ i - m \in 1..n /\ l[i] = b[i - m] /\ l[i] \in B
  BY <1>1, <1>3, <1>4, <1>6
<1>8. l \in [1..(m + n) -> S]
  <2>1. a \in Seq(S) /\ b \in Seq(S)
    BY <1>3, <1>4, <1>5 DEF S
  <2>2. l \in Seq(S) /\ Len(l) = m + n
    BY <1>5, <2>1, ConcatProperties DEF l
  <2> QED
    BY <2>2, LenProperties
<1>9. ASSUME NEW i \in 1..(m + n), NEW j \in 1..(m + n), l[i] = l[j]
      PROVE  i = j
  <2>1. CASE i \in 1..m /\ l[i] = a[i] /\ l[i] \in A
    BY <1>3, <1>7, <1>9, <2>1
  <2>2. CASE i - m \in 1..n /\ l[i] = b[i - m] /\ l[i] \in B
    <3>1. j - m \in 1..n /\ l[j] = b[j - m]
      BY <1>7, <1>9, <2>2
    <3>2. i - m = j - m
      BY <1>4, <1>9, <2>2, <3>1
    <3> QED
      BY <1>1, <3>2
  <2> QED
    BY <1>7, <2>1, <2>2
<1>10. ASSUME NEW x \in S
       PROVE  \E i \in 1..(m + n) : l[i] = x
  <2>1. CASE x \in A
    <3>1. PICK i \in 1..m : a[i] = x
      BY <1>3, <2>1
    <3>2. i \in 1..(m + n) /\ i <= m
      BY <1>1
    <3> QED
      BY <1>6, <3>1, <3>2
  <2>2. CASE x \in B
    <3>1. PICK i \in 1..n : b[i] = x
      BY <1>4, <2>2
    <3> DEFINE j == i + m
    <3>2. j \in 1..(m + n) /\ ~(j <= m) /\ j - m = i
      BY <1>1
    <3> HIDE DEF j
    <3>3. l[j] = b[i]
      BY <1>6, <3>2
    <3> QED
      BY <3>1, <3>2, <3>3
  <2> QED
    BY <2>1, <2>2 DEF S
<1> QED
  BY <1>2, <1>8, <1>9, <1>10 DEF OnceEach, S, l

SeatsOf(place) ==
    {x \in DOMAIN Chamber.seat :
        Chamber.seat[x] \in {Chamber.place[place].district, Chamber.place[place].region}}

(* Every member of a place is in one list of them, or has no vote to read.   *)
LEMMA MembersOnce ==
  ASSUME NEW answers, AnswersOK(answers), NEW place,
         NEW stances, IsFiniteSet(stances), \A s \in stances : s.stance \in -2..2
  PROVE  LET m == LocalMembers(place, answers, stances)
             met == m.direct \o m.list
         IN /\ \A i, j \in DOMAIN met : met[i] = met[j] => i = j
            /\ Len(met) + m.unread = Cardinality(SeatsOf(place))
<1> DEFINE members == SeatsOf(place)
           near == {s \in stances : s.who \in members}
           sc == Score(answers, near)
           D == DOMAIN sc
           firm == {c \in D : sc[c].matched >= Solid}
           direct == {c \in D : Chamber.seat[c] = Chamber.place[place].district}
           sorted(S) == Ranked(sc, S \cap firm) \o Ranked(sc, S \ firm)
           m == LocalMembers(place, answers, stances)
           met == m.direct \o m.list
<1>1. m = [direct |-> sorted(direct), list |-> sorted(D \ direct),
           unread |-> Cardinality(members) - Cardinality(D)]
  BY DEF LocalMembers, SeatsOf
<1>2. IsFiniteSet(members)
  BY CompassAssumption, FS_Subset DEF SeatsOf
<1>3. StancesOK(near)
  <2>1. near \subseteq stances /\ IsFiniteSet(near)
    BY FS_Subset
  <2>2. members \subseteq Nat
    BY CompassAssumption DEF SeatsOf
  <2> QED
    BY <2>1, <2>2 DEF StancesOK
<1>4. Weighed(sc) /\ IsFiniteSet(D) /\ D = Compared(answers, near)
  BY <1>3, ScoreOf
<1>5. D \subseteq members
  BY <1>4 DEF Compared
<1>6. firm \subseteq D /\ direct \subseteq D
  OBVIOUS
<1> HIDE DEF members, sc, D, firm, direct, m
<1>7. ASSUME NEW S, S \subseteq D
      PROVE  OnceEach(Ranked(sc, S), S)
  <2>1. IsFiniteSet(S)
    BY <1>4, <1>7, FS_Subset
  <2> QED
    BY <1>4, <1>7, <2>1, RankedInOrder DEF OnceEach, D
<1>8. ASSUME NEW S, S \subseteq D
      PROVE  OnceEach(sorted(S), S)
  <2> DEFINE A == S \cap firm
             B == S \ firm
  <2>1. A \subseteq D /\ B \subseteq D /\ A \cap B = {} /\ A \cup B = S
    BY <1>8
  <2> HIDE DEF A, B
  <2>2. OnceEach(Ranked(sc, A), A) /\ OnceEach(Ranked(sc, B), B)
    BY <1>7, <2>1
  <2>3. OnceEach(Ranked(sc, A) \o Ranked(sc, B), A \cup B)
    BY <2>1, <2>2, OnceEachJoined
  <2> QED
    BY <2>1, <2>3 DEF A, B
<1>9. OnceEach(met, D)
  <2> DEFINE B == D \ direct
  <2>1. B \subseteq D /\ direct \cap B = {} /\ direct \cup B = D
    BY <1>6
  <2>2. m.direct = sorted(direct) /\ m.list = sorted(B)
    BY <1>1
  <2> HIDE DEF B, sorted
  <2>3. OnceEach(m.direct, direct) /\ OnceEach(m.list, B)
    BY <1>6, <1>8, <2>1, <2>2
  <2>4. OnceEach(m.direct \o m.list, direct \cup B)
    BY <2>1, <2>3, OnceEachJoined
  <2> QED
    BY <2>1, <2>4
<1>10. m.unread = Cardinality(members) - Cardinality(D)
  BY <1>1
<1> HIDE DEF met
<1>11. Cardinality(D) \in Nat /\ Cardinality(members) \in Nat
  BY <1>2, <1>4, FS_CardinalityType
<1>12. DOMAIN met = 1..Cardinality(D) /\ Len(met) = Cardinality(D)
  <2>1. met \in [1..Cardinality(D) -> D]
    BY <1>9 DEF OnceEach
  <2> QED
    BY <1>11, <2>1
<1>13. \A i, j \in DOMAIN met : met[i] = met[j] => i = j
  BY <1>9, <1>12 DEF OnceEach
<1>14. Len(met) + m.unread = Cardinality(members)
  BY <1>10, <1>11, <1>12
<1> QED
  BY <1>13, <1>14 DEF met, m, members

-----------------------------------------------------------------------------
(* Compass: what a link to a result opens.                                   *)

LinkOK(l) ==
    \E n \in Nat :
        /\ n <= MaxRows /\ l = [i \in 1..n |-> l[i]]
        /\ \A i \in 1..n : l[i].percent \in 0..100 /\ l[i].matched \in Nat \ {0}
        /\ \A i, j \in 1..n : i < j => l[i].percent >= l[j].percent
        /\ \A i, j \in 1..n : i # j => NamedIn(l, i) \cap NamedIn(l, j) = {}
        /\ \A i \in 1..n : NamedIn(l, i) \subseteq ScoredParties

LEMMA LinkDecodes ==
  ASSUME NEW l, LinkOK(l)
  PROVE  Decodes(l) <=> ~TooMerged(l) /\ TokenLength(l) <= MaxTokenLen
<1>1. PICK n \in Nat :
        /\ n <= MaxRows /\ l = [i \in 1..n |-> l[i]]
        /\ \A i \in 1..n : l[i].percent \in 0..100
        /\ \A i \in 1..n : NamedIn(l, i) \subseteq ScoredParties
  BY DEF LinkOK
<1>2. Len(l) = n /\ DOMAIN l = 1..n
  <2>1. \A i \in 1..n : l[i] \in {l[k] : k \in 1..n}
    OBVIOUS
  <2> DEFINE C == {l[k] : k \in 1..n}
  <2> HIDE DEF C
  <2>2. l \in [1..n -> C]
    <3>1. l = [i \in 1..n |-> l[i]]
      BY <1>1
    <3>2. [i \in 1..n |-> l[i]] \in [1..n -> C]
      BY <2>1 DEF C
    <3> QED
      BY <3>1, <3>2, Zenon
  <2>3. l \in Seq(C)
    BY <2>2
  <2> QED
    BY <2>2, <2>3, LenProperties
<1>3. Len(l) <= MaxRows
  BY <1>1, <1>2
<1>4. ASSUME NEW i \in DOMAIN l
      PROVE  l[i].percent <= 100
  <2>1. i \in 1..n
    BY <1>2
  <2>2. l[i].percent \in 0..100
    BY <1>1, <2>1
  <2> QED
    BY <2>2
<1>5. ASSUME NEW i \in DOMAIN l
      PROVE  Cardinality(l[i].also) < MaxMerged <=> ~(Cardinality(l[i].also) >= MaxMerged)
  <2>1. i \in 1..n
    BY <1>2
  <2>2. l[i].also \subseteq ScoredParties
    BY <1>1, <2>1 DEF NamedIn
  <2>3. Cardinality(l[i].also) \in Nat
    BY <2>2, CompassAssumption, FS_Subset, FS_CardinalityType
  <2> QED
    BY <2>3, CompassAssumption
<1> QED
  BY <1>3, <1>4, <1>5 DEF Decodes, TooMerged

(* A number of units of one function that are units of another.             *)
LEMMA Inside ==
  ASSUME NEW S, NEW T, IsFiniteSet(T), NEW f \in [S -> T], \A x, y \in S : f[x] = f[y] => x = y
  PROVE  IsFiniteSet(S) /\ Cardinality(S) <= Cardinality(T)
<1>1. f \in Injection(S, T)
  BY DEF Injection, IsInjective
<1> QED
  BY <1>1, FS_Injection

LEMMA UnitIs ==
  ASSUME NEW f
  PROVE  \A u : u \in Units(f) <=> \E x \in DOMAIN f : \E i \in 1..f[x] : u = <<x, i>>
BY DEF Units

(* One of the numbers raised by k is the total raised by k.                  *)
LEMMA TotalRaised ==
  ASSUME NEW N, IsFiniteSet(N), NEW w \in N, NEW a \in [N -> Nat], NEW k \in Nat
  PROVE  Total(a) + k <= Total([c \in N |-> a[c] + k])
<1> DEFINE g == [c \in N |-> a[c] + k]
           U == Units(a)
           X == {w} \X ((a[w] + 1)..(a[w] + k))
           V == Units(g)
<1>1. DOMAIN a = N /\ DOMAIN g = N /\ \A c \in N : a[c] \in Nat /\ g[c] = a[c] + k
  OBVIOUS
<1> HIDE DEF g
<1>2. /\ IsFiniteSet(U) /\ Total(a) \in Nat /\ Total(a) = Cardinality(U)
      /\ IsFiniteSet(V) /\ Total(g) \in Nat /\ Total(g) = Cardinality(V)
  <2>1. \A c \in N : g[c] \in Nat
    BY <1>1
  <2> QED
    BY <1>1, <2>1, UnitsFinite DEF Total
<1>3. IsFiniteSet(X) /\ Cardinality(X) = k
  <2> DEFINE low == a[w] + 1
             high == a[w] + k
             I == low..high
  <2>1. low \in Int /\ high \in Int /\ (IF low > high THEN 0 ELSE high - low + 1) = k
    BY <1>1
  <2> HIDE DEF low, high
  <2>2. IsFiniteSet(I) /\ Cardinality(I) = k
    BY <2>1, FS_Interval
  <2>3. IsFiniteSet({w}) /\ Cardinality({w}) = 1
    BY FS_Singleton
  <2> HIDE DEF I
  <2>4. IsFiniteSet({w} \X I) /\ Cardinality({w} \X I) = 1 * k
    BY <2>2, <2>3, FS_Product
  <2> QED
    BY <2>4 DEF I, low, high
<1>4. U \cap X = {}
  <2>1. \A u \in U : \E x \in N : \E i \in 1..a[x] : u = <<x, i>>
    BY <1>1, UnitIs
  <2>2. \A u \in X : u = <<w, u[2]>> /\ u[2] \in (a[w] + 1)..(a[w] + k)
    OBVIOUS
  <2> HIDE DEF U, X
  <2> SUFFICES ASSUME NEW u \in U, u \in X PROVE FALSE
    OBVIOUS
  <2>3. u[2] \in 1..a[w] /\ u[2] \in (a[w] + 1)..(a[w] + k)
    BY <2>1, <2>2
  <2> QED
    BY <1>1, <2>3
<1>5. U \cup X \subseteq V
  <2>1. \A c \in N : \A i \in 1..a[c] : <<c, i>> \in V
    <3>1. \A c \in N : 1..a[c] \subseteq 1..g[c]
      BY <1>1
    <3> QED
      BY <1>1, <3>1, UnitIs
  <2>2. \A i \in (a[w] + 1)..(a[w] + k) : <<w, i>> \in V
    <3>1. (a[w] + 1)..(a[w] + k) \subseteq 1..g[w]
      BY <1>1
    <3> QED
      BY <1>1, <3>1, UnitIs
  <2>3. \A u \in U : u \in V
    BY <1>1, <2>1, UnitIs
  <2> QED
    BY <2>2, <2>3
<1> HIDE DEF U, X, V
<1>6. Cardinality(U \cup X) = Cardinality(U) + Cardinality(X) - Cardinality(U \cap X)
  BY <1>2, <1>3, FS_Union
<1>7. Cardinality(U \cap X) = 0
  BY <1>4, FS_EmptySet
<1>8. Cardinality(U \cup X) <= Cardinality(V)
  BY <1>2, <1>5, FS_Subset
<1>9. Total(a) + k <= Total(g)
  BY <1>2, <1>3, <1>6, <1>7, <1>8
<1> QED
  BY <1>9 DEF g

(* Numbers each of which is within the total of a part, the parts apart, are *)
(* together within the total.                                                *)
PartTotal(g, S) == Total([c \in S |-> g[c]])

LEMMA TotalWithin ==
  ASSUME NEW f, IsFiniteSet(DOMAIN f), \A i \in DOMAIN f : f[i] \in Nat,
         NEW g, IsFiniteSet(DOMAIN g), \A c \in DOMAIN g : g[c] \in Nat,
         NEW N \in [DOMAIN f -> SUBSET DOMAIN g],
         \A i, j \in DOMAIN f : i # j => N[i] \cap N[j] = {},
         \A i \in DOMAIN f : f[i] <= PartTotal(g, N[i])
  PROVE  Total(f) <= Total(g) /\ Total(f) \in Nat /\ Total(g) \in Nat
<1> DEFINE piece(i) == Units([c \in N[i] |-> g[c]])
           b == [i \in DOMAIN f |-> CHOOSE h : h \in Bijection(1..PartTotal(g, N[i]), piece(i))]
           H == [u \in Units(f) |-> b[u[1]][u[2]]]
<1>1. IsFiniteSet(Units(g)) /\ Total(f) \in Nat /\ Total(g) \in Nat
  BY UnitsFinite
<1>2. ASSUME NEW i \in DOMAIN f
      PROVE  /\ PartTotal(g, N[i]) \in Nat
             /\ b[i] \in Bijection(1..PartTotal(g, N[i]), piece(i))
  <2> DEFINE q == [c \in N[i] |-> g[c]]
  <2>1. IsFiniteSet(DOMAIN q) /\ \A c \in DOMAIN q : q[c] \in Nat
    <3>1. N[i] \in SUBSET DOMAIN g
      OBVIOUS
    <3> QED
      BY <3>1, FS_Subset
  <2> HIDE DEF q
  <2>2. IsFiniteSet(Units(q)) /\ Total(q) \in Nat /\ Total(q) = Cardinality(Units(q))
    BY <2>1, UnitsFinite DEF Total
  <2>3. ExistsBijection(1..Total(q), Units(q))
    BY <2>2, FS_CardinalityType
  <2>4. \E h : h \in Bijection(1..Total(q), Units(q))
    BY <2>3 DEF ExistsBijection
  <2> QED
    BY <2>2, <2>4 DEF PartTotal, q
<1>3. \A i \in DOMAIN f : \A u \in piece(i) : u[1] \in N[i] /\ u \in Units(g)
  <2> SUFFICES ASSUME NEW i \in DOMAIN f, NEW u \in piece(i)
               PROVE  u[1] \in N[i] /\ u \in Units(g)
    OBVIOUS
  <2>1. PICK c \in N[i] : \E k \in 1..g[c] : u = <<c, k>>
    BY UnitIs
  <2>2. c \in DOMAIN g
    BY <2>1
  <2> QED
    BY <2>1, <2>2, UnitIs
<1>4. \A u \in Units(f) : /\ u = <<u[1], u[2]>> /\ u[1] \in DOMAIN f /\ u[2] \in 1..f[u[1]]
                          /\ H[u] = b[u[1]][u[2]]
  BY UnitIs
<1> HIDE DEF b, H, piece
<1>5. ASSUME NEW u \in Units(f)
      PROVE  /\ u[2] \in 1..PartTotal(g, N[u[1]])
             /\ H[u] \in piece(u[1])
  <2>1. u[2] \in 1..PartTotal(g, N[u[1]])
    BY <1>2, <1>4
  <2> QED
    BY <1>2, <1>4, <2>1 DEF Bijection, Injection
<1>6. ASSUME NEW u \in Units(f), NEW v \in Units(f), H[u] = H[v]
      PROVE  u = v
  <2>1. u[1] = v[1]
    <3>1. H[u][1] \in N[u[1]] /\ H[u][1] \in N[v[1]]
      BY <1>3, <1>4, <1>5, <1>6
    <3> QED
      BY <1>4, <3>1
  <2>2. b[u[1]][u[2]] = b[u[1]][v[2]]
    BY <1>4, <1>6, <2>1
  <2>3. u[2] = v[2]
    BY <1>2, <1>4, <1>5, <2>1, <2>2 DEF Bijection, Injection, IsInjective
  <2> QED
    BY <1>4, <2>1, <2>3
<1>7. H \in [Units(f) -> Units(g)]
  <2>1. \A u \in Units(f) : H[u] \in Units(g)
    BY <1>3, <1>4, <1>5
  <2> QED
    BY <2>1 DEF H
<1>8. Cardinality(Units(f)) <= Cardinality(Units(g))
  BY <1>1, <1>6, <1>7, Inside
<1> QED
  BY <1>1, <1>8 DEF Total

LEMMA TokenGrows ==
  ASSUME NEW x \in Nat, NEW y \in Nat, x <= y
  PROVE  TokenOf(x) <= TokenOf(y) /\ TokenOf(x) \in Nat
BY DEF TokenOf, Base64Length

(* A row takes no more of the token than its parties would with a row each.  *)
LEMMA RowWithin ==
  ASSUME NEW r, {r.who} \cup r.also \subseteq ScoredParties
  PROVE  /\ RowLength(r) + 1 \in Nat
         /\ RowLength(r) + 1 <= Total([c \in {r.who} \cup r.also |-> SlugLength[c] + 13])
<1> DEFINE N == {r.who} \cup r.also
           a == [c \in N |-> SlugLength[c] + 1]
           d == Digits(r.percent) + Digits(r.matched)
<1>1. IsFiniteSet(N) /\ r.who \in N /\ \A c \in N : SlugLength[c] \in Nat
  <2>1. N \in SUBSET ScoredParties
    OBVIOUS
  <2>2. IsFiniteSet(N)
    BY <2>1, CompassAssumption, FS_Subset
  <2> QED
    BY <2>1, <2>2, CompassAssumption
<1>2. d \in Nat /\ d <= 6
  BY DEF Digits
<1>3. RowLength(r) = Total(a) + 5 + d
  <2>1. RowLength(r) = Total(a) + 5 + Digits(r.percent) + Digits(r.matched)
    BY DEF RowLength
  <2>2. Total(a) \in Nat /\ Digits(r.percent) \in Nat /\ Digits(r.matched) \in Nat
    <3>1. DOMAIN a = N /\ \A c \in N : a[c] \in Nat
      BY <1>1
    <3> HIDE DEF a, N
    <3> QED
      BY <1>1, <3>1, UnitsFinite DEF Digits
  <2> HIDE DEF a
  <2> QED
    BY <2>1, <2>2
<1>4. a \in [N -> Nat] /\ DOMAIN a = N
  BY <1>1
<1>5. [c \in N |-> a[c] + 12] = [c \in N |-> SlugLength[c] + 13]
  <2>1. \A c \in N : a[c] + 12 = SlugLength[c] + 13
    BY <1>1
  <2> HIDE DEF N, a
  <2> QED
    BY <2>1
<1> HIDE DEF a, N, d
<1>6. Total(a) + 12 <= Total([c \in N |-> a[c] + 12])
  BY <1>1, <1>4, TotalRaised
<1>7. Total(a) \in Nat /\ Total([c \in N |-> SlugLength[c] + 13]) \in Nat
  <2>1. \A c \in N : SlugLength[c] + 13 \in Nat
    BY <1>1
  <2>2. Total(a) \in Nat
    BY <1>1, <1>4, UnitsFinite
  <2> DEFINE g == [c \in N |-> SlugLength[c] + 13]
  <2>3. DOMAIN g = N /\ \A c \in N : g[c] \in Nat
    BY <2>1
  <2> HIDE DEF g
  <2>4. Total(g) \in Nat
    BY <1>1, <2>3, UnitsFinite
  <2> QED
    BY <2>2, <2>4 DEF g
<1>8. Total(a) + 5 + d + 1 <= Total([c \in N |-> SlugLength[c] + 13])
  BY <1>2, <1>5, <1>6, <1>7
<1> QED
  BY <1>2, <1>3, <1>7, <1>8 DEF N

(* The rows name each party once.                                            *)
LEMMA TokenWithin ==
  ASSUME NEW l, LinkOK(l)
  PROVE  TokenLength(l) <= LongestToken
<1>1. PICK n \in Nat :
        /\ l = [i \in 1..n |-> l[i]]
        /\ \A i, j \in 1..n : i # j => NamedIn(l, i) \cap NamedIn(l, j) = {}
        /\ \A i \in 1..n : NamedIn(l, i) \subseteq ScoredParties
  BY DEF LinkOK
<1> DEFINE f == [i \in DOMAIN l |-> RowLength(l[i]) + 1]
           g == [c \in ScoredParties |-> SlugLength[c] + 13]
           N == [i \in DOMAIN l |-> NamedIn(l, i)]
<1>2. DOMAIN l = 1..n /\ IsFiniteSet(1..n)
  BY <1>1, UpTo
<1>3. /\ DOMAIN f = 1..n /\ DOMAIN g = ScoredParties
      /\ N \in [DOMAIN f -> SUBSET DOMAIN g]
      /\ \A i, j \in DOMAIN f : i # j => N[i] \cap N[j] = {}
  BY <1>1, <1>2
<1>4. IsFiniteSet(DOMAIN g) /\ \A c \in DOMAIN g : g[c] \in Nat
  BY CompassAssumption
<1>5. ASSUME NEW i \in DOMAIN f
      PROVE  f[i] \in Nat /\ f[i] <= PartTotal(g, N[i])
  <2> DEFINE q == [c \in NamedIn(l, i) |-> SlugLength[c] + 13]
  <2>1. NamedIn(l, i) \subseteq ScoredParties /\ f[i] = RowLength(l[i]) + 1 /\ N[i] = NamedIn(l, i)
    BY <1>1, <1>2
  <2>2. f[i] \in Nat /\ f[i] <= Total(q)
    BY <2>1, RowWithin DEF NamedIn
  <2>3. [c \in N[i] |-> g[c]] = q
    BY <2>1
  <2> QED
    BY <2>2, <2>3 DEF PartTotal
<1> HIDE DEF f, g, N
<1>6. Total(f) <= Total(g) /\ Total(f) \in Nat /\ Total(g) \in Nat
  BY <1>2, <1>3, <1>4, <1>5, TotalWithin
<1> DEFINE inRows == IF l = <<>> THEN 1 ELSE Total(f)
           x == 35 + CountryLength + inRows
           y == 36 + CountryLength + Total(g)
<1>7. x \in Nat /\ y \in Nat /\ x <= y
  BY <1>6, CompassAssumption
<1>8. TokenLength(l) = TokenOf(x) /\ LongestToken = TokenOf(y)
  BY DEF TokenLength, LongestToken, f, g
<1> HIDE DEF x, y
<1> QED
  BY <1>7, <1>8, TokenGrows

LEMMA LinkKeepsOrder ==
  ASSUME NEW l, LinkOK(l)
  PROVE  \A i, j \in DOMAIN Shared(l) :
           i < j => /\ Shared(l)[i].percent >= Shared(l)[j].percent
                    /\ Shared(l)[i].names \cap Shared(l)[j].names = {}
<1>1. PICK n \in Nat :
        /\ l = [i \in 1..n |-> l[i]]
        /\ \A i, j \in 1..n : i < j => l[i].percent >= l[j].percent
        /\ \A i, j \in 1..n : i # j => NamedIn(l, i) \cap NamedIn(l, j) = {}
  BY DEF LinkOK
<1> DEFINE named(i) == NamedIn(l, i) \cap here
           kept == {i \in DOMAIN l : named(i) # {}}
           R == {x \in kept \X kept : x[1] < x[2]}
           at == Listed(kept, R)
           m == Cardinality(kept)
           row(k) == [names |-> named(at[k]), percent |-> l[at[k]].percent,
                      matched |-> l[at[k]].matched]
<1>2. Shared(l) = [k \in DOMAIN at |-> row(k)]
  BY DEF Shared, NamedIn
<1>3. DOMAIN l = 1..n
  BY <1>1
<1>4. kept \subseteq 1..n /\ IsFiniteSet(kept)
  <2>1. kept \subseteq 1..n
    BY <1>3
  <2> HIDE DEF kept
  <2> QED
    BY <2>1, UpTo, FS_Subset
<1> HIDE DEF kept
<1>5. \A x, y \in kept : <<x, y>> \in R <=> x < y
  OBVIOUS
<1>6. Orders(R, kept)
  <2>1. \A x \in kept : x \in Nat
    BY <1>4
  <2> HIDE DEF R
  <2> QED
    BY <1>5, <2>1 DEF Orders
<1> HIDE DEF R
<1>7. /\ m \in Nat /\ at \in [1..m -> kept]
      /\ \A i, j \in 1..m : i < j => <<at[i], at[j]>> \in R
  BY <1>4, <1>6, ListedInOrder
<1> HIDE DEF at, m
<1>8. /\ DOMAIN Shared(l) = 1..m
      /\ \A i \in 1..m : /\ Shared(l)[i].percent = l[at[i]].percent
                         /\ Shared(l)[i].names = named(at[i])
  <2>1. DOMAIN at = 1..m
    BY <1>7
  <2> QED
    BY <1>2, <2>1
<1>9. ASSUME NEW i \in 1..m, NEW j \in 1..m, i < j
      PROVE  l[at[i]].percent >= l[at[j]].percent /\ named(at[i]) \cap named(at[j]) = {}
  <2>1. at[i] \in 1..n /\ at[j] \in 1..n /\ at[i] < at[j]
    BY <1>4, <1>5, <1>7, <1>9
  <2>2. at[i] # at[j]
    BY <2>1
  <2> QED
    BY <1>1, <2>1, <2>2
<1> HIDE DEF named, row
<1> QED
  BY <1>8, <1>9

(* The rows of a result for parties make such a link.                        *)
LEMMA RowsMakeLink ==
  ASSUME NEW answers, AnswersOK(answers), NEW positions, PositionsOK(positions),
         NEW found, \A e \in found : e.who \in Nat, NEW known, known \subseteq ScoredParties
  PROVE  LinkOK(RowsShown(answers, positions, found, known))
<1> DEFINE scores == ScoresOf(answers, positions, found)
           n == RowCount(answers, positions, found, known)
           ranked == RankedOf(answers, positions, found, known)
           l == RowsShown(answers, positions, found, known)
<1>1. /\ n \in Nat /\ DOMAIN l = 1..n
      /\ \A i \in 1..n : l[i].percent = Percent(scores[ranked[i]])
      /\ \A i, j \in 1..n : i < j => Percent(scores[ranked[i]]) >= Percent(scores[ranked[j]])
  BY RowsInOrder
<1>2. n <= MaxRows
  <2> DEFINE S == known \cap DOMAIN scores
  <2>1. S \subseteq ScoredParties /\ IsFiniteSet(ScoredParties)
    BY CompassAssumption
  <2>2. n = Cardinality(S)
    BY DEF RowCount
  <2> HIDE DEF S, n
  <2>3. n <= Cardinality(ScoredParties)
    BY <2>1, <2>2, FS_Subset
  <2>4. Cardinality(ScoredParties) \in Nat /\ n \in Nat
    BY <1>1, <2>1, FS_CardinalityType
  <2>5. Cardinality(ScoredParties) <= MaxRows /\ MaxRows \in Nat
    BY CompassAssumption
  <2> QED
    BY <2>3, <2>4, <2>5
<1>3. l = [i \in DOMAIN l |-> l[i]]
  BY DEF RowsShown, ResultRowsOf
<1>4. Means(l, answers, positions) /\ RowsApart(l, found)
  BY RowsAreMeans, RowsOnce
<1> HIDE DEF n, l, scores, ranked
<1>5. /\ \A i \in DOMAIN l : l[i].percent \in 0..100 /\ l[i].matched \in Nat \ {0}
      /\ \A i, j \in DOMAIN l : i # j => NamedIn(l, i) \cap NamedIn(l, j) = {}
  BY <1>4 DEF Means, RowsApart
<1>6. \A i, j \in 1..n : i < j => l[i].percent >= l[j].percent
  BY <1>1
<1>7. l = [i \in 1..n |-> l[i]]
  BY <1>1, <1>3
<1>9. \A i \in 1..n : NamedIn(l, i) \subseteq ScoredParties
  <2> HIDE DEF n, l
  <2>1. /\ DOMAIN l = 1..n
        /\ \A i \in 1..n : l[i].who \in known /\ l[i].also \subseteq known
    BY RowsInOrder DEF n, l
  <2> QED
    BY <2>1 DEF NamedIn
<1>8. LinkOK(l)
  BY <1>1, <1>2, <1>5, <1>6, <1>7, <1>9 DEF LinkOK
<1> QED
  BY <1>8 DEF l

-----------------------------------------------------------------------------
(* Compass: what is read.                                                    *)

LEMMA VotesAreStances ==
  ASSUME NEW line
  PROVE  IsFiniteSet(MemberStances(line)) /\ \A s \in MemberStances(line) : s.stance \in -2..2
<1> DEFINE P == Chamber.linked \X Chamber.votes
           said == {x \in P : Says(x[1], x[2], line)}
           W == {x \in said : \A y \in said :
                    y[1].thesis = x[1].thesis /\ y[2].person = x[2].person =>
                        Chamber.held[y[2].roll] <= Chamber.held[x[2].roll]}
           row(x) == [thesis |-> x[1].thesis, who |-> x[2].person, stance |-> x[1][x[2].choice]]
           f == [x \in W |-> row(x)]
           M == MemberStances(line)
<1>1. M = {row(x) : x \in W}
  BY DEF MemberStances
<1>2. \A x \in W : x[1][x[2].choice] \in -2..2
  BY DEF Says
<1>3. W \subseteq P
  OBVIOUS
<1> HIDE DEF W
<1>4. IsFiniteSet(W)
  <2>1. IsFiniteSet(P)
    BY CompassAssumption, FS_Product
  <2> HIDE DEF P
  <2> QED
    BY <1>3, <2>1, FS_Subset
<1>5. f \in [W -> M] /\ \A s \in M : \E x \in W : f[x] = s
  BY <1>1
<1>6. \A s \in M : s.stance \in -2..2
  BY <1>1, <1>2
<1> HIDE DEF M, f
<1>7. IsFiniteSet(M)
  BY <1>4, <1>5, ImageOf
<1> QED
  BY <1>6, <1>7 DEF M

FiledOK ==
    /\ theses \subseteq Theses /\ here \subseteq ScoredParties \cup ScoredPersons
    /\ lastId \in 0..changes /\ changes \in 0..MaxChanges /\ visits \in 0..MaxVisits
    /\ IsFiniteSet(evidence)
    /\ \A e \in evidence :
         /\ e.id \in 1..lastId /\ e.thesis \in theses /\ e.stance \in -2..2 /\ e.date \in Nat
         /\ e.who \in Contestants(About[e.thesis].scope)

LEMMA PositionsAreStances ==
  ASSUME FiledOK, NEW scope
  PROVE  /\ PositionsOK(PositionsForCountry(scope))
         /\ \A e \in OfScope(scope) : e.who \in Nat
<1> DEFINE found == OfScope(scope)
           P == PositionsForCountry(scope)
<1>1. \A e \in evidence : e.who \in Nat
  BY CompassAssumption DEF FiledOK, Contestants
<1>2. found \subseteq evidence
  BY DEF OfScope
<1>3. P \subseteq found /\ \A e \in P, f \in found :
          f.thesis = e.thesis /\ f.who = e.who /\ f # e => Stronger(e, f)
  BY DEF PositionsForCountry
<1> HIDE DEF found, P
<1>4. ASSUME NEW e \in P, NEW f \in P, e.thesis = f.thesis, e.who = f.who
      PROVE  e = f
  <2> SUFFICES ASSUME e # f PROVE FALSE
    OBVIOUS
  <2>1. Stronger(e, f) /\ Stronger(f, e)
    BY <1>3, <1>4
  <2>2. e.id \in Nat /\ f.id \in Nat /\ e.date \in Nat /\ f.date \in Nat
    <3>1. e \in evidence /\ f \in evidence /\ lastId \in Nat
      BY <1>2, <1>3 DEF FiledOK
    <3> QED
      BY <3>1 DEF FiledOK
  <2> QED
    BY <2>1, <2>2 DEF Stronger
<1>5. IsFiniteSet(P)
  BY <1>2, <1>3, FS_Subset DEF FiledOK
<1>6. \A e \in P : e.who \in Nat /\ e.stance \in -2..2
  BY <1>1, <1>2, <1>3 DEF FiledOK
<1>7. PositionsOK(P)
  BY <1>4, <1>5, <1>6 DEF PositionsOK, StancesOK
<1> QED
  BY <1>1, <1>2, <1>7 DEF found, P

-----------------------------------------------------------------------------
(* Compass: the invariant.  A visit that has read its positions goes on with *)
(* them whatever is filed, so that the invariant has to say what they are.   *)

VisitOK ==
    \/ visit = NoVisit
    \/ /\ visit.sheet \in Sheets /\ visit.at \in {"positions", "evidence", "render"}
       /\ visit.at \in {"evidence", "render"} => PositionsOK(visit.positions)
       /\ visit.at = "render" => \A e \in visit.evidence : e.who \in Nat
PageIsMean ==
    page # NoPage => \A i \in DOMAIN page.rows :
        LET r == page.rows[i]
            on == OnAnswered(page.answers, page.visit.positions, r.who)
            points == {25 * AgreementPoints(page.answers[p.thesis].value, p.stance) : p \in on}
        IN /\ r.matched = Cardinality({p.thesis : p \in on})
           /\ r.percent \in Min(points)..Max(points)
LinksOK == \A l \in links : LinkOK(l)
CompassInv == FiledOK /\ VisitOK /\ MeasuredOnce /\ PageIsMean /\ LinksOK

LEMMA CompassInvEnough == CompassInv => CompassTypeOK /\ MeasuredOnce /\ PercentIsMean
<1> SUFFICES ASSUME CompassInv PROVE CompassTypeOK /\ MeasuredOnce /\ PercentIsMean
  OBVIOUS
<1>1. ASSUME NEW l \in links, NEW i \in DOMAIN l
      PROVE  l[i].percent \in 0..100 /\ l[i].matched > 0
  <2>1. PICK n \in Nat :
          /\ l = [j \in 1..n |-> l[j]]
          /\ \A j \in 1..n : l[j].percent \in 0..100 /\ l[j].matched \in Nat \ {0}
    BY DEF CompassInv, LinksOK, LinkOK
  <2>2. i \in 1..n
    BY <2>1
  <2>3. l[i].percent \in 0..100 /\ l[i].matched \in Nat \ {0}
    BY <2>1, <2>2
  <2> QED
    BY <2>3
<1>2. CompassTypeOK
  BY <1>1 DEF CompassInv, FiledOK, CompassTypeOK
<1>3. PercentIsMean
  <2>1. \A l \in links :
          /\ Decodes(l) <=> ~TooMerged(l) /\ TokenLength(l) <= MaxTokenLen
          /\ TokenLength(l) <= LongestToken
          /\ \A i, j \in DOMAIN Shared(l) :
               i < j => /\ Shared(l)[i].percent >= Shared(l)[j].percent
                        /\ Shared(l)[i].names \cap Shared(l)[j].names = {}
    BY LinkDecodes, TokenWithin, LinkKeepsOrder DEF CompassInv, LinksOK
  <2> QED
    BY <2>1 DEF CompassInv, PageIsMean, PercentIsMean
<1> QED
  BY <1>2, <1>3 DEF CompassInv

LEMMA CompassInitInv == CompassInit => CompassInv
<1> SUFFICES ASSUME CompassInit PROVE CompassInv
  OBVIOUS
<1>1. FiledOK
  BY CompassAssumption, FS_EmptySet DEF CompassInit, FiledOK
<1> QED
  BY <1>1 DEF CompassInit, CompassInv, VisitOK, MeasuredOnce, PageIsMean, LinksOK

PageMeasured(shown) ==
    shown # NoPage =>
    LET found == shown.rows
        named(i) == {found[i].who} \cup found[i].also
        same(c, d) ==
            Signatures(shown.visit.evidence, c) = Signatures(shown.visit.evidence, d)
    IN /\ \A i, j \in DOMAIN found : i # j => named(i) \cap named(j) = {}
       /\ \A i \in DOMAIN found : \A c \in found[i].also : same(c, found[i].who)
       /\ \A p, q \in shown.visit.positions :
            /\ p.thesis \in DOMAIN shown.answers /\ {p.who, q.who} \subseteq shown.known
            /\ \E e \in shown.visit.evidence : e.who = p.who
            /\ same(p.who, q.who) /\ p.who = MergeIdentical(shown.visit.evidence)[p.who]
            => \E i \in DOMAIN found : found[i].who = p.who /\ q.who \in named(i)
       /\ shown.members # <<>> =>
            LET m == shown.members
                met == m.direct \o m.list
            IN /\ \A i, j \in DOMAIN met : met[i] = met[j] => i = j
               /\ Len(met) + m.unread = Cardinality(SeatsOf(shown.visit.sheet.place))

(* What editors, imports and the reads of a result do leaves the last page.  *)
LEMMA PageStays ==
  ASSUME MeasuredOnce, PageIsMean, LinksOK, UNCHANGED <<page, links>>
  PROVE  MeasuredOnce' /\ PageIsMean' /\ LinksOK'
<1>1. page' = page /\ links' = links
  OBVIOUS
<1>2. MeasuredOnce'
  <2>1. MeasuredOnce <=> PageMeasured(page)
    BY DEF MeasuredOnce, SameEvidence, PageMeasured, SeatsOf
  <2>2. MeasuredOnce' <=> PageMeasured(page')
    BY DEF MeasuredOnce, SameEvidence, PageMeasured, SeatsOf
  <2> QED
    BY <1>1, <2>1, <2>2
<1>3. PageIsMean'
  BY <1>1, Zenon DEF PageIsMean
<1>4. LinksOK'
  BY <1>1 DEF LinksOK
<1> QED
  BY <1>2, <1>3, <1>4

LEMMA FiledKept ==
  ASSUME FiledOK,
         \/ \E x \in Entries : EvidenceAdd(x)
         \/ \E e \in evidence : EvidenceDelete(e)
         \/ \E t \in Theses : ThesisDelete(t) \/ ThesisCreate(t)
         \/ \E x \in Published : EvidenceImport(x)
         \/ \E c \in ScoredParties : PartyMoves(c)
  PROVE  FiledOK' /\ UNCHANGED <<visit, page, links>>
<1>0. /\ changes \in 0..MaxChanges /\ lastId \in 0..changes /\ lastId \in Nat
      /\ MaxChanges \in Nat
  BY CompassAssumption DEF FiledOK
<1>1. ASSUME NEW x \in Entries, EvidenceAdd(x)
      PROVE  FiledOK' /\ UNCHANGED <<visit, page, links>>
  <2> DEFINE new == Row(x, lastId', "manual", "none")
  <2>1. /\ evidence' = evidence \cup {new}
        /\ new.id = lastId + 1 /\ new.thesis = x.thesis /\ new.who = x.who
        /\ new.stance = x.stance /\ new.date = x.date
    BY <1>1 DEF EvidenceAdd, Row
  <2>2. /\ changes' \in 0..MaxChanges /\ lastId' \in 0..changes' /\ lastId' = lastId + 1
        /\ UNCHANGED <<theses, here, visits, visit, page, links>>
    <3>1. /\ lastId' = lastId + 1 /\ changes < MaxChanges /\ changes' = changes + 1
          /\ UNCHANGED <<theses, here, visits, visit, page, links>>
      BY <1>1 DEF EvidenceAdd, Edit
    <3> QED
      BY <1>0, <3>1
  <2>3. /\ new.thesis \in theses /\ new.stance \in -2..2 /\ new.date \in Nat
        /\ new.who \in Contestants(About[new.thesis].scope)
    BY <1>1, <2>1, CompassAssumption DEF EvidenceAdd
  <2> HIDE DEF new
  <2>4. IsFiniteSet(evidence')
    BY <2>1, FS_AddElement DEF FiledOK
  <2>5. \A e \in evidence' : e.id \in 1..lastId'
    BY <1>0, <2>1, <2>2 DEF FiledOK
  <2> QED
    BY <2>1, <2>2, <2>3, <2>4, <2>5 DEF FiledOK
<1>2. ASSUME NEW x \in Published, EvidenceImport(x)
      PROVE  FiledOK' /\ UNCHANGED <<visit, page, links>>
  <2> DEFINE same == {e \in evidence : e.thesis = x.thesis /\ e.who = x.who
                                       /\ e.kind = x.kind /\ e.source = x.source}
             ids == {e.id : e \in same}
             id == IF same = {} THEN lastId + 1 ELSE Min(ids)
             new == Row(x, id, x.source, x.roll)
  <2>1. /\ evidence' = (evidence \ same) \cup {new}
        /\ new.id = id /\ new.thesis = x.thesis /\ new.who = x.who
        /\ new.stance = x.stance /\ new.date = x.date
        /\ lastId' = IF id > lastId THEN id ELSE lastId
    BY <1>2 DEF EvidenceImport, Row
  <2>2. id \in 1..(lastId + 1)
    <3>1. ids \subseteq 1..lastId
      BY DEF FiledOK
    <3>2. CASE same # {}
      <4>1. ids # {} /\ ids \subseteq Nat
        BY <1>0, <3>1, <3>2
      <4> HIDE DEF ids
      <4>2. PICK n \in ids : \A m \in ids : n <= m
        BY <4>1, SmallestOf
      <4>3. Min(ids) = CHOOSE k \in ids : \A m \in ids : k <= m
        BY DEF Min
      <4>4. Min(ids) \in ids
        BY <4>2, <4>3
      <4>5. id = Min(ids)
        BY <3>2
      <4> HIDE DEF same, id
      <4>6. id \in 1..lastId
        BY <3>1, <4>4, <4>5, Zenon
      <4> QED
        BY <1>0, <4>6
    <3> QED
      BY <1>0, <3>2
  <2>3. /\ changes' \in 0..MaxChanges /\ changes' = changes + 1
        /\ UNCHANGED <<theses, here, visits, visit, page, links>>
    BY <1>0, <1>2 DEF EvidenceImport, Edit
  <2>4. /\ new.thesis \in theses /\ new.stance \in -2..2 /\ new.date \in Nat
        /\ new.who \in Contestants(About[new.thesis].scope)
    BY <1>2, <2>1, CompassAssumption DEF EvidenceImport
  <2> HIDE DEF new, id, same
  <2>5. lastId' \in 0..changes' /\ id \in 1..lastId' /\ lastId <= lastId' /\ lastId' \in Nat
    BY <1>0, <2>1, <2>2, <2>3
  <2>6. IsFiniteSet(evidence')
    <3>1. IsFiniteSet(evidence \ same)
      BY FS_Subset DEF FiledOK
    <3> QED
      BY <2>1, <3>1, FS_AddElement
  <2>7. \A e \in evidence' : e.id \in 1..lastId'
    BY <1>0, <2>1, <2>5 DEF FiledOK
  <2> QED
    BY <2>1, <2>3, <2>4, <2>5, <2>6, <2>7 DEF FiledOK
<1>3. ASSUME \/ \E e \in evidence : EvidenceDelete(e)
             \/ \E t \in Theses : ThesisDelete(t) \/ ThesisCreate(t)
             \/ \E c \in ScoredParties : PartyMoves(c)
      PROVE  FiledOK' /\ UNCHANGED <<visit, page, links>>
  <2>1. /\ changes' \in 0..MaxChanges /\ lastId' \in 0..changes' /\ lastId' = lastId
        /\ UNCHANGED <<visits, visit, page, links>>
    BY <1>0, <1>3 DEF EvidenceDelete, ThesisDelete, ThesisCreate, PartyMoves, Edit
  <2>2. /\ evidence' \subseteq evidence /\ here' \subseteq here /\ theses' \subseteq Theses
        /\ \A e \in evidence' : e.thesis \in theses'
    BY <1>3 DEF EvidenceDelete, ThesisDelete, ThesisCreate, PartyMoves, FiledOK
  <2>3. IsFiniteSet(evidence')
    BY <2>2, FS_Subset DEF FiledOK
  <2> QED
    BY <2>1, <2>2, <2>3 DEF FiledOK
<1> QED
  BY <1>1, <1>2, <1>3

LEMMA ReadsKeep ==
  ASSUME CompassInv, (\E s \in Sheets : ReadTheses(s)) \/ ReadPositions \/ ReadEvidence
  PROVE  CompassInv'
<1>1. FiledOK'
  <2>1. /\ UNCHANGED <<theses, evidence, lastId, here, changes>>
        /\ visits' = visits \/ (visits < MaxVisits /\ visits' = visits + 1)
    BY DEF ReadTheses, ReadPositions, ReadEvidence
  <2>2. MaxVisits \in Nat
    BY CompassAssumption
  <2> QED
    BY <2>1, <2>2 DEF CompassInv, FiledOK
<1>2. MeasuredOnce' /\ PageIsMean' /\ LinksOK'
  <2>1. UNCHANGED <<page, links>>
    BY DEF ReadTheses, ReadPositions, ReadEvidence
  <2> QED
    BY <2>1, PageStays DEF CompassInv
<1>3. ASSUME NEW s \in Sheets, ReadTheses(s)
      PROVE  VisitOK'
  BY <1>3 DEF ReadTheses, VisitOK
<1>4. ASSUME ReadPositions
      PROVE  VisitOK'
  <2>1. visit.sheet \in Sheets
    BY <1>4 DEF CompassInv, VisitOK, ReadPositions, NoVisit
  <2>2. PositionsOK(PositionsForCountry(visit.sheet.scope))
    BY PositionsAreStances DEF CompassInv
  <2>3. /\ visit'.at = "evidence" /\ visit'.sheet = visit.sheet
        /\ visit'.positions = PositionsForCountry(visit.sheet.scope)
    BY <1>4 DEF ReadPositions
  <2> QED
    BY <2>1, <2>2, <2>3 DEF VisitOK
<1>5. ASSUME ReadEvidence
      PROVE  VisitOK'
  <2>1. visit.sheet \in Sheets /\ PositionsOK(visit.positions)
    BY <1>5 DEF CompassInv, VisitOK, ReadEvidence, NoVisit
  <2>2. \A e \in OfScope(visit.sheet.scope) : e.who \in Nat
    BY PositionsAreStances DEF CompassInv
  <2>3. /\ visit'.at = "render" /\ visit'.sheet = visit.sheet
        /\ visit'.positions = visit.positions /\ visit'.evidence = OfScope(visit.sheet.scope)
    BY <1>5 DEF ReadEvidence
  <2> QED
    BY <2>1, <2>2, <2>3 DEF VisitOK
<1> QED
  BY <1>1, <1>2, <1>3, <1>4, <1>5 DEF CompassInv

(* A page is what the lemmas say of rows and members, of what its visit read. *)
LEMMA RenderedPage ==
  ASSUME NEW answers, AnswersOK(answers), NEW known, NEW shown,
         PositionsOK(shown.visit.positions), \A e \in shown.visit.evidence : e.who \in Nat,
         shown.answers = answers, shown.known = known,
         shown.rows = RowsShown(answers, shown.visit.positions, shown.visit.evidence, known),
         NEW read, IsFiniteSet(read), \A s \in read : s.stance \in -2..2,
         shown.members \in {<<>>, LocalMembers(shown.visit.sheet.place, answers, read)}
  PROVE  PageMeasured(shown)
<1> DEFINE positions == shown.visit.positions
           found == shown.visit.evidence
           place == shown.visit.sheet.place
           same(c, d) == Signatures(found, c) = Signatures(found, d)
           named(i) == NamedIn(shown.rows, i)
<1>0. /\ PositionsOK(positions) /\ \A e \in found : e.who \in Nat
      /\ shown.rows = RowsShown(answers, positions, found, known)
      /\ shown.members \in {<<>>, LocalMembers(place, answers, read)}
  OBVIOUS
<1> HIDE DEF positions, found, place
<1>1. /\ \A i, j \in DOMAIN shown.rows : i # j => named(i) \cap named(j) = {}
      /\ \A i \in DOMAIN shown.rows : \A c \in shown.rows[i].also : same(c, shown.rows[i].who)
  <2>1. RowsApart(RowsShown(answers, positions, found, known), found)
    BY <1>0, RowsOnce
  <2>2. RowsApart(shown.rows, found)
    BY <1>0, <2>1
  <2> QED
    BY <2>2 DEF RowsApart
<1>2. ASSUME NEW p \in positions, NEW q \in positions,
             p.thesis \in DOMAIN answers, p.who \in known, q.who \in known,
             \E e \in found : e.who = p.who, same(p.who, q.who),
             p.who = MergeIdentical(found)[p.who]
      PROVE  \E i \in DOMAIN shown.rows : shown.rows[i].who = p.who /\ q.who \in named(i)
  <2> DEFINE l == RowsShown(answers, positions, found, known)
  <2>1. \E i \in DOMAIN l : l[i].who = p.who /\ q.who \in {l[i].who} \cup l[i].also
    BY <1>0, <1>2, NobodyLeftOut
  <2>2. shown.rows = l
    BY <1>0
  <2> HIDE DEF l
  <2> QED
    BY <2>1, <2>2 DEF NamedIn
<1>3. ASSUME shown.members # <<>>
      PROVE  LET m == shown.members
                 met == m.direct \o m.list
             IN /\ \A i, j \in DOMAIN met : met[i] = met[j] => i = j
                /\ Len(met) + m.unread = Cardinality(SeatsOf(place))
  <2> DEFINE m == LocalMembers(place, answers, read)
             met == m.direct \o m.list
  <2>1. /\ \A i, j \in DOMAIN met : met[i] = met[j] => i = j
        /\ Len(met) + m.unread = Cardinality(SeatsOf(place))
    BY MembersOnce
  <2>2. shown.members = m
    BY <1>0, <1>3
  <2> HIDE DEF m
  <2> QED
    BY <2>1, <2>2
<1> QED
  BY <1>1, <1>2, <1>3 DEF PageMeasured, NamedIn, positions, found, place

LEMMA RenderKeeps ==
  ASSUME CompassInv, Render
  PROVE  CompassInv'
<1> DEFINE sheet == visit.sheet
           scope == sheet.scope
           positions == visit.positions
           filed == visit.evidence
           answers == [t \in visit.theses \cap DOMAIN sheet.answers |-> sheet.answers[t]]
           known == ById(scope)
           found == RowsShown(answers, positions, filed, known)
<1>1. /\ sheet \in Sheets /\ PositionsOK(positions)
      /\ \A e \in filed : e.who \in Nat
  BY DEF CompassInv, VisitOK, Render, NoVisit
<1>2. AnswersOK(answers)
  BY <1>1, CompassAssumption DEF AnswersOK
<1>3. PICK line \in PartyLines :
        /\ page' = [visit |-> visit, known |-> known, answers |-> answers, rows |-> found,
                    topics |-> TopicSection(answers, StandingFor(positions, filed)),
                    members |-> IF scope = "party" /\ answers # <<>>
                                   /\ MemberStances(line) # {} /\ sheet.place # "none"
                                THEN LocalMembers(sheet.place, answers, MemberStances(line))
                                ELSE <<>>]
        /\ links' = IF scope = "party" /\ ScoresOf(answers, positions, filed) # <<>>
                    THEN links \cup {found} ELSE links
  BY Zenon DEF Render, RowsShown, ScoresOf, StandingFor
<1>4. LET read == MemberStances(line)
        IN /\ page'.visit = visit /\ page'.known = known /\ page'.answers = answers
           /\ page'.rows = found
           /\ page'.members \in {<<>>, LocalMembers(sheet.place, answers, read)}
           /\ links' = links \/ (scope = "party" /\ links' = links \cup {found})
  <2> HIDE DEF found, answers, known, scope, sheet
  <2> QED
    BY <1>3
<1>5. visit' = NoVisit /\ UNCHANGED <<theses, evidence, lastId, here, visits, changes>>
  BY DEF Render
<1> HIDE DEF answers, known
<1>6. FiledOK' /\ VisitOK'
  BY <1>5 DEF CompassInv, FiledOK, VisitOK
<1>7. MeasuredOnce'
  <2> DEFINE read == MemberStances(line)
             new == page'
  <2>1. IsFiniteSet(read) /\ \A s \in read : s.stance \in -2..2
    BY VotesAreStances
  <2>2. /\ new.visit = visit /\ new.answers = answers /\ new.known = known
        /\ new.rows = RowsShown(answers, new.visit.positions, new.visit.evidence, known)
        /\ new.members \in {<<>>, LocalMembers(new.visit.sheet.place, answers, read)}
    BY <1>4
  <2>3. /\ PositionsOK(new.visit.positions)
        /\ \A e \in new.visit.evidence : e.who \in Nat
    BY <1>1, <2>2
  <2> HIDE DEF read, new
  <2>4. PageMeasured(new)
    BY <1>2, <2>1, <2>2, <2>3, RenderedPage
  <2> QED
    BY <2>4 DEF new, MeasuredOnce, SameEvidence, PageMeasured, SeatsOf
<1>8. PageIsMean'
  <2>1. Means(found, answers, positions)
    BY <1>1, <1>2, RowsAreMeans
  <2>2. page'.rows = found /\ page'.answers = answers /\ page'.visit.positions = positions
    BY <1>4
  <2> HIDE DEF found, positions
  <2>3. Means(page'.rows, page'.answers, page'.visit.positions)
    BY <2>1, <2>2
  <2> QED
    BY <2>3 DEF PageIsMean, Means
<1>9. LinksOK'
  <2>1. ASSUME scope = "party"
        PROVE  LinkOK(found)
    <3>1. known \subseteq ScoredParties
      BY <2>1 DEF known, ById
    <3> HIDE DEF scope
    <3> QED
      BY <1>1, <1>2, <3>1, RowsMakeLink
  <2> HIDE DEF found
  <2> QED
    BY <1>4, <2>1 DEF CompassInv, LinksOK
<1> QED
  BY <1>6, <1>7, <1>8, <1>9 DEF CompassInv

LEMMA CompassStepInv == CompassInv /\ [CompassNext]_compassVars => CompassInv'
<1> SUFFICES ASSUME CompassInv, [CompassNext]_compassVars PROVE CompassInv'
  OBVIOUS
<1>1. ASSUME UNCHANGED compassVars
      PROVE  CompassInv'
  <2>1. UNCHANGED <<theses, evidence, lastId, here, visit, page, links, visits, changes>>
    BY <1>1 DEF compassVars
  <2>2. FiledOK' /\ VisitOK'
    BY <2>1 DEF CompassInv, FiledOK, VisitOK
  <2> QED
    BY <2>1, <2>2, PageStays DEF CompassInv
<1>2. ASSUME \/ \E x \in Entries : EvidenceAdd(x)
             \/ \E e \in evidence : EvidenceDelete(e)
             \/ \E t \in Theses : ThesisDelete(t) \/ ThesisCreate(t)
             \/ \E x \in Published : EvidenceImport(x)
             \/ \E c \in ScoredParties : PartyMoves(c)
      PROVE  CompassInv'
  <2>1. FiledOK' /\ UNCHANGED <<visit, page, links>>
    BY <1>2, FiledKept DEF CompassInv
  <2>2. VisitOK'
    BY <2>1 DEF CompassInv, VisitOK
  <2> QED
    BY <2>1, <2>2, PageStays DEF CompassInv
<1>3. ASSUME (\E s \in Sheets : ReadTheses(s)) \/ ReadPositions \/ ReadEvidence
      PROVE  CompassInv'
  BY <1>3, ReadsKeep
<1>4. ASSUME Render PROVE CompassInv'
  BY <1>4, RenderKeeps
<1> QED
  BY <1>1, <1>2, <1>3, <1>4 DEF CompassNext

(* Whatever is filed, removed or loaded between the reads of a result, no    *)
(* contestant and no member is in two places of it, a row folds in only      *)
(* those with the evidence of its contestant, and whoever has evidence that  *)
(* was read has his row, unless the one he is folded under came later.       *)
THEOREM MeasuredOnceAlways == CompassSpec => []MeasuredOnce
<1>1. CompassInv => MeasuredOnce
  BY CompassInvEnough
<1> QED
  BY <1>1, CompassInitInv, CompassStepInv, PTL DEF CompassSpec

(* And for any answers, weights and stances: a percentage lies between the   *)
(* least and the most agreement it averages, rounded as it is; a link to a   *)
(* result opens exactly when no row names more parties and the token has no  *)
(* more characters than decode takes, of which there are never more than the *)
(* parties of the country would need with a row each (compass_share.rs); and *)
(* it opens a page in order that names nobody twice, whoever has gone.       *)
THEOREM PercentIsMeanAlways == CompassSpec => []PercentIsMean
<1>1. CompassInv => PercentIsMean
  BY CompassInvEnough
<1> QED
  BY <1>1, CompassInitInv, CompassStepInv, PTL DEF CompassSpec

-----------------------------------------------------------------------------
(* The record as a whole: a behaviour of it is one of each of its parts, so  *)
(* that what is proved of a part holds of the whole.                         *)

LEMMA PartsStart ==
  RecordInit =>
    /\ FilesInit /\ DeskInit /\ MailCheckInit /\ DumpInit /\ NewsroomInit /\ FollowsInit
    /\ CompassInit /\ ImportInit /\ OfficesInit /\ ElectionsInit /\ CaptchaInit
BY DEF RecordInit

LEMMA PartsStep ==
  [RecordNext]_recordVars =>
    /\ [FilesNext]_filesVars /\ [DeskNext]_deskVars /\ [MailCheckNext]_mailCheckVars
    /\ [DumpNext]_dumpVars /\ [NewsroomNext]_newsroomVars /\ [FollowsNext]_followsVars
    /\ [CompassNext]_compassVars /\ [ImportNext]_importVars /\ [OfficesNext]_officesVars
    /\ [ElectionsNext]_electionsVars /\ [CaptchaNext]_captchaVars
BY DEF RecordNext, recordVars

(* The parts share no table: whichever one the requests of a behaviour are   *)
(* for, it is one of every part by itself.                                   *)
THEOREM PartsAlone ==
  RecordSpec =>
    /\ FilesSpec /\ DeskSpec /\ MailCheckSpec /\ DumpSpec /\ NewsroomSpec /\ FollowsSpec
    /\ CompassSpec /\ ImportSpec /\ OfficesSpec /\ ElectionsSpec /\ CaptchaSpec
BY PartsStart, PartsStep, PTL
   DEF RecordSpec, FilesSpec, DeskSpec, MailCheckSpec, DumpSpec, NewsroomSpec, FollowsSpec,
       CompassSpec, ImportSpec, OfficesSpec, ElectionsSpec, CaptchaSpec

(* In any interleaving of deliveries, editors, loads, uploads, passes and    *)
(* readers every part keeps to its types: what a row, a page, a form or a    *)
(* load under way names is there, and every count is within its bound.       *)
THEOREM TypesAlwaysOK == RecordSpec => []TypesOK
<1>1. NewsroomSpec => []NewsroomTypeOK
  <2>1. VisitInv => NewsroomTypeOK
    BY DEF VisitInv, VisitKeeps, IInv, NewsroomTypeOK
  <2>2. NewsroomInit => VisitInv
    BY VisitInit
  <2> QED
    BY <2>1, <2>2, VisitStep, PTL DEF NewsroomSpec
<1>2. FollowsSpec => []FollowsTypeOK
  <2>1. FollowsInv => FollowsTypeOK
    BY DEF FollowsInv, FollowsTypeOK
  <2> QED
    BY <2>1, FollowsInitInv, FollowsStepInv, PTL DEF FollowsSpec
<1>3. OfficesSpec => []OfficesTypeOK
  <2>1. OfficesInv => OfficesTypeOK
    BY OfficesInvEnough
  <2> QED
    BY <2>1, OfficesInitInv, OfficesStepInv, PTL DEF OfficesSpec
<1>4. ElectionsSpec => []ElectionsTypeOK
  <2>1. ElectionsInv => ElectionsTypeOK
    BY ElectionsInvEnough
  <2> QED
    BY <2>1, ElectionsInitInv, ElectionsStepInv, PTL DEF ElectionsSpec
<1>5. CompassSpec => []CompassTypeOK
  <2>1. CompassInv => CompassTypeOK
    BY CompassInvEnough
  <2> QED
    BY <2>1, CompassInitInv, CompassStepInv, PTL DEF CompassSpec
<1>6. CaptchaSpec => []CaptchaTypeOK
  <2>1. CaptchaInv => CaptchaTypeOK
    BY DEF CaptchaInv
  <2> QED
    BY <2>1, CaptchaInitInv, CaptchaStepInv, PTL DEF CaptchaSpec
<1>7. /\ FilesTypeOK /\ DeskTypeOK /\ MailCheckTypeOK /\ DumpTypeOK /\ NewsroomTypeOK
      /\ FollowsTypeOK /\ CompassTypeOK /\ ImportTypeOK /\ OfficesTypeOK /\ ElectionsTypeOK
      /\ CaptchaTypeOK
      => TypesOK
  BY DEF TypesOK
<1> QED
  BY PartsAlone, FilesTyped, DeskTyped, MailCheckTyped, DumpTyped, ImportTyped, <1>1, <1>2, <1>3,
     <1>4, <1>5, <1>6, <1>7, PTL
==============================================================================
