-------------------------- MODULE ItemSearchProofs --------------------------
(* What a client that walks through the pages of GET /items may rely on     *)
(* while items are posted and replaced: for any items, categories, limits   *)
(* and query strings.                                                       *)
EXTENDS ItemSearch, ColumnsProofs, FiniteSetTheorems, SequenceTheorems

-----------------------------------------------------------------------------
(* The inductive invariant.  First the tables and the handler's filter: a   *)
(* post uses up an id and at most one new second, so that the seconds stay  *)
(* below the ids.                                                           *)

TablesInv ==
    /\ nextItem \in 1 .. MaxItem + 1
    /\ \A i \in Items : i < nextItem /\ created[i] < nextItem

Normalized(f) == f \in Filter /\ f.limit \in 1 .. MaxItemLimit /\ f.offset \in Nat

InFlight == {"page", "count", "answer"}

(* Then a walk during which what matches stays the same: it has shown the   *)
(* rows before its offset and holds those of its window, whose number is    *)
(* known, and, if only one ranking is possible, which they are.             *)

\* How many of n rows are behind the first m and among the first k.
Between(m, k, n) == IF m <= n THEN (IF k <= n THEN k ELSE n) - m ELSE 0

\* A walk w over n rows.
CountsOK(w, n) ==
    /\ w.place \in InFlight =>
         /\ w.first = w.asked.offset \/ (w.first < w.asked.offset /\ w.asked.offset < n)
         /\ Len(w.seen) = w.asked.offset - w.first
    /\ w.place \in {"count", "answer"} =>
         Len(w.page) = Between(w.asked.offset, w.asked.offset + w.asked.limit, n)
    /\ w.place = "answer" => w.total = n
    /\ w.place = "done" => Len(w.seen) = Between(w.first, n, n)

\* A walk w over rows of which R are the rankings.
RowsOK(w, R) ==
    \A s \in R : R = {s} =>
      /\ w.place \in InFlight => w.seen = SubSeq(s, w.first + 1, w.asked.offset)
      /\ w.place \in {"count", "answer"} => w.page = Window(w.asked, s)
      /\ w.place = "done" => w.seen = SubSeq(s, w.first + 1, Len(s))

SteadyInv ==
    walk.place # "idle" /\ walk.steady =>
      /\ CountsOK(walk, Cardinality(Matches(walk.asked)))
      /\ RowsOK(walk, Rankings(walk.asked))

(* Last a walk by age.  An item of the start whose place in the order is    *)
(* behind the walk has been shown; a post moves the others up or leaves     *)
(* them where they are.                                                     *)

\* The place of an item in the order, when no two have the same key.
Place(f, i) == Cardinality({j \in Items : SortKey(f, j) <= SortKey(f, i)})
Places(f) == [i \in Items |-> Place(f, i)]

Fetched(w) == Range(w.seen) \cup Range(w.page)

\* A walk w over items that have these places in the order.
NothingMissed(w, places) ==
    /\ w.start \subseteq DOMAIN places
    /\ w.place \in InFlight =>
         \A i \in w.start : places[i] <= w.asked.offset => i \in Range(w.seen)
    /\ w.place \in {"count", "answer"} =>
         \A i \in w.start : places[i] <= w.asked.offset + w.asked.limit => i \in Fetched(w)
    /\ w.place = "answer" /\ ~HasNext(w) => w.start \subseteq Fetched(w)
    /\ w.place = "done" => w.start \subseteq Range(w.seen)

NothingTwice(w, places) ==
    /\ IsInjective(w.seen) /\ IsInjective(w.page)
    /\ Fetched(w) \subseteq DOMAIN places
    /\ w.place \in InFlight =>
         /\ \A i \in Range(w.seen) : places[i] <= w.asked.offset
         /\ \A i \in Range(w.page) :
              places[i] \in w.asked.offset + 1 .. w.asked.offset + w.asked.limit

AgeOK(w, places) ==
    /\ w.place \in InFlight => Len(w.page) <= w.asked.limit
    /\ NothingMissed(w, places)
    /\ w.asked.sort = "oldest" => NothingTwice(w, places)

AgeInv == WalkByAge => AgeOK(walk, Places(walk.asked))

BaseInv ==
    /\ SearchTypeOK
    /\ TablesInv
    /\ walk.place # "idle" => Normalized(walk.asked)
    /\ walk.place \notin {"count", "answer"} => walk.page = << >>

SearchInv == BaseInv /\ SteadyInv /\ AgeInv

-----------------------------------------------------------------------------
(* Finite sets of numbers.                                                  *)

LEMMA MaxIsMember ==
  ASSUME NEW n \in Nat, NEW S \in SUBSET (0 .. n), S # {}
  PROVE  Max(S) \in S
<1> DEFINE Above(x) == {y \in S : y > x}
           T == {Above(x) : x \in S}
<1>1. IsFiniteSet(S)
  <2>1. IsFiniteSet(0 .. n)
    BY FS_Interval
  <2> QED BY <2>1, FS_Subset
<1>2. T \subseteq FiniteSubsetsOf(S)
  BY <1>1, FS_FiniteSubsetsOfFinite
<1>3. T # {}
  OBVIOUS
<1> HIDE DEF T
<1>4. PICK t \in T : \A u \in T : <<u, t>> \notin StrictSubsetOrdering(S)
  BY <1>1, <1>2, <1>3, FS_StrictSubsetOrderingWellFounded, WFMin
<1> USE DEF T
<1>5. PICK x \in S : t = Above(x)
  OBVIOUS
<1>6. ASSUME NEW y \in S, y > x PROVE FALSE
  <2>1. Above(y) \subseteq Above(x) /\ Above(y) # Above(x)
    <3>1. y \in Above(x) /\ y \notin Above(y)
      BY <1>6
    <3>2. \A z \in Above(y) : z \in Above(x)
      BY <1>6
    <3> QED BY <3>1, <3>2
  <2>2. Above(y) \in T
    OBVIOUS
  <2>3. <<Above(y), Above(x)>> \in StrictSubsetOrdering(S)
    BY <2>1 DEF StrictSubsetOrdering
  <2> QED BY <1>4, <1>5, <2>2, <2>3
<1>7. x \in S /\ \A y \in S : x >= y
  BY <1>6
<1> QED BY <1>7 DEF Max

-----------------------------------------------------------------------------
(* What the operators of a search give.                                     *)

LEMMA ItemsFinite ==
  /\ IsFiniteSet(Items)
  /\ \A f : Matches(f) \subseteq Items /\ IsFiniteSet(Matches(f)) /\ Cardinality(Matches(f)) \in Nat
<1>1. IsFiniteSet(ItemId)
  <2>1. IsFiniteSet(1 .. MaxItem)
    BY MaxItemAssumption, FS_Interval
  <2> QED BY <2>1 DEF ItemId
<1>2. IsFiniteSet(Items)
  <2>1. Items \subseteq ItemId
    BY DEF Items
  <2> QED BY <1>1, <2>1, FS_Subset
<1>3. ASSUME NEW f
      PROVE  Matches(f) \subseteq Items /\ IsFiniteSet(Matches(f)) /\ Cardinality(Matches(f)) \in Nat
  <2>1. Matches(f) \subseteq Items
    BY DEF Matches
  <2>2. IsFiniteSet(Matches(f))
    BY <1>2, <2>1, FS_Subset
  <2> QED BY <2>1, <2>2, FS_CardinalityType
<1> QED BY <1>2, <1>3

LEMMA NormalizedIsNormal ==
  ASSUME NEW f \in Filter
  PROVE  /\ Normalized(Normalize(f))
         /\ Normalize(f).sort = f.sort
         /\ Matches(Normalize(f)) = Matches(f)
         /\ Unfiltered(Normalize(f)) <=> Unfiltered(f)
         /\ Normalized(f) => Normalize(f) = f
<1> DEFINE g == Normalize(f)
<1>1. /\ g \in Filter
      /\ g.limit = (IF f.limit <= 0 \/ f.limit > MaxItemLimit THEN DefaultItemLimit ELSE f.limit)
      /\ g.offset = (IF f.offset < 0 THEN 0 ELSE f.offset)
      /\ g.category = f.category /\ g.minPrice = f.minPrice /\ g.maxPrice = f.maxPrice
      /\ g.sort = f.sort
  <2> DEFINE l == IF f.limit <= 0 \/ f.limit > MaxItemLimit THEN DefaultItemLimit ELSE f.limit
             o == IF f.offset < 0 THEN 0 ELSE f.offset
  <2>1. l \in Int /\ o \in Int
    BY LimitAssumption DEF Filter
  <2>2. g = [f EXCEPT !.limit = l, !.offset = o]
    BY DEF Normalize
  <2> HIDE DEF l, o, g
  <2>3. /\ g \in Filter /\ g.limit = l /\ g.offset = o
        /\ g.category = f.category /\ g.minPrice = f.minPrice /\ g.maxPrice = f.maxPrice
        /\ g.sort = f.sort
    BY <2>1, <2>2 DEF Filter
  <2> QED BY <2>3 DEF l, o
<1>2. Normalized(f) => g = f
  <2> SUFFICES ASSUME Normalized(f) PROVE g = f
    OBVIOUS
  <2>1. g.limit = f.limit /\ g.offset = f.offset
    BY <1>1, LimitAssumption DEF Normalized
  <2> QED BY <1>1, <2>1 DEF Filter
<1> HIDE DEF g
<1>3. Normalized(g)
  BY <1>1, LimitAssumption DEF Normalized, Filter
<1>4. Matches(g) = Matches(f) /\ (Unfiltered(g) <=> Unfiltered(f))
  BY <1>1 DEF Matches, Unfiltered
<1> QED BY <1>1, <1>2, <1>3, <1>4 DEF g

LEMMA RankingIsSequence ==
  ASSUME NEW f, NEW s \in Rankings(f)
  PROVE  LET n == Cardinality(Matches(f)) IN
         /\ n \in Nat /\ s \in [1 .. n -> Matches(f)]
         /\ s \in Seq(Matches(f)) /\ s \in Seq(ItemId) /\ Len(s) = n
         /\ \A i, j \in 1 .. n : s[i] = s[j] => i = j
         /\ \A x \in Matches(f) : \E i \in 1 .. n : s[i] = x
         /\ \A i, j \in 1 .. n : i < j => SortKey(f, s[i]) <= SortKey(f, s[j])
<1> DEFINE n == Cardinality(Matches(f))
<1>1. n \in Nat
  BY ItemsFinite
<1>2. s \in Bijection(1 .. n, Matches(f)) /\ \A i, j \in 1 .. n : i < j => SortKey(f, s[i]) <= SortKey(f, s[j])
  BY DEF Rankings
<1> HIDE DEF n
<1>3. /\ s \in [1 .. n -> Matches(f)]
      /\ \A i, j \in 1 .. n : s[i] = s[j] => i = j
      /\ \A x \in Matches(f) : \E i \in 1 .. n : s[i] = x
  BY <1>2 DEF Bijection, Injection, Surjection, IsInjective
<1>4. Matches(f) \subseteq ItemId
  BY DEF Matches, Items
<1>5. s \in Seq(Matches(f)) /\ s \in Seq(ItemId) /\ Len(s) = n
  BY <1>1, <1>3, <1>4
<1> QED BY <1>1, <1>2, <1>3, <1>5 DEF n

\* A window holds the rows it names and no others.
LEMMA WindowIsPart ==
  ASSUME NEW f, Normalized(f), NEW s \in Rankings(f)
  PROVE  LET n == Cardinality(Matches(f))
             m == Between(f.offset, f.offset + f.limit, n)
         IN  /\ m \in 0 .. f.limit /\ (m # 0 => f.offset + m <= n)
             /\ Window(f, s) \in Seq(ItemId) /\ Len(Window(f, s)) = m
             /\ \A i \in 1 .. m : f.offset + i \in 1 .. n /\ Window(f, s)[i] = s[f.offset + i]
             /\ \A k \in 1 .. n : f.offset < k /\ k <= f.offset + f.limit => k - f.offset \in 1 .. m
<1> DEFINE n == Cardinality(Matches(f))
           e == IF f.offset + f.limit <= n THEN f.offset + f.limit ELSE n
           m == Between(f.offset, f.offset + f.limit, n)
<1>1. f.offset \in Nat /\ f.limit \in Nat \ {0}
  BY DEF Normalized
<1>2. n \in Nat /\ s \in [1 .. n -> Matches(f)] /\ s \in Seq(ItemId) /\ Len(s) = n
  BY RankingIsSequence
<1>3. Window(f, s) = SubSeq(s, f.offset + 1, e)
  BY <1>2 DEF Window
<1> HIDE DEF n
<1>4. \A i \in f.offset + 1 .. e : s[i] \in ItemId
  <2>1. \A i \in 1 .. n : s[i] \in ItemId
    BY <1>2
  <2> QED BY <1>1, <1>2, <2>1
<1>5. f.offset + 1 \in Int /\ e \in Int
  BY <1>1, <1>2
<1>6. /\ Window(f, s) \in Seq(ItemId)
      /\ Len(Window(f, s)) = (IF f.offset + 1 <= e THEN e - (f.offset + 1) + 1 ELSE 0)
      /\ \A i \in 1 .. e - (f.offset + 1) + 1 : Window(f, s)[i] = s[f.offset + 1 + i - 1]
  <2> HIDE DEF e
  <2> QED BY <1>3, <1>4, <1>5, SubSeqProperties
<1>7. m = (IF f.offset + 1 <= e THEN e - f.offset ELSE 0) /\ m \in Nat
  BY <1>1, <1>2 DEF Between
<1>8. \A i \in 1 .. m : f.offset + i \in 1 .. n /\ Window(f, s)[i] = s[f.offset + i]
  <2> SUFFICES ASSUME NEW i \in 1 .. m
               PROVE  f.offset + i \in 1 .. n /\ Window(f, s)[i] = s[f.offset + i]
    OBVIOUS
  <2>1. i \in 1 .. e - (f.offset + 1) + 1
    BY <1>1, <1>2, <1>7
  <2>2. Window(f, s)[i] = s[f.offset + 1 + i - 1] /\ f.offset + 1 + i - 1 = f.offset + i
    BY <1>1, <1>6, <2>1
  <2>3. f.offset + i \in 1 .. n
    BY <1>1, <1>2, <1>7
  <2> QED BY <2>2, <2>3
<1>9. \A k \in 1 .. n : f.offset < k /\ k <= f.offset + f.limit => k - f.offset \in 1 .. m
  BY <1>1, <1>2, <1>7
<1>10. Len(Window(f, s)) = m /\ m \in 0 .. f.limit /\ (m # 0 => f.offset + m <= n)
  BY <1>1, <1>2, <1>6, <1>7
<1> QED BY <1>6, <1>8, <1>9, <1>10 DEF n

\* There are finitely many ways to rank what matches.
LEMMA OnlyRanking ==
  ASSUME NEW f, NEW s \in Rankings(f), Cardinality(Rankings(f)) = 1
  PROVE  Rankings(f) = {s}
<1> DEFINE R == Rankings(f)
           D == 1 .. Cardinality(Matches(f))
           P == D \X Matches(f)
           graph == [r \in R |-> {<<k, r[k]>> : k \in D}]
<1>1. IsFiniteSet(SUBSET P)
  <2>1. IsFiniteSet(D) /\ IsFiniteSet(Matches(f))
    BY ItemsFinite, FS_Interval
  <2>2. IsFiniteSet(P)
    BY <2>1, FS_Product
  <2> QED BY <2>2, FS_SUBSET
<1>2. \A r \in R : r \in [D -> Matches(f)]
  BY RankingIsSequence
<1> HIDE DEF R, D
<1>3. graph \in [R -> SUBSET P]
  <2>1. ASSUME NEW r \in R PROVE {<<k, r[k]>> : k \in D} \subseteq P
    BY <1>2
  <2> QED BY <2>1
<1>4. ASSUME NEW q \in R, NEW r \in R, graph[q] = graph[r] PROVE q = r
  <2>1. ASSUME NEW k \in D PROVE q[k] = r[k]
    <3>1. <<k, q[k]>> \in {<<j, r[j]>> : j \in D}
      BY <1>4
    <3> QED BY <3>1
  <2>2. q \in [D -> Matches(f)] /\ r \in [D -> Matches(f)]
    BY <1>2
  <2> QED BY <2>1, <2>2
<1>5. graph \in Injection(R, SUBSET P)
  <2> HIDE DEF P
  <2>1. DOMAIN graph = R
    OBVIOUS
  <2> HIDE DEF graph
  <2> QED BY <1>3, <1>4, <2>1 DEF Injection, IsInjective
<1>6. IsFiniteSet(R)
  <2> HIDE DEF P, graph
  <2> QED BY <1>1, <1>5, FS_Injection
<1>7. \E r : R = {r}
  BY <1>6, FS_Singleton DEF R
<1> QED BY <1>7 DEF R

ByAge(f) == Unfiltered(f) /\ f.sort \in {"newest", "oldest"}

AgesDiffer == \A i, j \in Items : i # j => created[i] # created[j]

LEMMA AgeKey ==
  ASSUME SearchTypeOK, NEW f, ByAge(f)
  PROVE  /\ Matches(f) = Items
         /\ \A i \in Items : /\ created[i] \in Nat
                             /\ SortKey(f, i) \in Int
                             /\ f.sort = "oldest" => SortKey(f, i) = created[i]
                             /\ f.sort = "newest" => SortKey(f, i) = -created[i]
<1>1. Matches(f) = Items
  BY DEF Matches, ByAge, Unfiltered
<1>2. \A i \in Items : created[i] \in Nat
  BY MaxItemAssumption DEF SearchTypeOK, Items
<1>3. f.sort = "oldest" => \A i \in Items : SortKey(f, i) = created[i]
  BY DEF SortKey
<1>4. f.sort = "newest" => \A i \in Items : SortKey(f, i) = -created[i]
  BY DEF SortKey
<1> QED BY <1>1, <1>2, <1>3, <1>4 DEF ByAge

\* An item's place in the order is its place in the ranking.
LEMMA PlaceInRanking ==
  ASSUME SearchTypeOK, NEW f, ByAge(f), AgesDiffer, NEW s \in Rankings(f)
  PROVE  /\ Matches(f) = Items
         /\ \A k \in 1 .. Len(s) : s[k] \in Items /\ Place(f, s[k]) = k
<1> DEFINE n == Cardinality(Matches(f))
<1>1. Matches(f) = Items
  BY AgeKey
<1>2. /\ n \in Nat /\ Len(s) = n /\ s \in [1 .. n -> Items]
      /\ \A i, j \in 1 .. n : s[i] = s[j] => i = j
      /\ \A x \in Items : \E i \in 1 .. n : s[i] = x
      /\ \A i, j \in 1 .. n : i < j => SortKey(f, s[i]) <= SortKey(f, s[j])
  BY <1>1, RankingIsSequence
<1>3. \A i, j \in Items : SortKey(f, i) \in Int /\ (SortKey(f, i) = SortKey(f, j) => i = j)
  BY AgeKey DEF ByAge, AgesDiffer
<1> HIDE DEF n
<1>4. ASSUME NEW k \in 1 .. n PROVE s[k] \in Items /\ Place(f, s[k]) = k
  <2> DEFINE B == {j \in Items : SortKey(f, j) <= SortKey(f, s[k])}
             h == [i \in 1 .. k |-> s[i]]
  <2>1. k \in Nat /\ 1 .. k \subseteq 1 .. n /\ s[k] \in Items
    BY <1>2
  <2>2. ASSUME NEW i \in 1 .. k PROVE s[i] \in B
    <3>1. i \in 1 .. n /\ s[i] \in Items
      BY <1>2, <2>1
    <3>2. SortKey(f, s[i]) <= SortKey(f, s[k])
      <4>1. CASE i < k
        BY <1>2, <3>1, <4>1
      <4>2. CASE i = k
        BY <1>3, <2>1, <4>2
      <4> QED BY <2>1, <4>1, <4>2
    <3> QED BY <3>1, <3>2
  <2>3. ASSUME NEW x \in B PROVE \E i \in 1 .. k : s[i] = x
    <3>1. x \in Items /\ SortKey(f, x) <= SortKey(f, s[k])
      OBVIOUS
    <3>2. PICK i \in 1 .. n : s[i] = x
      BY <1>2, <3>1
    <3>3. CASE k < i
      <4>1. SortKey(f, s[k]) <= SortKey(f, s[i])
        BY <1>2, <3>2, <3>3
      <4>2. SortKey(f, s[k]) = SortKey(f, s[i])
        BY <1>3, <2>1, <3>1, <3>2, <4>1
      <4>3. s[k] = s[i]
        BY <1>3, <2>1, <3>1, <3>2, <4>2
      <4> QED BY <1>2, <3>2, <3>3, <4>3
    <3>4. CASE ~(k < i)
      BY <1>2, <2>1, <3>2, <3>4
    <3> QED BY <3>3, <3>4
  <2> HIDE DEF B
  <2>4. h \in [1 .. k -> B] /\ (\A i, j \in 1 .. k : h[i] = h[j] => i = j) /\ (\A x \in B : \E i \in 1 .. k : h[i] = x)
    BY <1>2, <2>1, <2>2, <2>3
  <2>5. h \in Bijection(1 .. k, B)
    <3> HIDE DEF h
    <3> QED BY <2>4 DEF Bijection, Injection, Surjection, IsInjective
  <2>6. Cardinality(B) = k
    <3>1. ExistsBijection(1 .. k, B)
      BY <2>5 DEF ExistsBijection
    <3> QED BY <2>1, <3>1, FS_CountingElements
  <2> QED BY <2>1, <2>6 DEF Place, B
<1> QED BY <1>1, <1>2, <1>4

-----------------------------------------------------------------------------
(* What the steps of a search do to the walk, in the order of the code.     *)

LEMMA NoWalkType == NoWalk \in Walk
<1>1. << >> \in Seq(ItemId)
  OBVIOUS
<1> QED BY <1>1 DEF NoWalk, Walk, Opt

LEMMA StartWalkDoes ==
  ASSUME NEW f \in Filter, StartWalk(f)
  PROVE  /\ walk' \in Walk /\ walk'.place = "page"
         /\ walk'.asked = Normalize(f) /\ walk'.first = walk'.asked.offset
         /\ walk'.start = Matches(f) /\ walk'.steady = TRUE
         /\ walk'.seen = << >> /\ walk'.page = << >>
<1> DEFINE g == Normalize(f)
           m == Matches(f)
<1>1. walk' = [NoWalk EXCEPT !.place = "page", !.asked = g, !.first = g.offset, !.start = m]
  BY DEF StartWalk, Received
<1>2. g \in Filter /\ g.offset \in Nat
  BY NormalizedIsNormal DEF Normalized
<1>3. m \in SUBSET ItemId
  BY DEF Matches, Items
<1> HIDE DEF g, m
<1>4. /\ walk' \in Walk /\ walk'.place = "page" /\ walk'.asked = g /\ walk'.first = g.offset
      /\ walk'.start = m
  BY <1>1, <1>2, <1>3, NoWalkType DEF Walk, Opt
<1>5. walk'.steady = TRUE /\ walk'.seen = << >> /\ walk'.page = << >>
  BY <1>1 DEF NoWalk
<1> QED BY <1>4, <1>5 DEF g, m

\* The fields no step of a search but the first sets.
Kept ==
    /\ walk'.first = walk.first /\ walk'.start = walk.start
    /\ walk'.steady = walk.steady /\ walk'.inTurn = walk.inTurn

LEMMA SearchPageDoes ==
  ASSUME BaseInv, SearchPage
  PROVE  /\ walk' \in Walk /\ walk.place = "page" /\ walk'.place = "count" /\ Kept
         /\ walk'.asked = walk.asked /\ walk'.seen = walk.seen
         /\ \E s \in Rankings(walk.asked) : walk'.page = Window(walk.asked, s)
<1>1. Normalized(walk.asked) /\ walk.place = "page" /\ walk \in Walk
  BY DEF BaseInv, SearchPage, SearchTypeOK
<1>2. Normalize(walk.asked) = walk.asked
  BY <1>1, NormalizedIsNormal DEF Normalized
<1>3. PICK s \in Rankings(walk.asked) :
        walk' = [walk EXCEPT !.place = "count", !.page = Window(walk.asked, s)]
  BY <1>2 DEF SearchPage
<1>4. Window(walk.asked, s) \in Seq(ItemId)
  BY <1>1, WindowIsPart
<1>5. /\ walk' \in Walk /\ walk'.place = "count" /\ Kept
      /\ walk'.asked = walk.asked /\ walk'.seen = walk.seen
      /\ walk'.page = Window(walk.asked, s)
  BY <1>1, <1>3, <1>4 DEF Walk, Kept
<1> QED BY <1>1, <1>5

LEMMA CountItemsDoes ==
  ASSUME BaseInv, CountItems
  PROVE  /\ walk' \in Walk /\ walk.place = "count" /\ walk'.place = "answer" /\ Kept
         /\ walk'.asked = walk.asked /\ walk'.seen = walk.seen /\ walk'.page = walk.page
         /\ walk'.total = Cardinality(Matches(walk.asked))
<1>1. Cardinality(Matches(walk.asked)) \in Nat
  BY ItemsFinite
<1> QED BY <1>1 DEF CountItems, Walk, Kept, BaseInv, SearchTypeOK

LEMMA AnswerSearchDoes ==
  ASSUME BaseInv, AnswerSearch
  PROVE  /\ walk' \in Walk /\ walk.place = "answer" /\ Kept
         /\ walk'.seen = walk.seen \o walk.page /\ walk'.page = << >>
         /\ HasNext(walk) =>
              /\ walk'.place = "page" /\ Normalized(walk'.asked)
              /\ walk'.asked = [walk.asked EXCEPT !.offset = walk.asked.offset + walk.asked.limit]
         /\ ~HasNext(walk) => walk'.place = "done" /\ walk'.asked = walk.asked
<1> DEFINE f == walk.asked
           g == [f EXCEPT !.offset = f.offset + f.limit]
           seen == walk.seen \o walk.page
<1>1. walk \in Walk /\ walk.place = "answer" /\ Normalized(f)
  BY DEF AnswerSearch, BaseInv, SearchTypeOK
<1>2. Normalized(g)
  BY <1>1 DEF Normalized, Filter
<1>3. seen \in Seq(ItemId) /\ << >> \in Seq(ItemId)
  BY <1>1 DEF Walk
<1>4. f \in Filter /\ g \in Filter
  BY <1>1, <1>2 DEF Normalized
<1>5. CASE HasNext(walk)
  <2>1. walk' = [walk EXCEPT !.place = "page", !.asked = g, !.seen = seen, !.page = << >>, !.total = 0]
    <3>1. walk' = [walk EXCEPT !.place = "page", !.asked.offset = walk.asked.offset + walk.asked.limit,
                               !.seen = walk.seen \o walk.page, !.page = << >>, !.total = 0]
      BY <1>5 DEF AnswerSearch
    <3> QED BY <3>1
  <2> HIDE DEF seen, g
  <2> QED BY <1>1, <1>2, <1>3, <1>4, <1>5, <2>1 DEF Walk, Kept, Opt, g, seen
<1>6. CASE ~HasNext(walk)
  <2>1. walk' = [walk EXCEPT !.place = "done", !.asked = f, !.seen = seen, !.page = << >>, !.total = 0]
    <3>1. walk' = [walk EXCEPT !.place = "done", !.asked.offset = walk.asked.offset,
                               !.seen = walk.seen \o walk.page, !.page = << >>, !.total = 0]
      BY <1>6 DEF AnswerSearch
    <3>2. [f EXCEPT !.offset = f.offset] = f
      BY <1>4 DEF Filter
    <3> QED BY <3>1, <3>2
  <2> HIDE DEF seen, f
  <2> QED BY <1>1, <1>3, <1>6, <2>1 DEF Walk, Kept, seen, f
<1> QED BY <1>5, <1>6

LEMMA SearchFailsDoes ==
  ASSUME BaseInv, SearchFails
  PROVE  /\ walk' \in Walk /\ walk.place \in InFlight /\ walk'.place = "page" /\ Kept
         /\ walk'.asked = walk.asked /\ walk'.seen = walk.seen /\ walk'.page = << >>
<1>1. << >> \in Seq(ItemId)
  OBVIOUS
<1> QED BY <1>1 DEF SearchFails, Walk, Kept, BaseInv, SearchTypeOK, InFlight

\* A search changes no table, and so nothing that is read from them.
LEMMA TablesSame ==
  ASSUME UNCHANGED <<itemTables, created>>
  PROVE  /\ item' = item /\ nextItem' = nextItem /\ categoryItem' = categoryItem /\ created' = created
         /\ Items' = Items
         /\ \A f : Matches(f)' = Matches(f) /\ Rankings(f)' = Rankings(f)
         /\ \A f : Places(f)' = Places(f)
<1>1. /\ item' = item /\ nextItem' = nextItem /\ categoryItem' = categoryItem /\ created' = created
  BY DEF itemTables
<1>2. Items' = Items
  BY <1>1 DEF Items
<1>3. \A f : Matches(f)' = Matches(f)
  BY <1>1 DEF Matches, Items
<1>4. \A f, i : SortKey(f, i)' = SortKey(f, i)
  BY <1>1 DEF SortKey
<1>5. \A f : Rankings(f)' = Rankings(f)
  BY <1>3, <1>4 DEF Rankings
<1>6. \A f, i : Place(f, i)' = Place(f, i)
  BY <1>2, <1>4 DEF Place
<1>7. \A f : Places(f)' = Places(f)
  BY <1>2, <1>6 DEF Places
<1> QED BY <1>1, <1>2, <1>3, <1>5, <1>7

-----------------------------------------------------------------------------
(* What a statement of a writer does to the tables and to the walk.         *)

LEMMA LatestBelowIds ==
  ASSUME SearchTypeOK, TablesInv
  PROVE  Latest \in 0 .. nextItem - 1
<1> DEFINE S == {created[i] : i \in Items} \cup {0}
<1>1. nextItem - 1 \in Nat
  BY MaxItemAssumption DEF TablesInv
<1>2. \A i \in Items : created[i] \in 0 .. nextItem - 1
  BY MaxItemAssumption DEF TablesInv, SearchTypeOK, Items
<1>3. S \in SUBSET (0 .. nextItem - 1) /\ S # {}
  BY <1>1, <1>2
<1>4. Max(S) \in S
  <2> HIDE DEF S
  <2> QED BY <1>1, <1>3, MaxIsMember
<1> QED BY <1>3, <1>4 DEF Latest

LEMMA WriteTables ==
  ASSUME BaseInv, Write
  PROVE  /\ item' \in [ItemId -> Opt(Rows)]
         /\ categoryItem' \subseteq Category \X Items'
         /\ created' \in [ItemId -> 0 .. MaxItem]
         /\ TablesInv'
         /\ Items \subseteq Items'
         /\ \A i \in Items : created'[i] = created[i]
<1> USE DEF BaseInv
<1>1. /\ item \in [ItemId -> Opt(Rows)] /\ categoryItem \subseteq Category \X Items
      /\ created \in [ItemId -> 0 .. MaxItem]
      /\ nextItem \in 1 .. MaxItem + 1
      /\ \A i \in Items : i < nextItem /\ created[i] < nextItem
  BY DEF SearchTypeOK, TablesInv
<1>2. \A row \in Rows : row # NULL
  BY RowsAssumption
<1>3. Stamp
  BY DEF Write
<1>4. ASSUME NEW row \in Rows, InsertRow(row)
      PROVE  /\ item' \in [ItemId -> Opt(Rows)] /\ categoryItem' \subseteq Category \X Items'
             /\ created' \in [ItemId -> 0 .. MaxItem] /\ TablesInv' /\ Items \subseteq Items'
             /\ \A i \in Items : created'[i] = created[i]
  <2>1. /\ nextItem \in ItemId /\ item' = [item EXCEPT ![nextItem] = row]
        /\ nextItem' = nextItem + 1 /\ categoryItem' = categoryItem
    BY <1>4 DEF InsertRow
  <2>2. nextItem \in Nat /\ nextItem' # nextItem /\ nextItem <= MaxItem
    BY <1>1, <2>1, MaxItemAssumption DEF ItemId
  <2>3. PICK t \in {Latest - 1, Latest, Latest + 1} \cap Nat : created' = [created EXCEPT ![nextItem] = t]
    BY <1>3, <2>2 DEF Stamp
  <2>4. t \in 0 .. nextItem
    BY <2>2, LatestBelowIds
  <2>5. Items' = Items \cup {nextItem} /\ nextItem \notin Items
    <3>1. nextItem \notin Items
      BY <1>1, <2>2
    <3>2. \A i \in ItemId : item'[i] = IF i = nextItem THEN row ELSE item[i]
      BY <1>1, <2>1
    <3> QED BY <1>2, <2>1, <3>1, <3>2 DEF Items
  <2>6. item' \in [ItemId -> Opt(Rows)]
    BY <1>1, <2>1 DEF Opt
  <2>7. created' \in [ItemId -> 0 .. MaxItem] /\ created'[nextItem] = t
    BY <1>1, <2>1, <2>2, <2>3, <2>4, MaxItemAssumption
  <2>8. \A i \in Items : created'[i] = created[i]
    BY <1>1, <2>3, <2>5
  <2>9. TablesInv'
    <3>1. nextItem' \in 1 .. MaxItem + 1
      BY <2>1, <2>2, MaxItemAssumption
    <3>2. \A i \in Items : i < nextItem' /\ created'[i] < nextItem'
      <4> SUFFICES ASSUME NEW i \in Items PROVE i < nextItem' /\ created'[i] < nextItem'
        OBVIOUS
      <4>1. i \in Int /\ created[i] \in Int
        BY <1>1, MaxItemAssumption DEF Items, ItemId
      <4> QED BY <1>1, <2>1, <2>2, <2>8, <4>1
    <3>3. nextItem < nextItem' /\ created'[nextItem] < nextItem'
      BY <2>1, <2>2, <2>4, <2>7
    <3> QED BY <2>5, <3>1, <3>2, <3>3 DEF TablesInv
  <2> QED BY <1>1, <2>1, <2>5, <2>6, <2>7, <2>8, <2>9
<1>5. ASSUME item' \in [ItemId -> Opt(Rows)], Items' = Items, nextItem' = nextItem,
             categoryItem' \subseteq Category \X Items
      PROVE  /\ item' \in [ItemId -> Opt(Rows)] /\ categoryItem' \subseteq Category \X Items'
             /\ created' \in [ItemId -> 0 .. MaxItem] /\ TablesInv' /\ Items \subseteq Items'
             /\ \A i \in Items : created'[i] = created[i]
  <2>1. created' = created
    BY <1>3, <1>5 DEF Stamp
  <2> QED BY <1>1, <1>5, <2>1 DEF TablesInv
<1>6. ASSUME NEW i \in Items, NEW row \in Rows, ReplaceRow(i, row)
      PROVE  item' \in [ItemId -> Opt(Rows)] /\ Items' = Items
  <2>1. item' = [item EXCEPT ![i] = row] /\ i \in ItemId /\ item[i] # NULL
    BY <1>6 DEF ReplaceRow, Items
  <2>2. \A j \in ItemId : item'[j] = IF j = i THEN row ELSE item[j]
    BY <1>1, <2>1
  <2> QED BY <1>1, <1>2, <2>1, <2>2 DEF Items, Opt
<1>7. ASSUME NEW i \in Items, NEW row \in Rows, ReplaceRow(i, row)
      PROVE  nextItem' = nextItem /\ categoryItem' \subseteq Category \X Items
  BY <1>1, <1>7 DEF ReplaceRow
<1>8. ASSUME NEW i \in Items, Unlink(i)
      PROVE  item' \in [ItemId -> Opt(Rows)] /\ Items' = Items /\ nextItem' = nextItem
             /\ categoryItem' \subseteq Category \X Items
  BY <1>1, <1>8 DEF Unlink, Items
<1>9. ASSUME NEW i \in Items, NEW c \in Category, Link(c, i)
      PROVE  item' \in [ItemId -> Opt(Rows)] /\ Items' = Items /\ nextItem' = nextItem
             /\ categoryItem' \subseteq Category \X Items
  BY <1>1, <1>9 DEF Link, Items
<1>10. WriteItem
  BY DEF Write
<1> QED BY <1>4, <1>5, <1>6, <1>7, <1>8, <1>9, <1>10 DEF WriteItem

LEMMA WriteWatched ==
  ASSUME BaseInv, Write
  PROVE  /\ walk' \in Walk
         /\ walk.place \in {"idle", "done"} => walk' = NoWalk
         /\ walk.place \notin {"idle", "done"} =>
              /\ walk'.place = walk.place /\ walk'.asked = walk.asked /\ walk'.page = walk.page
              /\ walk'.total = walk.total /\ walk'.seen = walk.seen /\ walk'.first = walk.first
              /\ walk'.start = walk.start
              /\ walk'.steady = TRUE => walk.steady = TRUE /\ Found(walk.asked)' = Found(walk.asked)
              /\ walk'.inTurn = TRUE =>
                   /\ walk.inTurn = TRUE
                   /\ \A i \in Items' \ Items, j \in Items : created[j] < created'[i]
<1>1. walk \in Walk /\ Watch
  BY DEF BaseInv, SearchTypeOK, Write
<1>2. CASE walk.place \in {"idle", "done"}
  <2>1. walk' = NoWalk
    BY <1>1, <1>2 DEF Watch
  <2> QED BY <1>2, <2>1, NoWalkType
<1>3. CASE walk.place \notin {"idle", "done"}
  <2>1. PICK f \in {walk.asked} :
          walk' = [walk EXCEPT
                     !.steady = walk.steady /\ Found(f)' = Found(f),
                     !.inTurn = walk.inTurn /\ \A i \in Items' \ Items, j \in Items : created[j] < created'[i]]
    BY <1>1, <1>3 DEF Watch
  <2> DEFINE a == walk.steady /\ Found(f)' = Found(f)
             b == walk.inTurn /\ \A i \in Items' \ Items, j \in Items : created[j] < created'[i]
  <2>2. walk' = [walk EXCEPT !.steady = a, !.inTurn = b]
    BY <2>1
  <2>3. a \in BOOLEAN /\ b \in BOOLEAN
    OBVIOUS
  <2>4. (a = TRUE => walk.steady = TRUE /\ Found(f)' = Found(f))
        /\ (b = TRUE => /\ walk.inTurn = TRUE
                        /\ \A i \in Items' \ Items, j \in Items : created[j] < created'[i])
    BY <1>1 DEF Walk
  <2> HIDE DEF a, b
  <2>5. /\ walk' \in Walk /\ walk'.steady = a /\ walk'.inTurn = b
        /\ walk'.place = walk.place /\ walk'.asked = walk.asked /\ walk'.page = walk.page
        /\ walk'.total = walk.total /\ walk'.seen = walk.seen /\ walk'.first = walk.first
        /\ walk'.start = walk.start
    BY <1>1, <2>2, <2>3 DEF Walk
  <2> QED BY <1>3, <2>4, <2>5
<1> QED BY <1>2, <1>3

LEMMA PlacePositive ==
  ASSUME SearchTypeOK, NEW f, ByAge(f)
  PROVE  \A i \in Items : Place(f, i) \in 1 .. Cardinality(Items) /\ Places(f)[i] = Place(f, i)
<1> SUFFICES ASSUME NEW i \in Items
             PROVE  Place(f, i) \in 1 .. Cardinality(Items) /\ Places(f)[i] = Place(f, i)
  OBVIOUS
<1> DEFINE B == {j \in Items : SortKey(f, j) <= SortKey(f, i)}
<1>1. i \in B
  <2>1. SortKey(f, i) \in Int
    BY AgeKey
  <2> QED BY <2>1
<1>2. IsFiniteSet(Items) /\ B \subseteq Items
  BY ItemsFinite
<1>3. Places(f)[i] = Place(f, i) /\ Place(f, i) = Cardinality(B)
  BY DEF Places, Place
<1> HIDE DEF B
<1>4. IsFiniteSet(B) /\ Cardinality(B) <= Cardinality(Items)
  BY <1>2, FS_Subset
<1>5. Cardinality(B) \in Nat /\ Cardinality(Items) \in Nat
  BY <1>2, <1>4, FS_CardinalityType
<1>6. Cardinality(B) # 0
  BY <1>1, <1>4, FS_EmptySet
<1> QED BY <1>3, <1>4, <1>5, <1>6

-----------------------------------------------------------------------------
(* The inductive invariant, one step of a search after the other.           *)

\* What is read with the walk's filter, in the next state.
LEMMA WithFilter ==
  ASSUME NEW f, walk'.asked = f
  PROVE  /\ Matches(walk.asked)' = Matches(f)'
         /\ Rankings(walk.asked)' = Rankings(f)'
         /\ Places(walk.asked)' = Places(f)'
         /\ Found(walk.asked)' = Found(f)'
  BY DEF Matches, Rankings, Places, Place, Found, SortKey

\* A step of a search keeps the part of the invariant about types.
LEMMA SearchBase ==
  ASSUME BaseInv, UNCHANGED <<itemTables, created>>,
         walk' \in Walk,
         walk'.place # "idle" => Normalized(walk'.asked),
         walk'.place \notin {"count", "answer"} => walk'.page = << >>
  PROVE  BaseInv'
<1>1. Items' = Items /\ item' = item /\ nextItem' = nextItem /\ categoryItem' = categoryItem /\ created' = created
  BY TablesSame
<1>2. walk'.place = "page" =>
        Normalize(walk'.asked).limit \in 1 .. MaxItemLimit /\ Normalize(walk'.asked).offset \in Nat
  BY NormalizedIsNormal DEF Normalized
<1>3. SearchTypeOK'
  BY <1>1, <1>2 DEF BaseInv, SearchTypeOK
<1>4. TablesInv'
  BY <1>1 DEF BaseInv, TablesInv
<1> QED BY <1>3, <1>4 DEF BaseInv

\* A steady walk, in a step that changes no table.
LEMMA SteadyStep ==
  ASSUME UNCHANGED <<itemTables, created>>, NEW f, walk'.asked = f,
         walk'.steady = TRUE =>
           CountsOK(walk', Cardinality(Matches(f))) /\ RowsOK(walk', Rankings(f)),
         walk'.steady \in BOOLEAN
  PROVE  SteadyInv'
<1>1. Matches(walk.asked)' = Matches(f) /\ Rankings(walk.asked)' = Rankings(f)
  BY TablesSame, WithFilter
<1> QED BY <1>1 DEF SteadyInv

\* A walk by age, in a step that changes no table.
LEMMA AgeStep ==
  ASSUME UNCHANGED <<itemTables, created>>, NEW f, walk'.asked = f,
         WalkByAge' => AgeOK(walk', Places(f))
  PROVE  AgeInv'
<1>1. Places(walk.asked)' = Places(f)
  BY TablesSame, WithFilter
<1> QED BY <1>1 DEF AgeInv

LEMMA SubSeqNothing == \A s, m : m \in Int => SubSeq(s, m + 1, m) = << >>
  BY SubSeqEmpty

\* A client that begins holds nothing, and has seen nothing.
LEMMA StartWalkKeeps ==
  ASSUME SearchInv, NEW f \in Filter, StartWalk(f), UNCHANGED <<itemTables, created>>
  PROVE  SearchInv'
<1> DEFINE g == Normalize(f)
<1>1. /\ walk' \in Walk /\ walk'.place = "page" /\ walk'.asked = g /\ walk'.first = g.offset
      /\ walk'.start = Matches(f) /\ walk'.seen = << >> /\ walk'.page = << >>
      /\ walk'.steady = TRUE
  BY StartWalkDoes
<1>2. Normalized(g)
  BY NormalizedIsNormal
<1> HIDE DEF g
<1>3. BaseInv'
  BY <1>1, <1>2, SearchBase DEF SearchInv
<1>4. g.offset \in Nat
  BY <1>2 DEF Normalized
<1>5. CountsOK(walk', Cardinality(Matches(g)))
  BY <1>1, <1>4 DEF CountsOK
<1>6. RowsOK(walk', Rankings(g))
  <2>1. \A s : SubSeq(s, g.offset + 1, g.offset) = << >>
    BY <1>4, SubSeqNothing
  <2> QED BY <1>1, <2>1 DEF RowsOK
<1>7. SteadyInv'
  BY <1>1, <1>5, <1>6, SteadyStep
<1>8. WalkByAge' => AgeOK(walk', Places(g))
  <2> SUFFICES ASSUME WalkByAge' PROVE AgeOK(walk', Places(g))
    OBVIOUS
  <2>1. walk'.first = 0
    BY DEF WalkByAge
  <2>2. walk'.start \subseteq Items
    BY <1>1 DEF Matches
  <2>3. ASSUME NEW i \in Items PROVE Places(g)[i] \in Nat /\ Places(g)[i] # 0
    <3>1. ByAge(g)
      BY <1>1 DEF WalkByAge, ByAge
    <3>2. Cardinality(Items) \in Nat
      BY ItemsFinite, FS_CardinalityType
    <3> QED BY <2>3, <3>1, <3>2, PlacePositive DEF SearchInv, BaseInv
  <2>4. DOMAIN Places(g) = Items
    BY DEF Places
  <2>5. Range(walk'.seen) = {} /\ Range(walk'.page) = {} /\ Len(walk'.page) = 0
    BY <1>1 DEF Range
  <2>6. IsInjective(walk'.seen) /\ IsInjective(walk'.page)
    BY <1>1 DEF IsInjective
  <2>7. NothingMissed(walk', Places(g))
    BY <1>1, <2>1, <2>2, <2>3, <2>4 DEF NothingMissed
  <2>8. NothingTwice(walk', Places(g))
    BY <1>1, <2>4, <2>5, <2>6 DEF NothingTwice, Fetched
  <2>9. g.limit \in Nat
    BY <1>2, LimitAssumption DEF Normalized
  <2> QED BY <1>1, <2>5, <2>7, <2>8, <2>9 DEF AgeOK
<1>9. AgeInv'
  BY <1>1, <1>8, AgeStep
<1> QED BY <1>3, <1>7, <1>9 DEF SearchInv

\* A walk by age was one before the step.
LEMMA ByAgeBefore ==
  ASSUME UNCHANGED <<itemTables, created>>, Kept, walk.place # "idle", WalkByAge',
         Unfiltered(walk'.asked) => Unfiltered(walk.asked), walk'.asked.sort = walk.asked.sort
  PROVE  WalkByAge /\ ByAge(walk.asked) /\ AgesDiffer
<1>1. Items' = Items /\ created' = created
  BY TablesSame
<1>2. /\ walk.inTurn /\ walk.first = 0 /\ Unfiltered(walk.asked)
      /\ walk.asked.sort \in {"newest", "oldest"}
  BY DEF WalkByAge, Kept
<1>3. AgesDiffer
  BY <1>1 DEF WalkByAge, AgesDiffer
<1> QED BY <1>2, <1>3 DEF WalkByAge, AgesDiffer, ByAge

LEMMA SearchPageKeeps ==
  ASSUME SearchInv, SearchPage, UNCHANGED <<itemTables, created>>
  PROVE  SearchInv'
<1>1. /\ walk' \in Walk /\ walk.place = "page" /\ walk'.place = "count" /\ Kept
      /\ walk'.asked = walk.asked /\ walk'.seen = walk.seen
  BY SearchPageDoes DEF SearchInv
<1>2. PICK f : f = walk.asked
  OBVIOUS
<1>3. PICK r \in Rankings(f) : walk'.page = Window(f, r)
  BY <1>2, SearchPageDoes DEF SearchInv
<1>4. Normalized(f) /\ f.offset \in Nat /\ f.limit \in Nat \ {0}
  BY <1>1, <1>2, LimitAssumption DEF SearchInv, BaseInv, Normalized
<1>5. BaseInv'
  BY <1>1, <1>2, <1>4, SearchBase DEF SearchInv
<1> DEFINE n == Cardinality(Matches(f))
           m == Between(f.offset, f.offset + f.limit, n)
<1>6. /\ m \in 0 .. f.limit /\ Len(walk'.page) = m /\ walk'.page \in Seq(ItemId)
      /\ \A i \in 1 .. m : f.offset + i \in 1 .. n /\ walk'.page[i] = r[f.offset + i]
      /\ \A k \in 1 .. n : f.offset < k /\ k <= f.offset + f.limit => k - f.offset \in 1 .. m
  BY <1>3, <1>4, WindowIsPart
<1>7. /\ n \in Nat /\ r \in [1 .. n -> Matches(f)] /\ Len(r) = n
      /\ \A i, j \in 1 .. n : r[i] = r[j] => i = j
      /\ \A x \in Matches(f) : \E i \in 1 .. n : r[i] = x
  BY RankingIsSequence
<1> HIDE DEF n, m
<1>8. SteadyInv'
  <2>1. ASSUME walk'.steady = TRUE
        PROVE  CountsOK(walk', n) /\ RowsOK(walk', Rankings(f))
    <3>1. CountsOK(walk, n) /\ RowsOK(walk, Rankings(f))
      BY <1>1, <1>2, <2>1 DEF SearchInv, SteadyInv, Kept, n
    <3>2. CountsOK(walk', n)
      BY <1>1, <1>2, <1>6, <3>1 DEF CountsOK, Kept, InFlight, m
    <3>3. RowsOK(walk', Rankings(f))
      BY <1>1, <1>2, <1>3, <3>1 DEF RowsOK, Kept, InFlight
    <3> QED BY <3>2, <3>3
  <2> QED BY <1>1, <1>2, <2>1, SteadyStep DEF n, Walk
<1>9. AgeInv'
  <2> DEFINE pl == Places(f)
  <2>1. ASSUME WalkByAge' PROVE AgeOK(walk', pl)
    <3>1. WalkByAge /\ ByAge(f) /\ AgesDiffer
      BY <1>1, <1>2, <2>1, ByAgeBefore
    <3>2. AgeOK(walk, pl)
      BY <1>2, <3>1 DEF SearchInv, AgeInv
    <3>3. /\ Matches(f) = Items /\ DOMAIN pl = Items
          /\ \A k \in 1 .. n : r[k] \in Items /\ pl[r[k]] = k
      <4>1. Matches(f) = Items /\ \A k \in 1 .. Len(r) : r[k] \in Items /\ Place(f, r[k]) = k
        BY <3>1, PlaceInRanking DEF SearchInv, BaseInv
      <4>2. \A i \in Items : Places(f)[i] = Place(f, i)
        BY DEF Places
      <4> QED BY <1>7, <4>1, <4>2 DEF Places
    <3> HIDE DEF pl
    <3>4. Range(walk'.page) = {walk'.page[i] : i \in 1 .. m}
      BY <1>6 DEF Range
    <3>5. ASSUME NEW x \in Items, pl[x] <= f.offset + f.limit, f.offset < pl[x]
          PROVE  x \in Range(walk'.page)
      <4>1. PICK k \in 1 .. n : r[k] = x
        BY <1>7, <3>3
      <4>2. pl[x] = k
        BY <3>3, <4>1
      <4>3. k - f.offset \in 1 .. m /\ f.offset + (k - f.offset) = k
        BY <1>4, <1>6, <3>5, <4>2
      <4> QED BY <1>6, <3>4, <4>1, <4>3
    <3>6. NothingMissed(walk', pl)
      <4>1. NothingMissed(walk, pl) /\ walk.start \subseteq Items
        BY <3>2, <3>3 DEF AgeOK, NothingMissed
      <4>2. ASSUME NEW i \in walk.start, pl[i] <= f.offset + f.limit
            PROVE  i \in Fetched(walk')
        <5>1. CASE pl[i] <= f.offset
          BY <1>1, <1>2, <4>1, <5>1 DEF NothingMissed, Fetched, InFlight
        <5>2. CASE ~(pl[i] <= f.offset)
          <6>1. pl[i] \in Int
            <7>1. \E k \in 1 .. n : r[k] = i
              BY <1>7, <3>3, <4>1
            <7> QED BY <3>3, <7>1
          <6>2. f.offset < pl[i]
            BY <1>4, <5>2, <6>1
          <6> QED BY <3>5, <4>1, <4>2, <6>2 DEF Fetched
        <5> QED BY <5>1, <5>2
      <4>3. walk'.start = walk.start /\ walk'.asked = f
        BY <1>1, <1>2 DEF Kept
      <4> QED BY <1>1, <1>2, <4>1, <4>2, <4>3 DEF NothingMissed, InFlight
    <3>7. ASSUME f.sort = "oldest" PROVE NothingTwice(walk', pl)
      <4>1. NothingTwice(walk, pl)
        BY <1>2, <3>2, <3>7 DEF AgeOK
      <4>2. IsInjective(walk'.page)
        <5>1. DOMAIN walk'.page = 1 .. m
          BY <1>6
        <5>2. \A i, j \in 1 .. m : walk'.page[i] = walk'.page[j] => i = j
          <6> SUFFICES ASSUME NEW i \in 1 .. m, NEW j \in 1 .. m, walk'.page[i] = walk'.page[j]
                       PROVE  i = j
            OBVIOUS
          <6>1. f.offset + i = f.offset + j
            BY <1>6, <1>7
          <6> QED BY <1>4, <6>1
        <5> QED BY <5>1, <5>2 DEF IsInjective
      <4>3. \A x \in Range(walk'.page) : x \in Items /\ pl[x] \in f.offset + 1 .. f.offset + f.limit
        <5> SUFFICES ASSUME NEW i \in 1 .. m
                     PROVE  /\ walk'.page[i] \in Items
                            /\ pl[walk'.page[i]] \in f.offset + 1 .. f.offset + f.limit
          BY <3>4
        <5>1. walk'.page[i] = r[f.offset + i] /\ f.offset + i \in 1 .. n
          BY <1>6
        <5>2. walk'.page[i] \in Items /\ pl[walk'.page[i]] = f.offset + i
          BY <3>3, <5>1
        <5> QED BY <1>4, <1>6, <5>2
      <4> QED BY <1>1, <1>2, <3>3, <4>1, <4>2, <4>3 DEF NothingTwice, Fetched, InFlight
    <3> QED BY <1>1, <1>2, <1>4, <1>6, <3>6, <3>7 DEF AgeOK
  <2> QED BY <1>1, <1>2, <2>1, AgeStep
<1> QED BY <1>5, <1>8, <1>9 DEF SearchInv

LEMMA CountItemsKeeps ==
  ASSUME SearchInv, CountItems, UNCHANGED <<itemTables, created>>
  PROVE  SearchInv'
<1>1. /\ walk' \in Walk /\ walk.place = "count" /\ walk'.place = "answer" /\ Kept
      /\ walk'.asked = walk.asked /\ walk'.seen = walk.seen /\ walk'.page = walk.page
  BY CountItemsDoes DEF SearchInv
<1>2. PICK f : f = walk.asked
  OBVIOUS
<1>3. walk'.total = Cardinality(Matches(f))
  BY <1>2, CountItemsDoes DEF SearchInv
<1>4. Normalized(f)
  BY <1>1, <1>2 DEF SearchInv, BaseInv
<1>5. BaseInv'
  BY <1>1, <1>2, <1>4, SearchBase DEF SearchInv
<1>6. SteadyInv'
  <2>1. ASSUME walk'.steady = TRUE
        PROVE  CountsOK(walk', Cardinality(Matches(f))) /\ RowsOK(walk', Rankings(f))
    <3>1. CountsOK(walk, Cardinality(Matches(f))) /\ RowsOK(walk, Rankings(f))
      BY <1>1, <1>2, <2>1 DEF SearchInv, SteadyInv, Kept
    <3>2. CountsOK(walk', Cardinality(Matches(f)))
      BY <1>1, <1>2, <1>3, <3>1 DEF CountsOK, Kept, InFlight
    <3>3. RowsOK(walk', Rankings(f))
      BY <1>1, <1>2, <3>1 DEF RowsOK, Kept, InFlight
    <3> QED BY <3>2, <3>3
  <2> QED BY <1>1, <1>2, <2>1, SteadyStep DEF Walk
<1>7. AgeInv'
  <2> DEFINE pl == Places(f)
  <2>1. ASSUME WalkByAge' PROVE AgeOK(walk', pl)
    <3>1. WalkByAge /\ ByAge(f)
      BY <1>1, <1>2, <2>1, ByAgeBefore
    <3>2. AgeOK(walk, pl)
      BY <1>2, <3>1 DEF SearchInv, AgeInv
    <3>3. walk'.total = Cardinality(Items) /\ DOMAIN pl = Items
          /\ \A i \in Items : pl[i] \in 1 .. Cardinality(Items)
      BY <1>3, <3>1, AgeKey, PlacePositive DEF SearchInv, BaseInv, Places
    <3>4. Cardinality(Items) \in Nat
      BY ItemsFinite, FS_CardinalityType
    <3> HIDE DEF pl
    <3>5. f.offset \in Nat /\ f.limit \in Nat /\ walk.page \in Seq(ItemId) /\ Len(walk.page) \in Nat
      BY <1>4, LimitAssumption DEF Normalized, Walk, SearchInv, BaseInv, SearchTypeOK
    <3>6. Fetched(walk') = Fetched(walk)
      BY <1>1 DEF Fetched
    <3>7. ASSUME ~HasNext(walk') PROVE walk'.start \subseteq Fetched(walk')
      <4>1. Cardinality(Items) <= f.offset + Len(walk.page) /\ Len(walk.page) <= f.limit
        BY <1>1, <1>2, <3>2, <3>3, <3>4, <3>5, <3>7 DEF HasNext, AgeOK, InFlight
      <4>2. ASSUME NEW i \in walk.start PROVE i \in Fetched(walk)
        <5>1. i \in Items
          BY <3>2, <3>3 DEF AgeOK, NothingMissed
        <5>2. pl[i] <= f.offset + f.limit
          BY <3>3, <3>4, <3>5, <4>1, <5>1
        <5> QED BY <1>1, <1>2, <3>2, <5>2 DEF AgeOK, NothingMissed
      <4> QED BY <1>1, <3>6, <4>2 DEF Kept
    <3>8. NothingMissed(walk', pl)
      BY <1>1, <1>2, <3>2, <3>6, <3>7 DEF AgeOK, NothingMissed, InFlight, Kept
    <3>9. f.sort = "oldest" => NothingTwice(walk', pl)
      BY <1>1, <1>2, <3>2, <3>6 DEF AgeOK, NothingTwice, InFlight
    <3> QED BY <1>1, <1>2, <3>2, <3>8, <3>9 DEF AgeOK, InFlight
  <2> QED BY <1>1, <1>2, <2>1, AgeStep
<1> QED BY <1>5, <1>6, <1>7 DEF SearchInv

LEMMA SearchFailsKeeps ==
  ASSUME SearchInv, SearchFails, UNCHANGED <<itemTables, created>>
  PROVE  SearchInv'
<1>1. /\ walk' \in Walk /\ walk.place \in InFlight /\ walk'.place = "page" /\ Kept
      /\ walk'.asked = walk.asked /\ walk'.seen = walk.seen /\ walk'.page = << >>
  BY SearchFailsDoes DEF SearchInv
<1>2. PICK f : f = walk.asked
  OBVIOUS
<1>3. Normalized(f) /\ walk.place # "idle"
  BY <1>1, <1>2 DEF SearchInv, BaseInv, InFlight
<1>4. BaseInv'
  BY <1>1, <1>2, <1>3, SearchBase DEF SearchInv
<1>5. SteadyInv'
  <2>1. ASSUME walk'.steady = TRUE
        PROVE  CountsOK(walk', Cardinality(Matches(f))) /\ RowsOK(walk', Rankings(f))
    <3>1. CountsOK(walk, Cardinality(Matches(f))) /\ RowsOK(walk, Rankings(f))
      BY <1>1, <1>2, <1>3, <2>1 DEF SearchInv, SteadyInv, Kept
    <3>2. CountsOK(walk', Cardinality(Matches(f)))
      BY <1>1, <1>2, <3>1 DEF CountsOK, Kept, InFlight
    <3>3. RowsOK(walk', Rankings(f))
      BY <1>1, <1>2, <3>1 DEF RowsOK, Kept, InFlight
    <3> QED BY <3>2, <3>3
  <2> QED BY <1>1, <1>2, <2>1, SteadyStep DEF Walk
<1>6. AgeInv'
  <2> DEFINE pl == Places(f)
  <2>1. ASSUME WalkByAge' PROVE AgeOK(walk', pl)
    <3>1. WalkByAge
      BY <1>1, <1>2, <1>3, <2>1, ByAgeBefore
    <3>2. AgeOK(walk, pl)
      BY <1>2, <3>1 DEF SearchInv, AgeInv
    <3> HIDE DEF pl
    <3>3. Range(walk'.page) = {} /\ Len(walk'.page) = 0 /\ IsInjective(walk'.page)
      BY <1>1 DEF Range, IsInjective
    <3>4. f.limit \in Nat
      BY <1>3, LimitAssumption DEF Normalized
    <3>5. NothingMissed(walk', pl)
      BY <1>1, <1>2, <3>2 DEF AgeOK, NothingMissed, InFlight, Kept
    <3>6. f.sort = "oldest" => NothingTwice(walk', pl)
      BY <1>1, <1>2, <3>2, <3>3 DEF AgeOK, NothingTwice, InFlight, Fetched
    <3> QED BY <1>1, <1>2, <3>3, <3>4, <3>5, <3>6 DEF AgeOK
  <2> QED BY <1>1, <1>2, <2>1, AgeStep
<1> QED BY <1>4, <1>5, <1>6 DEF SearchInv

LEMMA NoWalkKeeps ==
  ASSUME SearchTypeOK', TablesInv', walk' = NoWalk
  PROVE  SearchInv'
<1>1. walk'.place = "idle" /\ walk'.page = << >>
  BY DEF NoWalk
<1>2. BaseInv'
  BY <1>1 DEF BaseInv
<1>3. SteadyInv' /\ AgeInv'
  BY <1>1 DEF SteadyInv, AgeInv, WalkByAge
<1> QED BY <1>2, <1>3 DEF SearchInv

\* The next page is a page of the same rows.
LEMMA NextPage ==
  ASSUME NEW f \in Filter, NEW k \in Int
  PROVE  LET g == [f EXCEPT !.offset = k] IN
         /\ g \in Filter /\ g.offset = k /\ g.limit = f.limit /\ g.sort = f.sort
         /\ Matches(g) = Matches(f) /\ Rankings(g) = Rankings(f) /\ Places(g) = Places(f)
         /\ Unfiltered(g) <=> Unfiltered(f)
<1> DEFINE g == [f EXCEPT !.offset = k]
<1>1. /\ g \in Filter /\ g.offset = k /\ g.limit = f.limit /\ g.sort = f.sort
      /\ g.category = f.category /\ g.minPrice = f.minPrice /\ g.maxPrice = f.maxPrice
  BY DEF Filter
<1> HIDE DEF g
<1>2. Matches(g) = Matches(f) /\ (Unfiltered(g) <=> Unfiltered(f))
  BY <1>1 DEF Matches, Unfiltered
<1>3. \A i : SortKey(g, i) = SortKey(f, i)
  BY <1>1 DEF SortKey
<1>4. Rankings(g) = Rankings(f)
  BY <1>2, <1>3 DEF Rankings
<1>5. Places(g) = Places(f)
  BY <1>3 DEF Places, Place
<1> QED BY <1>1, <1>2, <1>4, <1>5 DEF g

LEMMA RangeOfBoth ==
  ASSUME NEW a \in Seq(ItemId), NEW b \in Seq(ItemId)
  PROVE  /\ Range(a \o b) = Range(a) \cup Range(b)
         /\ Len(a \o b) = Len(a) + Len(b)
         /\ IsInjective(a) /\ IsInjective(b) /\ Range(a) \cap Range(b) = {} => IsInjective(a \o b)
<1> DEFINE c == a \o b
<1>1. /\ Len(a) \in Nat /\ Len(b) \in Nat /\ DOMAIN a = 1 .. Len(a) /\ DOMAIN b = 1 .. Len(b)
      /\ Len(c) = Len(a) + Len(b) /\ DOMAIN c = 1 .. Len(a) + Len(b)
      /\ \A i \in 1 .. Len(a) : c[i] = a[i]
      /\ \A i \in Len(a) + 1 .. Len(a) + Len(b) : c[i] = b[i - Len(a)]
  OBVIOUS
<1> HIDE DEF c
<1>2. ASSUME NEW i \in DOMAIN c PROVE c[i] \in Range(a) \cup Range(b)
  <2>1. CASE i \in 1 .. Len(a)
    BY <1>1, <2>1 DEF Range
  <2>2. CASE i \in Len(a) + 1 .. Len(a) + Len(b)
    <3>1. i - Len(a) \in 1 .. Len(b)
      BY <1>1, <2>2
    <3> QED BY <1>1, <2>2, <3>1 DEF Range
  <2> QED BY <1>1, <2>1, <2>2
<1>3. ASSUME NEW i \in DOMAIN a PROVE a[i] \in Range(c)
  BY <1>1 DEF Range
<1>4. ASSUME NEW i \in DOMAIN b PROVE b[i] \in Range(c)
  <2>1. Len(a) + i \in Len(a) + 1 .. Len(a) + Len(b) /\ (Len(a) + i) - Len(a) = i
    BY <1>1
  <2>2. c[Len(a) + i] = b[i] /\ Len(a) + i \in DOMAIN c
    BY <1>1, <2>1
  <2> QED BY <2>2 DEF Range
<1>5. Range(c) = Range(a) \cup Range(b)
  <2>1. \A x \in Range(c) : x \in Range(a) \cup Range(b)
    BY <1>2 DEF Range
  <2>2. \A x \in Range(a) \cup Range(b) : x \in Range(c)
    BY <1>3, <1>4 DEF Range
  <2> QED BY <2>1, <2>2
<1>6. ASSUME IsInjective(a), IsInjective(b), Range(a) \cap Range(b) = {} PROVE IsInjective(c)
  <2> SUFFICES ASSUME NEW i \in DOMAIN c, NEW j \in DOMAIN c, c[i] = c[j] PROVE i = j
    BY DEF IsInjective
  <2> DEFINE inA(k) == k \in 1 .. Len(a)
             inB(k) == k \in Len(a) + 1 .. Len(a) + Len(b)
  <2>1. (inA(i) \/ inB(i)) /\ (inA(j) \/ inB(j))
    BY <1>1
  <2>2. CASE inA(i) /\ inA(j)
    BY <1>1, <1>6, <2>2 DEF IsInjective
  <2>3. CASE inB(i) /\ inB(j)
    <3>1. i - Len(a) \in DOMAIN b /\ j - Len(a) \in DOMAIN b
      BY <1>1, <2>3
    <3>2. i - Len(a) = j - Len(a)
      BY <1>1, <1>6, <2>3, <3>1 DEF IsInjective
    <3> QED BY <1>1, <2>3, <3>2
  <2>4. ASSUME NEW k \in DOMAIN c, NEW l \in DOMAIN c, inA(k), inB(l), c[k] = c[l] PROVE FALSE
    <3>1. c[k] \in Range(a)
      BY <1>1, <2>4 DEF Range
    <3>2. l - Len(a) \in 1 .. Len(b)
      BY <1>1, <2>4
    <3>3. c[l] \in Range(b)
      BY <1>1, <2>4, <3>2 DEF Range
    <3> QED BY <1>6, <2>4, <3>1, <3>3
  <2> HIDE DEF inA, inB
  <2> QED BY <2>1, <2>2, <2>3, <2>4
<1> QED BY <1>1, <1>5, <1>6 DEF c

LEMMA AnswerSearchKeeps ==
  ASSUME SearchInv, AnswerSearch, UNCHANGED <<itemTables, created>>
  PROVE  SearchInv'
<1>1. /\ walk' \in Walk /\ walk.place = "answer" /\ Kept
      /\ walk'.seen = walk.seen \o walk.page /\ walk'.page = << >>
  BY AnswerSearchDoes DEF SearchInv
<1>2. PICK f : f = walk.asked
  OBVIOUS
<1>3. Normalized(f) /\ f \in Filter /\ f.offset \in Nat /\ f.limit \in Nat \ {0} /\ walk \in Walk
  BY <1>1, <1>2, LimitAssumption DEF SearchInv, BaseInv, Normalized, SearchTypeOK
<1>4. PICK g : g = walk'.asked
  OBVIOUS
<1>5. /\ walk'.place \in {"page", "done"} /\ (walk'.place = "page" <=> HasNext(walk))
      /\ Normalized(g) /\ g.limit = f.limit /\ g.sort = f.sort
      /\ g.offset = IF HasNext(walk) THEN f.offset + f.limit ELSE f.offset
      /\ Matches(g) = Matches(f) /\ Rankings(g) = Rankings(f) /\ Places(g) = Places(f)
      /\ Unfiltered(g) <=> Unfiltered(f)
  <2>1. CASE HasNext(walk)
    <3>1. /\ walk'.place = "page" /\ Normalized(g)
          /\ g = [f EXCEPT !.offset = f.offset + f.limit]
      BY <1>2, <1>4, <2>1, AnswerSearchDoes DEF SearchInv
    <3>2. f.offset + f.limit \in Int
      BY <1>3
    <3> QED BY <1>3, <2>1, <3>1, <3>2, NextPage
  <2>2. CASE ~HasNext(walk)
    BY <1>2, <1>3, <1>4, <2>2, AnswerSearchDoes DEF SearchInv
  <2> QED BY <2>1, <2>2
<1>6. BaseInv'
  BY <1>1, <1>4, <1>5, SearchBase DEF SearchInv
<1>7. /\ walk.seen \in Seq(ItemId) /\ walk.page \in Seq(ItemId)
      /\ Len(walk.seen) \in Nat /\ Len(walk.page) \in Nat /\ walk.first \in Nat /\ walk.total \in Nat
  BY <1>3 DEF Walk
<1>8. Len(walk'.seen) = Len(walk.seen) + Len(walk.page)
  BY <1>1, <1>7
<1>9. HasNext(walk) <=> f.offset + Len(walk.page) < walk.total
  BY <1>2 DEF HasNext
<1>10. SteadyInv'
  <2> DEFINE n == Cardinality(Matches(f))
             R == Rankings(f)
  <2>1. ASSUME walk'.steady = TRUE
        PROVE  CountsOK(walk', n) /\ RowsOK(walk', R)
    <3>1. CountsOK(walk, n) /\ RowsOK(walk, R)
      BY <1>1, <1>2, <2>1 DEF SearchInv, SteadyInv, Kept
    <3>2. n \in Nat
      BY ItemsFinite
    <3> HIDE DEF n
    <3>3. /\ walk.first = f.offset \/ (walk.first < f.offset /\ f.offset < n)
          /\ Len(walk.seen) = f.offset - walk.first
          /\ Len(walk.page) = Between(f.offset, f.offset + f.limit, n)
          /\ walk.total = n
      BY <1>1, <1>2, <3>1 DEF CountsOK, InFlight
    <3>4. /\ HasNext(walk) =>
               f.offset + f.limit < n /\ Len(walk.page) = f.limit /\ walk.first < f.offset + f.limit
          /\ ~HasNext(walk) =>
               /\ n <= f.offset + f.limit
               /\ (f.offset - walk.first) + Len(walk.page) = Between(walk.first, n, n)
      <4>1. f.offset + Len(walk.page) < n <=> HasNext(walk)
        BY <1>9, <3>3
      <4> DEFINE a == walk.first
                 o == f.offset
                 l == f.limit
                 q == Len(walk.page)
      <4>2. a \in Nat /\ o \in Nat /\ l \in Nat \ {0} /\ (a = o \/ (a < o /\ o < n)) /\ q = Between(o, o + l, n)
        BY <1>3, <1>7, <3>3
      <4> HIDE DEF a, o, l, q
      <4>3. /\ o + q < n => o + l < n /\ q = l /\ a < o + l
            /\ ~(o + q < n) => n <= o + l /\ (o - a) + q = Between(a, n, n)
        BY <3>2, <4>2 DEF Between
      <4> QED BY <4>1, <4>3 DEF a, o, l, q
    <3>5. walk'.first = walk.first
      BY <1>1 DEF Kept
    <3>6. CASE HasNext(walk)
      <4>1. walk'.place = "page" /\ g.offset = f.offset + f.limit
        BY <1>5, <3>6
      <4>2. f.offset + f.limit < n /\ Len(walk.page) = f.limit
        BY <3>6, <3>4
      <4>3. walk.first < g.offset /\ g.offset < n /\ Len(walk'.seen) = g.offset - walk.first
        <5>1. walk.first < g.offset /\ g.offset < n
          BY <3>6, <3>4, <4>1, <4>2
        <5>2. Len(walk'.seen) = (f.offset - walk.first) + f.limit
          BY <1>8, <3>3, <4>2
        <5>3. (f.offset - walk.first) + f.limit = g.offset - walk.first
          BY <1>3, <1>7, <4>1
        <5> QED BY <5>1, <5>2, <5>3
      <4>4. CountsOK(walk', n)
        BY <1>4, <3>5, <4>1, <4>3 DEF CountsOK
      <4>5. ASSUME NEW s \in R, R = {s} PROVE walk'.seen = SubSeq(s, walk.first + 1, g.offset)
        <5>1. walk.seen = SubSeq(s, walk.first + 1, f.offset) /\ walk.page = Window(f, s)
          BY <1>1, <1>2, <3>1, <4>5 DEF RowsOK, InFlight
        <5>2. s \in Seq(ItemId) /\ Len(s) = n
          BY RankingIsSequence DEF n
        <5>3. walk.page = SubSeq(s, f.offset + 1, f.offset + f.limit)
          <6>1. (IF f.offset + f.limit <= Len(s) THEN f.offset + f.limit ELSE Len(s)) = f.offset + f.limit
            BY <1>3, <3>2, <4>2, <5>2
          <6> QED BY <5>1, <6>1 DEF Window
        <5>4. /\ walk.first + 1 \in 1 .. Len(s) + 1
              /\ f.offset \in (walk.first + 1) - 1 .. Len(s)
              /\ f.offset + f.limit \in f.offset .. Len(s)
          BY <1>3, <1>7, <3>2, <3>3, <4>2, <5>2
        <5>5. SubSeq(s, walk.first + 1, f.offset) \o SubSeq(s, f.offset + 1, f.offset + f.limit)
                = SubSeq(s, walk.first + 1, f.offset + f.limit)
          BY <5>2, <5>4, ConcatAdjacentSubSeq
        <5> QED BY <1>1, <4>1, <5>1, <5>3, <5>5
      <4>6. RowsOK(walk', R)
        BY <1>4, <3>5, <4>1, <4>5 DEF RowsOK
      <4> QED BY <4>4, <4>6
    <3>7. CASE ~HasNext(walk)
      <4>1. walk'.place = "done"
        BY <1>5, <3>7
      <4>2. Len(walk'.seen) = Between(walk.first, n, n)
        BY <1>8, <3>3, <3>7, <3>4
      <4>3. CountsOK(walk', n)
        BY <3>5, <4>1, <4>2 DEF CountsOK, InFlight
      <4>4. ASSUME NEW s \in R, R = {s} PROVE walk'.seen = SubSeq(s, walk.first + 1, Len(s))
        <5>1. walk.seen = SubSeq(s, walk.first + 1, f.offset) /\ walk.page = Window(f, s)
          BY <1>1, <1>2, <3>1, <4>4 DEF RowsOK, InFlight
        <5>2. s \in Seq(ItemId) /\ Len(s) = n
          BY RankingIsSequence DEF n
        <5>3. walk.page = SubSeq(s, f.offset + 1, Len(s))
          <6>1. n <= f.offset + f.limit
            BY <3>7, <3>4
          <6>2. (IF f.offset + f.limit <= Len(s) THEN f.offset + f.limit ELSE Len(s)) = Len(s)
            BY <1>3, <3>2, <5>2, <6>1
          <6> QED BY <5>1, <6>2 DEF Window
        <5>4. CASE f.offset <= n
          <6>1. /\ walk.first + 1 \in 1 .. Len(s) + 1
                /\ f.offset \in (walk.first + 1) - 1 .. Len(s)
                /\ Len(s) \in f.offset .. Len(s)
            BY <1>3, <1>7, <3>2, <3>3, <5>2, <5>4
          <6>2. SubSeq(s, walk.first + 1, f.offset) \o SubSeq(s, f.offset + 1, Len(s))
                  = SubSeq(s, walk.first + 1, Len(s))
            BY <5>2, <6>1, ConcatAdjacentSubSeq
          <6> QED BY <1>1, <5>1, <5>3, <6>2
        <5>5. CASE n < f.offset
          <6>1. walk.first = f.offset
            BY <1>3, <1>7, <3>2, <3>3, <5>5
          <6>2. walk.seen = << >>
            BY <1>7, <5>1, <6>1, SubSeqNothing
          <6>3. walk'.seen = walk.page
            BY <1>1, <1>7, <6>2
          <6> QED BY <5>3, <6>1, <6>3
        <5> QED BY <1>3, <3>2, <5>4, <5>5
      <4>5. RowsOK(walk', R)
        BY <3>5, <4>1, <4>4 DEF RowsOK, InFlight
      <4> QED BY <4>3, <4>5
    <3> QED BY <3>6, <3>7
  <2>2. Cardinality(Matches(g)) = n /\ Rankings(g) = R
    BY <1>5
  <2> HIDE DEF n, R
  <2> QED BY <1>1, <1>4, <2>1, <2>2, SteadyStep DEF Walk
<1>11. AgeInv'
  <2> DEFINE pl == Places(f)
  <2>1. ASSUME WalkByAge' PROVE AgeOK(walk', pl)
    <3>1. WalkByAge /\ ByAge(f) /\ AgesDiffer
      BY <1>1, <1>2, <1>4, <1>5, <2>1, ByAgeBefore
    <3>2. AgeOK(walk, pl) /\ NothingMissed(walk, pl)
      BY <1>2, <3>1 DEF SearchInv, AgeInv, AgeOK
    <3>3. DOMAIN pl = Items /\ \A i \in Items : pl[i] \in Nat
      <4>1. Cardinality(Items) \in Nat
        BY ItemsFinite, FS_CardinalityType
      <4> QED BY <3>1, <4>1, PlacePositive DEF SearchInv, BaseInv, Places
    <3> HIDE DEF pl
    <3>4. Range(walk'.seen) = Fetched(walk)
      BY <1>1, <1>7, RangeOfBoth DEF Fetched
    <3>5. Range(walk'.page) = {} /\ Len(walk'.page) = 0 /\ IsInjective(walk'.page)
      BY <1>1 DEF Range, IsInjective
    <3>6. Fetched(walk') = Fetched(walk)
      BY <3>4, <3>5 DEF Fetched
    <3>7. NothingMissed(walk', pl)
      <4>1. CASE HasNext(walk)
        BY <1>1, <1>2, <1>4, <1>5, <3>2, <3>4, <4>1 DEF NothingMissed, Kept, InFlight
      <4>2. CASE ~HasNext(walk)
        BY <1>1, <1>2, <1>5, <3>2, <3>4, <4>2 DEF NothingMissed, Kept, InFlight
      <4> QED BY <4>1, <4>2
    <3>8. ASSUME f.sort = "oldest" PROVE NothingTwice(walk', pl)
      <4>1. NothingTwice(walk, pl)
        BY <1>2, <3>2, <3>8 DEF AgeOK
      <4>2. /\ \A i \in Range(walk.seen) : i \in Items /\ pl[i] <= f.offset
            /\ \A i \in Range(walk.page) : i \in Items /\ pl[i] \in f.offset + 1 .. f.offset + f.limit
        BY <1>1, <1>2, <3>3, <4>1 DEF NothingTwice, Fetched, InFlight
      <4>3. Range(walk.seen) \cap Range(walk.page) = {}
        <5> SUFFICES ASSUME NEW i \in Range(walk.seen), i \in Range(walk.page) PROVE FALSE
          OBVIOUS
        <5> QED BY <1>3, <3>3, <4>2
      <4>4. IsInjective(walk'.seen)
        BY <1>1, <1>7, <4>1, <4>3, RangeOfBoth DEF NothingTwice
      <4>5. \A i \in Fetched(walk) : pl[i] <= f.offset + f.limit
        BY <1>3, <3>3, <4>2 DEF Fetched
      <4>6. Fetched(walk') \subseteq DOMAIN pl
        BY <3>6, <4>1 DEF NothingTwice
      <4> QED BY <1>4, <1>5, <3>4, <3>5, <4>4, <4>5, <4>6 DEF NothingTwice, InFlight
    <3>9. g.limit \in Nat
      BY <1>3, <1>5
    <3> QED BY <1>4, <1>5, <3>5, <3>7, <3>8, <3>9 DEF AgeOK
  <2>2. Places(g) = pl
    BY <1>5
  <2> HIDE DEF pl
  <2> QED BY <1>4, <2>1, <2>2, AgeStep
<1> QED BY <1>6, <1>10, <1>11 DEF SearchInv

\* Whose rankings and keys are the same is ranked the same.
LEMMA FoundSame ==
  ASSUME NEW f, Found(f)' = Found(f)
  PROVE  Matches(f)' = Matches(f) /\ Rankings(f)' = Rankings(f)
<1>1. Matches(f)' = Matches(f)
  <2>1. DOMAIN Found(f) = Matches(f)
    BY DEF Found
  <2>2. (DOMAIN Found(f))' = Matches(f)'
    BY DEF Found
  <2> QED BY <2>1, <2>2
<1>2. \A i \in Matches(f) : SortKey(f, i)' = SortKey(f, i)
  <2> SUFFICES ASSUME NEW i \in Matches(f) PROVE SortKey(f, i)' = SortKey(f, i)
    OBVIOUS
  <2>1. Found(f)[i] = SortKey(f, i)
    BY DEF Found
  <2>2. Found(f)'[i] = SortKey(f, i)'
    BY <1>1 DEF Found
  <2> QED BY <2>1, <2>2
<1> DEFINE D == 1 .. Cardinality(Matches(f))
           B == Bijection(D, Matches(f))
<1>3. Rankings(f) = {s \in B : \A m, k \in D : m < k => SortKey(f, s[m]) <= SortKey(f, s[k])}
  BY DEF Rankings
<1>4. Rankings(f)' = {s \in B : \A m, k \in D : m < k => SortKey(f, s[m])' <= SortKey(f, s[k])'}
  BY <1>1 DEF Rankings
<1>5. ASSUME NEW s \in B, NEW m \in D PROVE SortKey(f, s[m])' = SortKey(f, s[m])
  <2>1. s[m] \in Matches(f)
    BY DEF Bijection, Injection
  <2> QED BY <1>2, <2>1
<1> HIDE DEF B, D
<1> QED BY <1>1, <1>3, <1>4, <1>5

\* Under a post of a younger item the others keep their places by age, or,
\* newest first, move up.
LEMMA PlacesMove ==
  ASSUME BaseInv, Write, NEW f, ByAge(f), AgesDiffer',
         \A i \in Items' \ Items, j \in Items : created[j] < created'[i]
  PROVE  /\ AgesDiffer
         /\ DOMAIN Places(f) = Items /\ DOMAIN Places(f)' = Items' /\ Items \subseteq Items'
         /\ \A i \in Items :
              /\ Places(f)[i] \in Nat /\ Places(f)'[i] \in Nat
              /\ Places(f)[i] <= Places(f)'[i]
              /\ f.sort = "oldest" => Places(f)'[i] = Places(f)[i]
<1>1. Items \subseteq Items' /\ \A i \in Items : created'[i] = created[i]
  BY WriteTables
<1>2. AgesDiffer
  BY <1>1 DEF AgesDiffer
<1>3. \A i \in Items : /\ created[i] \in Nat /\ SortKey(f, i) \in Int
                       /\ f.sort = "oldest" => SortKey(f, i) = created[i]
                       /\ f.sort = "newest" => SortKey(f, i) = -created[i]
  BY AgeKey DEF BaseInv
<1>4. \A i \in Items' : /\ created'[i] \in Nat /\ SortKey(f, i)' \in Int
                        /\ f.sort = "oldest" => SortKey(f, i)' = created'[i]
                        /\ f.sort = "newest" => SortKey(f, i)' = -created'[i]
  <2>1. created' \in [ItemId -> 0 .. MaxItem] /\ Items' \subseteq ItemId
    BY WriteTables DEF Items
  <2>2. \A i \in Items' : created'[i] \in Nat
    BY <2>1, MaxItemAssumption
  <2>3. f.sort = "oldest" => \A i \in Items' : SortKey(f, i)' = created'[i]
    BY DEF SortKey
  <2>4. f.sort = "newest" => \A i \in Items' : SortKey(f, i)' = -created'[i]
    BY DEF SortKey
  <2> QED BY <2>2, <2>3, <2>4 DEF ByAge
<1>5. DOMAIN Places(f) = Items /\ DOMAIN Places(f)' = Items'
      /\ (\A i \in Items : Places(f)[i] = Place(f, i))
      /\ (\A i \in Items' : Places(f)'[i] = Place(f, i)')
  BY DEF Places
<1>6. IsFiniteSet(Items) /\ IsFiniteSet(Items')
  <2>1. IsFiniteSet(Items)
    BY ItemsFinite
  <2>2. IsFiniteSet(ItemId)
    BY MaxItemAssumption, FS_Interval DEF ItemId
  <2>3. Items' \subseteq ItemId
    BY DEF Items
  <2>4. IsFiniteSet(Items')
    BY <2>2, <2>3, FS_Subset
  <2> QED BY <2>1, <2>4
<1>7. ASSUME NEW i \in Items
      PROVE  /\ Place(f, i) \in Nat /\ Place(f, i)' \in Nat /\ Place(f, i) <= Place(f, i)'
             /\ f.sort = "oldest" => Place(f, i)' = Place(f, i)
  <2> DEFINE A == {j \in Items : SortKey(f, j) <= SortKey(f, i)}
             B == {j \in Items' : SortKey(f, j)' <= SortKey(f, i)'}
  <2>1. Place(f, i) = Cardinality(A) /\ Place(f, i)' = Cardinality(B)
    BY DEF Place
  <2>2. \A j \in Items : SortKey(f, j)' = SortKey(f, j)
    BY <1>1, <1>3, <1>4 DEF ByAge
  <2>3. A \subseteq B
    BY <1>1, <2>2
  <2>4. f.sort = "oldest" => A = B
    <3> SUFFICES ASSUME f.sort = "oldest", NEW j \in B PROVE j \in A
      BY <2>3
    <3>1. j \in Items' /\ created'[j] <= created[i]
      BY <1>1, <1>4
    <3>2. j \in Items
      BY <1>3, <1>4, <3>1
    <3> QED BY <2>2, <3>2
  <2>5. IsFiniteSet(A) /\ IsFiniteSet(B)
    <3>1. A \subseteq Items /\ B \subseteq Items'
      OBVIOUS
    <3> HIDE DEF A, B
    <3> QED BY <1>6, <3>1, FS_Subset
  <2> HIDE DEF A, B
  <2>6. Cardinality(A) \in Nat /\ Cardinality(B) \in Nat /\ Cardinality(A) <= Cardinality(B)
    BY <2>3, <2>5, FS_Subset, FS_CardinalityType
  <2> QED BY <2>1, <2>4, <2>6
<1> QED BY <1>1, <1>2, <1>5, <1>7

LEMMA WriteKeeps ==
  ASSUME SearchInv, Write
  PROVE  SearchInv'
<1>1. BaseInv
  BY DEF SearchInv
<1>2. /\ item' \in [ItemId -> Opt(Rows)] /\ categoryItem' \subseteq Category \X Items'
      /\ created' \in [ItemId -> 0 .. MaxItem] /\ TablesInv' /\ walk' \in Walk
  BY <1>1, WriteTables, WriteWatched
<1>3. CASE walk.place \in {"idle", "done"}
  <2>1. walk' = NoWalk
    BY <1>1, <1>3, WriteWatched
  <2>2. SearchTypeOK'
    BY <1>2, <2>1 DEF SearchTypeOK, NoWalk
  <2> QED BY <1>2, <2>1, <2>2, NoWalkKeeps
<1>4. CASE walk.place \notin {"idle", "done"}
  <2>1. /\ walk'.place = walk.place /\ walk'.asked = walk.asked /\ walk'.page = walk.page
        /\ walk'.total = walk.total /\ walk'.seen = walk.seen /\ walk'.first = walk.first
        /\ walk'.start = walk.start
        /\ walk'.steady = TRUE => walk.steady = TRUE /\ Found(walk.asked)' = Found(walk.asked)
        /\ walk'.inTurn = TRUE =>
             /\ walk.inTurn = TRUE
             /\ \A i \in Items' \ Items, j \in Items : created[j] < created'[i]
    BY <1>1, <1>4, WriteWatched
  <2>2. PICK f : f = walk.asked
    OBVIOUS
  <2>3. Normalized(f) /\ walk.place \in InFlight
    BY <1>1, <1>2, <1>4, <2>1, <2>2 DEF BaseInv, Walk, InFlight
  <2>4. BaseInv'
    <3>1. Normalize(walk.asked).limit \in 1 .. MaxItemLimit /\ Normalize(walk.asked).offset \in Nat
      BY <2>2, <2>3, NormalizedIsNormal DEF Normalized
    <3>2. SearchTypeOK'
      BY <1>2, <2>1, <3>1 DEF SearchTypeOK
    <3> QED BY <1>1, <1>2, <2>1, <2>2, <2>3, <3>2 DEF BaseInv
  <2>5. SteadyInv'
    <3> SUFFICES ASSUME walk'.steady
                 PROVE  /\ CountsOK(walk', Cardinality(Matches(walk.asked)'))
                        /\ RowsOK(walk', Rankings(walk.asked)')
      BY DEF SteadyInv
    <3>1. walk.steady = TRUE /\ Found(walk.asked)' = Found(f)
      BY <1>2, <2>1, <2>2 DEF Walk
    <3>2. Found(f)' = Found(f)
      BY <2>1, <2>2, <3>1, WithFilter
    <3>3. Matches(walk.asked)' = Matches(f) /\ Rankings(walk.asked)' = Rankings(f)
      BY <2>1, <2>2, <3>2, FoundSame, WithFilter
    <3>4. CountsOK(walk, Cardinality(Matches(f))) /\ RowsOK(walk, Rankings(f))
      BY <1>4, <2>2, <3>1 DEF SearchInv, SteadyInv
    <3>5. CountsOK(walk', Cardinality(Matches(f))) /\ RowsOK(walk', Rankings(f))
      BY <2>1, <3>4 DEF CountsOK, RowsOK
    <3> QED BY <3>3, <3>5
  <2>6. AgeInv'
    <3> SUFFICES ASSUME WalkByAge' PROVE AgeOK(walk', Places(walk.asked)')
      BY DEF AgeInv
    <3> DEFINE old == Places(f)
               new == Places(f)'
    <3>1. walk'.inTurn = TRUE /\ ByAge(f) /\ AgesDiffer'
      BY <1>2, <2>1, <2>2 DEF WalkByAge, ByAge, AgesDiffer, Walk
    <3>2. /\ AgesDiffer /\ DOMAIN old = Items /\ DOMAIN new = Items' /\ Items \subseteq Items'
          /\ \A i \in Items : old[i] \in Nat /\ new[i] \in Nat /\ old[i] <= new[i]
          /\ f.sort = "oldest" => \A i \in Items : new[i] = old[i]
      BY <1>1, <2>1, <3>1, PlacesMove
    <3>3. WalkByAge
      BY <1>4, <2>1, <3>1, <3>2 DEF WalkByAge, AgesDiffer
    <3>4. AgeOK(walk, old) /\ NothingMissed(walk, old)
      BY <2>2, <3>3 DEF SearchInv, AgeInv, AgeOK
    <3>5. Places(walk.asked)' = new
      BY <2>1, <2>2, WithFilter
    <3> HIDE DEF old, new
    <3>6. /\ Fetched(walk') = Fetched(walk) /\ (HasNext(walk') <=> HasNext(walk))
          /\ f.offset \in Nat /\ f.limit \in Nat
      BY <2>1, <2>3, LimitAssumption DEF Fetched, HasNext, Normalized
    <3>7. NothingMissed(walk', new)
      <4>1. walk.start \subseteq Items
        BY <3>2, <3>4 DEF NothingMissed
      <4>2. \A i \in walk.start : /\ new[i] <= f.offset => old[i] <= f.offset
                                  /\ new[i] <= f.offset + f.limit => old[i] <= f.offset + f.limit
        BY <3>2, <3>6, <4>1
      <4> QED BY <1>4, <2>1, <2>2, <3>2, <3>4, <3>6, <4>1, <4>2 DEF NothingMissed
    <3>8. ASSUME f.sort = "oldest" PROVE NothingTwice(walk', new)
      <4>1. NothingTwice(walk, old)
        BY <2>2, <3>4, <3>8 DEF AgeOK
      <4>2. Fetched(walk) \subseteq Items
        BY <3>2, <4>1 DEF NothingTwice
      <4>3. \A i \in Fetched(walk) : new[i] = old[i]
        BY <3>2, <3>8, <4>2
      <4> QED BY <2>1, <3>2, <3>6, <4>1, <4>2, <4>3 DEF NothingTwice, Fetched
    <3>9. AgeOK(walk', new)
      BY <2>1, <2>2, <3>4, <3>7, <3>8 DEF AgeOK
    <3> QED BY <3>5, <3>9
  <2> QED BY <2>4, <2>5, <2>6 DEF SearchInv
<1> QED BY <1>3, <1>4

LEMMA SearchStart == SearchInit => SearchInv
<1> SUFFICES ASSUME SearchInit PROVE SearchInv
  OBVIOUS
<1>1. Items = {} /\ nextItem = 1 /\ categoryItem = {} /\ item \in [ItemId -> Opt(Rows)]
  BY DEF SearchInit, TablesInit, Items, Opt
<1>2. created \in [ItemId -> 0 .. MaxItem]
  BY MaxItemAssumption DEF SearchInit
<1>3. walk \in Walk /\ walk.place = "idle" /\ walk.page = << >>
  BY NoWalkType DEF SearchInit, NoWalk
<1>4. TablesInv
  BY <1>1, MaxItemAssumption DEF TablesInv
<1>5. SearchTypeOK
  BY <1>1, <1>2, <1>3 DEF SearchTypeOK
<1> QED BY <1>3, <1>4, <1>5 DEF SearchInv, BaseInv, SteadyInv, AgeInv, WalkByAge

LEMMA SearchStep == SearchInv /\ [SearchNext]_searchVars => SearchInv'
<1> SUFFICES ASSUME SearchInv, [SearchNext]_searchVars PROVE SearchInv'
  OBVIOUS
<1>1. CASE UNCHANGED searchVars
  <2>1. UNCHANGED <<item, nextItem, categoryItem, created, walk>>
    BY <1>1 DEF searchVars
  <2> QED BY <2>1 DEF SearchInv, BaseInv, SearchTypeOK, TablesInv, SteadyInv, AgeInv, WalkByAge,
              Items, Matches, Rankings, Places, Place, SortKey
<1>2. CASE Write
  BY <1>2, WriteKeeps
<1>3. ASSUME NEW f \in Requests, StartWalk(f), UNCHANGED <<itemTables, created>> PROVE SearchInv'
  <2>1. f \in Filter
    BY RequestsAssumption
  <2> QED BY <1>3, <2>1, StartWalkKeeps
<1>4. CASE SearchPage /\ UNCHANGED <<itemTables, created>>
  BY <1>4, SearchPageKeeps
<1>5. CASE CountItems /\ UNCHANGED <<itemTables, created>>
  BY <1>5, CountItemsKeeps
<1>6. CASE AnswerSearch /\ UNCHANGED <<itemTables, created>>
  BY <1>6, AnswerSearchKeeps
<1>7. CASE SearchFails /\ UNCHANGED <<itemTables, created>>
  BY <1>7, SearchFailsKeeps
<1>8. CASE EndWalk /\ UNCHANGED <<itemTables, created>>
  <2>1. walk' = NoWalk
    BY <1>8 DEF EndWalk
  <2>2. Items' = Items /\ item' = item /\ nextItem' = nextItem /\ categoryItem' = categoryItem /\ created' = created
    BY <1>8, TablesSame
  <2>3. SearchTypeOK' /\ TablesInv'
    BY <2>1, <2>2, NoWalkType DEF SearchInv, BaseInv, SearchTypeOK, TablesInv, NoWalk
  <2> QED BY <2>1, <2>3, NoWalkKeeps
<1> QED BY <1>1, <1>2, <1>3, <1>4, <1>5, <1>6, <1>7, <1>8 DEF SearchNext, Search

LEMMA SearchAlways == SearchSpec => []SearchInv
BY SearchStart, SearchStep, PTL DEF SearchSpec

-----------------------------------------------------------------------------

\* The tables and the walk are well typed, and every window a query runs with
\* is one MySQL accepts, for any query strings and any limits.
THEOREM SearchTypeCorrect == SearchSpec => []SearchTypeOK
<1>1. SearchInv => SearchTypeOK
  BY DEF SearchInv, BaseInv
<1> QED BY <1>1, SearchAlways, PTL

\* A walk during which what matters to it does not change shows as many rows as
\* there are, and without ties exactly the matching items in order, however
\* many pages, items and filters there are.
THEOREM SteadyWalksExact == SearchSpec => []SteadyWalkIsExact
<1>1. SearchInv => SteadyWalkIsExact
  <2> SUFFICES ASSUME SearchInv, walk.place = "done", walk.steady, NEW s \in Rankings(walk.asked)
               PROVE  LET rest == SubSeq(s, walk.first + 1, Len(s)) IN
                      /\ Len(walk.seen) = Len(rest)
                      /\ Cardinality(Rankings(walk.asked)) = 1 => walk.seen = rest
    BY DEF SteadyWalkIsExact
  <2> DEFINE n == Cardinality(Matches(walk.asked))
  <2>1. Len(walk.seen) = Between(walk.first, n, n) /\ RowsOK(walk, Rankings(walk.asked))
    BY DEF SearchInv, SteadyInv, CountsOK
  <2>2. n \in Nat /\ s \in Seq(ItemId) /\ Len(s) = n
    BY RankingIsSequence
  <2>3. walk.first \in Nat
    BY DEF SearchInv, BaseInv, SearchTypeOK, Walk
  <2> HIDE DEF n
  <2>4. Len(SubSeq(s, walk.first + 1, Len(s))) = Between(walk.first, n, n)
    <3>1. \A i \in walk.first + 1 .. n : s[i] \in ItemId
      BY <2>2, <2>3
    <3>2. Len(SubSeq(s, walk.first + 1, n)) = IF walk.first + 1 <= n THEN n - (walk.first + 1) + 1 ELSE 0
      BY <2>2, <2>3, <3>1, SubSeqProperties
    <3> QED BY <2>2, <2>3, <3>2 DEF Between
  <2>5. Cardinality(Rankings(walk.asked)) = 1 => walk.seen = SubSeq(s, walk.first + 1, Len(s))
    BY <2>1, OnlyRanking DEF RowsOK
  <2> QED BY <2>1, <2>4, <2>5
<1> QED BY <1>1, SearchAlways, PTL

\* A walk by age through all items misses none that was there at its start,
\* whatever is posted and replaced meanwhile, and from the oldest on shows none
\* twice.
THEOREM WalksByAgeMissNothing == SearchSpec => []WalkByAgeMissesNothing
<1>1. SearchInv => WalkByAgeMissesNothing
  BY DEF SearchInv, AgeInv, AgeOK, NothingMissed, NothingTwice, WalkByAgeMissesNothing
<1> QED BY <1>1, SearchAlways, PTL
=============================================================================
