----------------------------- MODULE ItemSearch -----------------------------
(***************************************************************************)
(* GET /items beside the writers of items (ItemTables, which Catalog       *)
(* implements).  A search is two queries on the pool, the page and the     *)
(* count, each of which sees what is committed when it runs; statements of *)
(* POST, PUT and the importer come between them and between the pages.     *)
(*                                                                         *)
(* One client walks through the pages: it follows has_next, advancing by   *)
(* the limit it was answered, and keeps the ids it was shown.              *)
(*                                                                         *)
(* A definition whose name ends in an underscore and a suffix is the one   *)
(* after it with a mistake in it; the runs show which property it breaks.  *)
(***************************************************************************)
EXTENDS ItemTables, Sequences, FiniteSetsExt, Functions

CONSTANTS
    CategoryRef,       \* the category ids clients ask for
    DefaultItemLimit,  \* 20
    MaxItemLimit,      \* 100
    Requests           \* the query strings clients send

Opt(S) == S \cup {NULL}

Sort == {"newest", "oldest", "price_asc", "price_desc"}

\* domain.ItemFilter.  Parameters that do not parse are absent, and any other
\* sort is "newest"; the handler has done both.
Filter == [category : Opt(CategoryRef), minPrice : Opt(Int), maxPrice : Opt(Int),
           sort : Sort, limit : Int, offset : Int]

ASSUME LimitAssumption ==
    DefaultItemLimit \in Nat \ {0} /\ MaxItemLimit \in Nat /\ DefaultItemLimit <= MaxItemLimit
ASSUME RequestsAssumption == Requests \subseteq Filter

VARIABLES
    created,  \* item.created_at: the seconds that have an item, numbered
    walk      \* the client's walk, and the search it has in flight

searchVars == <<item, nextItem, categoryItem, created, walk>>

Walk ==
    [place  : {"idle", "page", "count", "answer", "done"},
     asked  : Opt(Filter),   \* the filter as the handler has it
     page   : Seq(ItemId),   \* items
     total  : Nat,           \* total
     seen   : Seq(ItemId),   \* what the walk has shown so far
     first  : Nat,           \* the offset the walk began at
     start  : SUBSET ItemId, \* auxiliary: the items that matched when it began
     steady : BOOLEAN,       \* auxiliary: what matches, and its order, is as it was then
     inTurn : BOOLEAN]       \* auxiliary: every item posted since is younger than all others

NoWalk ==
    [place |-> "idle", asked |-> NULL, page |-> << >>, total |-> 0, seen |-> << >>,
     first |-> 0, start |-> {}, steady |-> TRUE, inTurn |-> TRUE]

SearchInit ==
    /\ TablesInit
    /\ created = [i \in ItemId |-> 0]
    /\ walk = NoWalk

-----------------------------------------------------------------------------
(* The use-case *)

Normalize_LimitOnly(f) ==
    [f EXCEPT !.limit = IF @ <= 0 \/ @ > MaxItemLimit THEN DefaultItemLimit ELSE @]

Normalize(f) ==
    [f EXCEPT !.limit = IF @ <= 0 \/ @ > MaxItemLimit THEN DefaultItemLimit ELSE @,
              !.offset = IF @ < 0 THEN 0 ELSE @]

\* filterClause; category_item has an item at most once for a category.
Matches(f) ==
    {i \in Items :
        /\ f.category = NULL \/ <<f.category, i>> \in categoryItem
        /\ f.minPrice = NULL \/ item[i].price >= f.minPrice
        /\ f.maxPrice = NULL \/ item[i].price <= f.maxPrice}

SortKey_NewestIfNoPrice(f, i) ==
    CASE f.sort \in {"oldest", "newest"} -> -created[i]
      [] f.sort = "price_asc"  -> item[i].price
      [] f.sort = "price_desc" -> -item[i].price

\* orderClause: what ORDER BY compares, ascending.
SortKey(f, i) ==
    CASE f.sort = "oldest"     -> created[i]
      [] f.sort = "newest"     -> -created[i]
      [] f.sort = "price_asc"  -> item[i].price
      [] f.sort = "price_desc" -> -item[i].price

\* The orders a query may return the rows in: nothing breaks ties.
Rankings(f) ==
    LET S == Matches(f)
        D == 1 .. Cardinality(S)
    IN  {s \in Bijection(D, S) : \A m, n \in D : m < n => SortKey(f, s[m]) <= SortKey(f, s[n])}

\* LIMIT ? OFFSET ?
Window(f, s) == SubSeq(s, f.offset + 1, IF f.offset + f.limit <= Len(s) THEN f.offset + f.limit ELSE Len(s))

-----------------------------------------------------------------------------
(* The endpoint *)

Received_AsSent(f) == f

\* The handler normalizes what it received: the answer tells this window.
Received(f) == Normalize(f)

StartWalk(f) ==
    /\ walk.place \in {"idle", "done"}
    /\ walk' = [NoWalk EXCEPT !.place = "page",
                              !.asked = Received(f),
                              !.first = Normalize(f).offset,
                              !.start = Matches(f)]

\* ItemRepository.Search, with the filter as the service normalizes it again.
SearchPage ==
    /\ walk.place = "page"
    /\ \E s \in Rankings(walk.asked) :
         walk' = [walk EXCEPT !.place = "count", !.page = Window(Normalize(walk.asked), s)]

\* ItemRepository.Count.
CountItems ==
    /\ walk.place = "count"
    /\ walk' = [walk EXCEPT !.place = "answer", !.total = Cardinality(Matches(walk.asked))]

HasNext(w) == w.asked.offset + Len(w.page) < w.total

\* The answer reaches the client, which asks for the next page if there is one.
AnswerSearch ==
    /\ walk.place = "answer"
    /\ walk' = [walk EXCEPT
                  !.place = IF HasNext(walk) THEN "page" ELSE "done",
                  !.asked.offset = IF HasNext(walk) THEN @ + walk.asked.limit ELSE @,
                  !.seen = @ \o walk.page,
                  !.page = << >>,
                  !.total = 0]

\* A query fails or the server dies: the client asks for the page again.
SearchFails ==
    /\ walk.place \in {"page", "count", "answer"}
    /\ walk' = [walk EXCEPT !.place = "page", !.page = << >>, !.total = 0]

\* The client has seen enough.
EndWalk == walk.place # "idle" /\ walk' = NoWalk

Search ==
    /\ \/ \E f \in Requests : StartWalk(f)
       \/ SearchPage \/ CountItems \/ AnswerSearch \/ SearchFails \/ EndWalk
    /\ UNCHANGED <<itemTables, created>>

-----------------------------------------------------------------------------

Latest == Max({created[i] : i \in Items} \cup {0})

\* created_at is the second in which the INSERT began: that of the youngest
\* item, a later one, or, if the INSERT was slow, the one before.
Stamp ==
    IF nextItem' = nextItem
    THEN UNCHANGED created
    ELSE \E t \in {Latest - 1, Latest, Latest + 1} \cap Nat :
            created' = [created EXCEPT ![nextItem] = t]

\* What a query would return, and by what it would be sorted.
Found(f) == [i \in Matches(f) |-> SortKey(f, i)]

\* The auxiliary fields see what the statement changed; a walk that is done is
\* forgotten.
Watch ==
    IF walk.place \in {"idle", "done"}
    THEN walk' = NoWalk
    ELSE \E f \in {walk.asked} :
           walk' = [walk EXCEPT
                      !.steady = @ /\ Found(f)' = Found(f),
                      !.inTurn = @ /\ \A i \in Items' \ Items, j \in Items : created[j] < created'[i]]

Write ==
    /\ WriteItem /\ Stamp /\ Watch

SearchNext == Write \/ Search

SearchSpec == SearchInit /\ [][SearchNext]_searchVars
-----------------------------------------------------------------------------
(* Properties *)

\* The type invariant; every window a query runs with is one MySQL accepts.
SearchTypeOK ==
    /\ item \in [ItemId -> Opt(Rows)]
    /\ categoryItem \subseteq Category \X Items
    /\ created \in [ItemId -> 0 .. MaxItem]
    /\ walk \in Walk
    /\ walk.place = "page" =>
         Normalize(walk.asked).limit \in 1 .. MaxItemLimit /\ Normalize(walk.asked).offset \in Nat

\* If nothing that matters to it changed, a walk shows as many rows as there
\* are, and without ties exactly the matching items, once each and in order:
\* the pages, the totals and has_next of several answers fit together.  With
\* ties, a row may take the place of another.
SteadyWalkIsExact ==
    walk.place = "done" /\ walk.steady =>
      \A s \in Rankings(walk.asked) :
        LET rest == SubSeq(s, walk.first + 1, Len(s)) IN
        /\ Len(walk.seen) = Len(rest)
        /\ Cardinality(Rankings(walk.asked)) = 1 => walk.seen = rest

Unfiltered(f) == f.category = NULL /\ f.minPrice = NULL /\ f.maxPrice = NULL

\* A walk through all items by age, none of them of the same second.
WalkByAge ==
    /\ walk.place # "idle" /\ walk.inTurn /\ walk.first = 0
    /\ Unfiltered(walk.asked) /\ walk.asked.sort \in {"newest", "oldest"}
    /\ \A i, j \in Items : i # j => created[i] # created[j]

\* Such a walk misses no item that was there when it began, whatever is posted
\* and replaced meanwhile, and from the oldest on it shows none twice.
WalkByAgeMissesNothing ==
    WalkByAge /\ walk.place = "done" =>
    /\ walk.start \subseteq Range(walk.seen)
    /\ walk.asked.sort = "oldest" => IsInjective(walk.seen)
=============================================================================
