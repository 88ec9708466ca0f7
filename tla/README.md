# Specifications of the shop API

TLA+ modules, TLC runs and TLAPS proofs kept beside `go-architecture`, a modular
monolith (Go, `database/sql`, MySQL/InnoDB) that sells items: members register,
items are created and replaced, orders are placed and canceled. The code is the
reference; every definition that models code is listed with its lines in
`PROJECT.json` ("map").

## The system

| component | state it keeps | operations | talks to |
|---|---|---|---|
| `internal/ordering` | tables `orders`, `order_item`, `delivery` | `Place`, `Cancel`, `FindByMember` | catalog and customer through `ItemGateway`, `MemberGateway`; `TxManager` |
| `internal/catalog` | tables `item`, `category_item` (`category` is seeded) | `Create`, `Update`, `GetByID`, `Search`, `Reserve`, `Restore` | the ambient transaction or the pool |
| `internal/customer` | table `member` | `Register`, `GetByID` (`GetMember`) | as catalog |
| `internal/platform/database` | none: a `*sql.Tx` travels in the context | `TxManager.Do` (begin, run, commit or roll back), `TxFromContext`, `Open` | MySQL |
| `internal/platform/httpx` | none | error to status, JSON, path and query parameters, CORS, `Timeout` | every handler |
| `internal/shared` | none | `Address`, the error taxonomy | everyone |
| `internal/bootstrap` | none | wires the modules, the adapters and the middleware | |
| `cmd/api` | the server process: listener, `errCh`, signal context, connections | open, listen, signal, `Shutdown` within 10 s | every handler, through `net/http` |
| `cmd/import` | none of its own | a CSV file, row by row, through catalog's `CreateItem` | catalog |
| `cmd/migrate`, `migrations` | the schema | goose up/down | MySQL |
| `*/sqlcdb` (generated), `docs` (generated), `e2e`, `deploy` | | statements, API description, tests, images | |

All shared state is in the database; handlers are goroutines that meet nowhere
else. What makes the system hard is therefore what happens *between SQL
statements*:

- **interleaving and stale reads.** `BeginTx(ctx, nil)` runs at InnoDB's default
  REPEATABLE READ. `Reserve` and `Restore` read the stock with a plain `SELECT`
  (the snapshot), compute in Go, and store an absolute value; `Cancel` decides on
  a status read the same way. The UPDATE waits for the row's lock but never
  looks at the row again.
- **lock order.** Rows are locked in the order of the request's lines (`Place`)
  or in the order MySQL returns them (`Cancel`): lock cycles are possible and the
  victim is not retried.
- **partial failure.** The request deadline, a lock wait timeout or a broken
  connection may fail any statement; `Do` rolls back. A commit may succeed and its
  acknowledgement be lost.
- **crashes and timeouts.** `Shutdown` gives requests 10 s, their deadline
  (`CONTEXT_TIMEOUT`) is 30 s by default and covers their statements, but neither the
  arrival of their bodies nor COMMIT and ROLLBACK, which `Do` sends under no context; a
  failed listener ends the process with no wait at all.
- **numbers.** Go computes in 64 bits, the columns hold 32: `int32(n)` wraps.
- **outside transactions.** The item endpoints write the item and its categories
  as separate statements on the pool; `FindByMember` and `Search` read in several
  queries, and a client that pages through `Search` makes several searches, whose
  windows count from the front of a list that grows.

What makes each part correct:

- *ordering*: an order exists whole or not at all, is answered as stored, is
  canceled at most once, and stock plus units sold changes only through the
  item endpoints;
- *TxManager*: nothing a transaction did shows unless it committed, nothing of it
  (locks, versions) outlives the request, every request ends if MySQL answers;
- *catalog*: stock is never negative; an item and its categories change
  together and are stored as answered; a 404 means there is no such item;
- *customer*: an order's member exists (checked in the order's transaction);
- *catalog's search*: the pages, offsets, totals and `has_next` of several answers
  fit together;
- *cmd/api*: a request is answered or its transaction leaves no trace; a process
  that ends well has answered everyone; a signal always ends it;
- *cmd/import*: a row counted as failed stored nothing.

`PROJECT.json` "hazards" lists every place where one of these can fail, with
the property that watches it or why there is none.

## Modules

| module | what it is |
|---|---|
| `Columns` | `Int32` and the conversion to it, shared by the modules below |
| `Database` | the tables, and the transactions of `TxManager` as operators: snapshot (`TakeSnapshot`), own writes (`ItemSeen`), current reads and row locks (`UpdateItemStock`, `UpdateOrderStatus`), inserts, `CommitTx`, `RollbackTx`; statements on the pool |
| `Ordering` | `Place` and `Cancel` as programs over `Database`, one action per SQL statement, with the catalog's `Reserve`/`Restore`, failures, deadlock victims, crashes and the other contexts' writes; the properties |
| `OrderBook` | the abstract specification: orders appear whole, never change except to be canceled, and move stock |
| `OrderingRefinement` | the mapping from the committed tables to `OrderBook`, in two strengths |
| `OrderListing` | `Ordering` composed with a reader: `FindByMember`'s three queries on the pool |
| `ItemTables` | the abstract specification of whoever writes items: one whole statement at a time on `item` and `category_item` |
| `Catalog` | `POST` and `PUT /items` and `cmd/import`, one action per statement, outside transactions; independent of `Ordering`; implements `ItemTables` |
| `ItemSearch` | `GET /items` beside the writers of `ItemTables`: filter, sort, window, count, and a client that walks through the pages |
| `ApiServer` | the life of `cmd/api`: `run`, the listener's goroutine, signals, `Shutdown`, and requests with their deadlines |
| `MCOrdering`, `MCOrderListing`, `MCCatalog`, `MCItemSearch`, `MCApiServer` | values for the constants |
| `ColumnsProofs`, `OrderingProofs`, `OrderingAtomicityProofs`, `OrderBookProofs`, `OrderListingProofs` | theorems about ordering: types, locks and stock; atomicity and answers; the refinement of `OrderBook`; listings |
| `CatalogProofs`, `ItemSearchProofs`, `ApiServerProofs` | theorems about the other components |

### Correspondence with the code

A **worker** is a request in flight: a handler goroutine, and the connection its
transaction owns. `pc[w]` is the next statement the handler will send,
`loc[w]` its Go locals, `tx[w]` its transaction, `reply[w]` the answer it has
and has not yet written. The steps of the two handlers:

    place:   SubmitPlace -> EnsureExists -> (Reserve -> ReserveUpdate)* ->
             CreateDelivery -> CreateOrder -> CreateOrderItem* -> Commit -> Respond
    cancel:  SubmitCancel -> LoadOrder -> (Restore -> RestoreUpdate)* ->
             UpdateStatus -> Commit -> Respond

`SubmitPlace` and `SubmitCancel` are the REST handlers up to the transaction
(`Valid` is `Place`'s check; a refused body goes to `Respond` at once, and so does an
id that `PathID` refuses, which 0 stands for).
Consecutive SELECTs of one transaction read one snapshot and are one step, as
is the Go code up to the next statement, which touches locals only. So
`LoadOrder` is `GetByID` with its three queries and `Order.Cancel`; `Reserve` is
`GetByID` and `RemoveStock`; `ReserveUpdate` is `UpdateStock` and the loop's
bookkeeping. The early returns of a handler are the branches that `Abort`:
`Do` rolls back and the error becomes the answer (`statusFromError`).

`StatementFails` covers every error that is not the code's own: deadline, lock wait
timeout, connection; `Do` then rolls back. `CommitUnacknowledged` is a commit that
happened and returned an error. `DeadlockVictim` is InnoDB choosing a member of a lock
cycle. `Crash` ends the process: MySQL rolls back what is open. `Register`,
`CreateItem` and `ReplaceItem` are the writes of the other contexts as ordering sees
them: one row, one statement.

Data is reduced to what the properties distinguish: an item row is its price and
stock, an order its member, delivery, status and lines; names, addresses and
dates are left out. Amounts are integers that `ToInt32` wraps as `int32(n)` does,
with `IntMax` for 2^31 - 1. `order_item.id` is replaced by the line's position,
which is all the id is used for.

In `OrderListing` the reader's locals are those of `FindByMember`, and `told` is what
clients have been told so far: `ListOrders`, `LoadItems` and `LoadDeliveries` are
its queries, each on what is committed at that moment.

In `Catalog` a process is a request or the importer:

    create:  SubmitCreate (ReadRow) -> CreateItem -> ClearCategories -> LinkCategory* -> Respond (CountRow)
    update:  SubmitUpdate -> ReplaceItem -> ClearCategories -> LinkCategory* -> Respond

Every statement is committed at once. `RowsAffected` counts the rows MySQL changed,
as the driver does unless the DSN asks for `clientFoundRows`, which
`database.Open` does not. `StatementFails` is a statement that was executed, or was
not, and returned an error either way. The item row is its price and stock, the
columns a PUT compares. `posts` is a bound; `alone` (no other writer touched the
process's item since it began) and `maker` (who inserted an item) are auxiliary:
no guard reads them.

`ItemSearch` does not repeat `Catalog`'s handlers: it `EXTENDS ItemTables`, whose
steps are all that a reader on the pool can see of them (`ImplementsItemTables`
says so), and reads beside any sequence of such steps, which is more than
`Catalog` does. `walk` is one client's walk: the filter the handler has
(`Received`, which normalizes), the page and the total it has fetched, and what
the client has been shown. `SearchPage` and `CountItems` are the two queries of
`Service.Search`, which normalizes its own copy of the filter; `AnswerSearch` is
the answer with `HasNext`, and the client's next request, one limit further on.
`Rankings` are the orders MySQL may return the rows in, all that respect ORDER BY;
`Window` is LIMIT and OFFSET. `created` numbers the seconds of `created_at`; an item
gets the latest second, a later one, or the one before (a slow INSERT). Parameters
that do not parse are absent and an unknown sort is "newest", as the handler and
`orderClause` have it. `first`, `start`, `steady` and `inTurn` are auxiliary.

In `ApiServer`, `pc` is where `run` is: opening the database, in its `select`, in
`Shutdown`, returning (`closing`: the deferred calls, `db.Close` last), gone.
`place[r]` is where a request's connection is: accepted but silent, its body awaited
(`reading`), at its statements (`running`), its answer to be written, answered; or
`dropped` without a request, or `cut` in the middle. From its statements a request
goes to its answer at once (`Succeed`, `Fail`: a use-case on the pool, or a connection
that is gone), or through the end of its transaction (`Ending`): `committing`, which
is not begun once the context is done, or `rollingBack`. Only `running` is subject to
the deadline, although the clock (`left`) runs from `Arrive` on: the context reaches
neither the read of the body nor `tx.Commit()` and `tx.Rollback()`, and the DSN sets
no read timeout. A statement that the deadline ends needs no ROLLBACK: the driver has
closed its connection. What a use-case does to the tables is in the other modules, to
which every end of the process is a `Crash`. `owed` is auxiliary: the requests that
were at their statements or beyond when Shutdown began, less those that COMMIT or
ROLLBACK has kept past the deadline. `net/http` is external: `Shutdown` stops the
listener, closes silent connections and waits for active ones, and returns the
context's error when that is done first. A connection carries one request (an idle one
is closed by `Shutdown`, and a next request is another `r`). A tick is five seconds
and passes only when nobody has something to do that takes less (`Urgent`): a
statement whose context is done returns, an answer that fits the socket is written,
`run` goes on.

InnoDB is not in the repository. What is assumed of it: the first SELECT fixes
the snapshot (BeginTx does not); a transaction sees its own versions; an UPDATE
reads and locks the newest committed row, and writes no version if it changes
nothing; AUTO_INCREMENT is not rolled back; a commit shows all versions at once
and releases all locks; a lock cycle is detected and one member rolled back; and a
transaction whose statement failed at a deadline or with its connection is rolled
back at that moment. The last is an idealization: the driver closes its socket, and
MySQL rolls back and releases the locks when it notices. Until then the locks look
to others like those of a request still in flight.

## Runs

Common bounds of the `Ordering` runs: two items (the least that has two lock
orders), one member, ids up to `MaxOrder`, which also bounds how many valid orders are
ever submitted. Worker symmetry is used in the safety runs; it is not used in the
liveness run. "Opposite orders" are two orders of the same two items whose lines come in
opposite order.

| run | instance | shows |
|---|---|---|
| `ordering_safety` | `Spec`, 2 workers, 2 orders: of one item twice, of two items; stock 2 | all invariants, the balance of stock and sales, and that `Ordering` implements `OrderBook` |
| `ordering_serial` | `SerialSpec`, 1 worker, 2 orders, repeated items, a refused count, 2 prices, stock 3 or 4 | implements `OrderBook` with `Exact`: exact quantities, current prices, one cancel per order |
| `ordering_liveness` | `FairRestingSpec`, 2 workers, 2 opposite orders, stock 1; the item endpoints write only while no request is in flight | every request ends |
| `order_listing` | `ListingSpec`, 1 worker and the reader, 2 members, 2 orders | orders are listed whole and what was listed stays true |
| `catalog` | `Spec`, 2 workers and the importer, 2 items; bodies that overflow and name a missing category, or are refused; a file with a malformed row and an item whose price overflows | an answer is what is stored, as far as it fits, the importer's counts add up, and every step is one statement of `ItemTables` |
| `item_search` | `SearchSpec`, 3 items, 2 prices, 1 category, limits 1 and 2, 6 query strings with every filter, every sort and windows to be normalized | walks through the pages are exact when nothing changes and miss nothing by age |
| `api_server` | `FairSpec`, 2 requests, `CONTEXT_TIMEOUT` 30 s, 5 s and negative, `Shutdown` 10 s | who is drained and who is cut; a signal ends the server, the deadline a hung statement but no hung COMMIT |
| `put_unchanged` | importer and 1 worker | **violation**: a PUT of an existing item answers 404 |
| `no_rows_imported` | importer and 1 worker | **violation**: "no rows imported", and an item is stored |
| `lost_update` | 2 workers, 2 opposite orders, stock 1 | **violation**: two orders both take the last unit |
| `double_cancel` | 2 workers, 1 order, stock 1 | **violation**: two cancels of one order both answer 204 |
| `stock_wraps` | `IntMax` = 1 | **violation**: restoring to a full column wraps to a negative stock |

The properties:

- `TypeOK`: the type invariant; it also says that the delivery's id is read
  before it is used, and that stored amounts fit 32 bits.
- `StockNeverNegative`: in spite of lost updates, since every stored stock was
  computed from a stock that passed the check. With `IntMax` = 15 no sum
  overflows; `stock_wraps` shows what an overflow does.
- `NoPartialOrder`: an order has its delivery, and each line of a valid request and no
  other, and vice versa; no command of the run is the beginning of another. Which
  request it was is known while it lasts, so `AnswerMatchesDatabase` says that.
- `AnswerMatchesDatabase`: 201 means the order as answered is stored; a 4xx that
  there is none; 204 and "already canceled" that it is canceled. A 500 says
  nothing, but never "half": the order is there whole or not at all.
- `NoLeakedTransaction`: lock sets are disjoint, versions are written under locks
  and nothing of a transaction outlives it.
- `OnlyStaleCommitsShiftBalance`: for each item, stock plus units in live orders
  changes only by the item endpoints, or by a commit whose snapshot was stale
  about that item's stock or the canceled order's status. It says exactly which
  interleavings lose or create units, and that nothing else does, also when an order
  repeats an item while another transaction is at it.
- `ImplementsOrderBook`, `ImplementsExactOrderBook`: refinement.
- `EveryRequestAnswered`: liveness.
- `ListedOrdersAreWhole`, `ListingsAdvance`: what three queries at three moments may
  be relied on for.
- `CatalogTypeOK`: the type invariant, with the foreign keys of `category_item`.
- `AnswerIsStored`: a writer that was alone on its item and told ok finds the price and
  the stock as it sent them, each if it fits its column, and exactly the categories it
  sent; with another writer the result may be a mix. An amount that does not fit is
  answered as it was sent and stored as `int32` cuts it.
- `ImplementsItemTables`: refinement. Nobody ever sees half a row, a row `validate`
  refused, an id used again, or a category linked to nothing.
- `ImportCountsAddUp`: rows read are rows counted, and the counts bound what was
  stored from both sides.

- `SearchTypeOK`: the type invariant; every window a query runs with is one MySQL
  accepts.
- `SteadyWalkIsExact`: if what matches and its order stay the same, following
  `has_next` to the end shows as many rows as there are from the offset on, and
  if sort keys are distinct, exactly the matching rows, once, in order. It
  relates the offset and limit the handler tells, those the query ran with, and the
  total of the second query. With equal keys only the number holds: nothing in
  `orderClause` breaks ties, and a row may be shown twice and another never.
- `WalkByAgeMissesNothing`: posts and replacements during a walk by age do not hide
  an item that was there at its start; newest first it may show one twice (posts
  shift the windows), oldest first never. Not so by price, which a PUT changes,
  with a filter, or when two items share a second.
- `ApiServerTypeOK`: the type invariant; the listener has stopped when `run` leaves
  its `select`.
- `CleanExitAnswersAll`: exit status 0 means nobody was cut.
- `DrainedInTime`: with `CONTEXT_TIMEOUT` below `shutdownTimeout`, no request that was
  at its statements when `Shutdown` began is cut, short of a kill, except one whose COMMIT
  or ROLLBACK outlasts the deadline, which no timeout ends. With the defaults
  (30 s and 10 s) the premise is false, and TLC does find requests cut: "graceful
  shutdown" (README.md:39) is then graceful for 10 s only.
- `SignalEndsServer`, `OnlyCommitHangs`: liveness. Bodies that never arrive, statements
  and COMMITs that never return hold up a shutdown for `shutdownTimeout` at most,
  whatever the listener does meanwhile. A hung statement is over at the
  request's deadline; only a COMMIT or ROLLBACK on a dead connection keeps its
  request for ever. So does a body that never comes: neither has a deadline.

Why the bounds are enough. Every hazard listed needs two requests and one or two
items: a lost update two orders of one item, a double cancel two cancels, a
deadlock two orders of two items, a leaked lock one failed request and a waiter.
The second order id lets an order be placed and canceled while another is placed.
In `ordering_safety` two units let the order of one item twice succeed and leave none
for the other, which asks for both at once and for another item: each is refused after
the other unless a PUT or a cancel comes between. A cancel restores the lines of two
items in either order, so lock cycles form. Lock cycles of two orders in opposite
orders, which need one unit of each item, are in `ordering_liveness` and the violations.
That run lets the item endpoints write only between requests (`CatalogRests`): their
statements are single steps that hold no lock between two steps, so no request ever
waits for one, and a shelf found empty or full is reached by the writes before the
requests. `MaxOrder`
bounds submissions, not cancels or failures; ids are consumed by rolled back
orders as in MySQL. One worker suffices beside the reader of `order_listing`: orders
of one request after another already fall between any two of its queries, and a
commit is one step whoever makes it. `Catalog`'s mixes need two writers of one item
with overlapping categories; `MaxPosts` and `MaxItem` bound the items.
A window can shift under a walk with one item before it and one behind it, and three
items let a page of two be followed by another; the `CONSTRAINT` of `item_search` only
stops following walks of which no property says anything any more. `api_server`
needs one request that holds `Shutdown` up and one that is finished or still to
come; its three timeouts lie above, below and outside what `Shutdown` waits.

Fairness (`FairSpec`): strong fairness of a worker's own statements, because a
goroutine keeps running, MySQL answers, and InnoDB grants a released lock to a waiter,
so a statement that becomes possible again and again is executed; weak fairness of
deadlock detection. No fairness is assumed of clients, failures, the deadline, crashes
or other contexts. In particular `EveryRequestAnswered` does not rely on the deadline
firing, and it assumes that COMMIT returns, which the code does not enforce:
`OnlyCommitHangs` is about that. It would fail without deadlock detection (two
opposite orders) and with a forgotten rollback. In `ApiServer` weak fairness of `Run`
and of answers (goroutines keep running), of `DeadlineFails` (the driver gives up when
the context is done) and of `Tick` (time passes); none of clients, statements, COMMIT
and ROLLBACK (MySQL need not answer), the listener, signals or kills.

Deadlock (in TLC's sense) is checked in every run but `api_server`: a client may
always send another cancel, ask for the list or send another PUT, so the system
never stops. The server does stop.

Each property of a passing run has a mutant: a definition with a plausible mistake
(`..._Suffix` in the modules) under which the run finds the property violated.

## What the violations show

1. **Lost update** (`service.go:66`): `Reserve` "decrements" by overwriting. Two
   concurrent orders of the last unit both answer 201. `SELECT ... FOR UPDATE`, or
   `SET stock_quantity = stock_quantity - ? WHERE stock_quantity >= ?`, would close it.
2. **Double cancel** (`ordering.go:128`): both requests see `ORDER`; the second
   UPDATE changes nothing and is not checked. Each cancel's restores read the snapshot
   in which it saw `ORDER` and store an absolute value, so the two cancels alone return
   the units once. If another order of the item commits between them, the second
   cancel overwrites its decrement.
3. **Wrap-around** (catalog `repo.go:104`): `int32(quantity)` is unchecked.
4. **404 for an item that exists** (catalog `repo.go:81`): a PUT that changes no column
   affects 0 rows. Its categories are not written either, so a PUT that changes only
   the categories never succeeds. `clientFoundRows=true` would close it.
5. **"no rows imported"** (`cmd/import/main.go:96`): the item row of a failed row stays;
   `Create` in a transaction would close it.

## Proofs

Every invariant the runs check is also a theorem, and so are the refinements of
`OrderBook` and `ItemTables` and `ListingsAdvance`. Two of them are conditional, on stocks
that fit their column (`StockStaysNonNegative`, `OrderingImplementsOrderBook`). All hold
for every number of
workers, items, members and requests, every set of commands, bodies, files and
query strings, and every integer width, from the assumptions named in the modules:
sets of workers are finite, constants have their types, `NULL` and other marks are
none of the values they are compared with, and the bounds on ids leave room for
what is submitted.

About ordering. `TypeInv`, `LockInv`, `StockInv`, `AtomInv` and `ShelfInv` build on
each other; each is what the property needs and does not say itself.

- `OrderingProofs!TypeCorrect`: `Spec => []TypeOK`. `TypeOK` is not inductive: that
  `ReserveUpdate` stores a well-typed row needs `loc[w].it` to be set at
  "reserved"; that `CreateOrder` stores a delivery id needs `dlv` to be one;
  that `UpdateOrderStatus` yields a row needs the order to exist and a snapshot
  to be there. `TypeInv` adds, per place of the handler, which locals are set, that
  `k` indexes the loop's sequence, and that ids stay within the ids allocated
  (at most one per submitted order, hence `submitted` and `MaxOrder`).
- `OrderingProofs!LocksDisjointAndReleased`: `Spec => []NoLeakedTransaction`,
  from `LockInv`: it adds to the property that an order id not yet allocated is
  locked by nobody and has no row, which is why an INSERT's lock is free.
- `OrderingProofs!StockStaysNonNegative`: `Spec /\ SentStockFits /\ []RestoredStockFits
  => []StockNeverNegative`. `SentStockFits`: every stock that POST and PUT are sent fits
  its column; `RestoredStockFits`: so does every stock that a cancel is about to store.
  `validate` (`service.go:90`) checks neither bound, so they are hypotheses about what
  happens and not assumptions about the constants; a POST of stock 2^31 breaks the
  first, `stock_wraps` shows the second broken.
  `StockInv` carries non-negativity from the committed table to snapshots, to
  uncommitted versions and to the item in a handler's hands, and says that counts, in
  commands, carts and stored lines, are not negative.
- `OrderingAtomicityProofs!OrdersAllOrNothing`, `AnswersTrue`, `OrdersLast`:
  `NoPartialOrder`, `AnswerMatchesDatabase`, and that no step changes a committed
  order but to cancel it. `Asked` says that each stored order fulfils a valid command,
  line by line; `AtomInv` describes the order a transaction is building: at
  each place of `Place`, the lines of its own versions are the cart's first `k - 1`,
  the delivery is there from `CreateOrder` on, nobody else has rows of its ids, and a
  snapshot shows orders that are still there. After a commit, acknowledged or not, it
  says that the whole order is in the tables.
- `OrderBookProofs!OrderingImplementsOrderBook`: `Spec /\ SentStockFits /\
  []RestoredStockFits => ImplementsOrderBook`: `OrderBook` keeps stock non-negative. A
  commit is an act of `OrderBook`, a write of an item endpoint another, every other
  step a stutter. What an act may touch needs `ShelfInv`: items are never deleted, an
  uncommitted version is of an item the request names, and its price, which the UPDATE
  does not mention, is the committed one, since the row has been locked from the
  UPDATE on. The abstract lines are a sequence; that the stored set of lines is one,
  without gaps, comes from `AtomInv`.
- `OrderListingProofs!ListingTypeCorrect`, `ListedOrdersWhole`, `ListingsOnlyAdvance`:
  from `OrdersLast`, what the reader's earlier queries saw is still in the tables
  when the later ones run.

About the catalog:

- `CatalogProofs!CatalogTypeCorrect`, `AnswersStored`, `ImportCountsTrue`:
  `[]CatalogTypeOK`, `[]AnswerIsStored`, `[]ImportCountsAddUp`, from one `CatalogInv`.
  `ProcessesOK` says what a process alone on its item has stored so far, statement by
  statement, as `int32` leaves it, from which `AnswersStored` takes the amounts that
  fit; `IdsOK` that the ids given out and the inserts still to come never exceed the
  posts and rows begun, so that `MaxItem` (`ItemAssumption`) suffices; `ImportInv`
  that the counts account for the lines behind the one in hand, and counts the items
  the importer made, by cardinality.
- `CatalogProofs!CatalogImplementsItemTables`: every step is one statement of
  `ItemTables` or invisible.
- `ItemSearchProofs!SearchTypeCorrect`, `SteadyWalksExact`, `WalksByAgeMissNothing`: from
  `SearchInv`. For steady walks it says how many rows have been shown and are held,
  in terms of offset, limit and the number of rows, and, when only one ranking is
  possible, that they are those rows of it; `has_next` then holds exactly when the
  window was full and rows are left. For walks by age it speaks of an item's place
  in the order (the number of items not behind it), which a post leaves alone
  (oldest first) or raises (newest first): an item of the start whose place the walk
  has passed has been shown. That a ranking puts every item at its place is
  `PlaceInRanking`; no ranking has to be constructed.

About the server, for any set of requests, any values of `CONTEXT_TIMEOUT` and any
positive `shutdownTimeout` (`TimeoutAssumption`):

- `ApiServerProofs!ApiServerTypeCorrect`, `CleanExit`, `Drained`:
  `Spec => []ApiServerTypeOK`, `[]CleanExitAnswersAll`, `[]DrainedInTime`, from one
  `IInv`. `Stages` adds that an error in `errCh` means the listener has stopped (else
  `ReturnError` would leave it accepting); `Clean` that no silent connection is left
  either, from which a request could still come after a clean end; `Clocks` and
  `Drain` that what an owed request has left plus what `Shutdown` has waited never
  exceeds what requests are given, so that it is through before `Shutdown` expires; a
  request at its COMMIT or ROLLBACK leaves `owed` when its time is up.
  That step is where `Tick`'s guard, not to pass while an answer is due, is needed.

`ColumnsProofs` has the lemmas about the conversion to a column; `OrderingProofs`
begins with those about `Database`'s operators (what `Version`, `Changed`, `Overwrite`
and the statements return), which the others cite.

Only model-checked: `OnlyStaleCommitsShiftBalance` and `ImplementsExactOrderBook`, whose
sums over lines are recursive; liveness under fairness (`EveryRequestAnswered`,
`SignalEndsServer`, `OnlyCommitHangs`), which is out of the prover's reach.

## Plan

1. *(done)* `Database`, `Ordering`, `OrderBook`, `OrderingRefinement`; the runs and
   theorems above.
2. *(done)* `OrderListing`, `Catalog` and its abstract specification `ItemTables`.
3. *(done)* `ItemSearch`: pages, totals and walks beside the writers.
4. *(done)* `ApiServer` with its theorems.
5. The amounts of `POST` and `PUT` beyond the column, which are answered as sent and
   stored truncated: `AnswerIsStored` leaves them out, and no property states them yet.
6. *(done)* Proofs of every invariant, of `ListingsAdvance`, and of the refinements of
   `OrderBook` and `ItemTables`.
7. Proofs about sums over lines: `OnlyStaleCommitsShiftBalance`, then
   `ImplementsExactOrderBook`.

## Not modelled

JSON and query parsing, CORS, logging, response envelopes (wording and I/O); the
generated API description; panics in handlers (`Do` rolls back and re-panics; no
handler panics on its own); `GET /members/{id}` (one query) and `GET /items/{id}` (two,
between which a PUT may fall; the writers leave such mixes in the tables anyway).

`cmd/migrate` hands its argument to goose, which is external, as are the effects of
a DDL statement that fails half way; the migrations themselves are modelled as the
tables they leave. Other limits of the environment, such as MySQL's number of
connections (`Open` sets none for the pool), show as failing statements.

## Running

    tlc -config ordering_safety.cfg MCOrdering     # and the other .cfg files
    tlapm OrderingProofs.tla                       # and the other *Proofs modules
