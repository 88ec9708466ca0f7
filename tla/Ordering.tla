------------------------------ MODULE Ordering ------------------------------
(***************************************************************************)
(* The ordering context: POST /orders (Module.Place) and                   *)
(* POST /orders/{id}/cancel (Module.Cancel), with the catalog's Reserve    *)
(* and Restore that run inside their transaction.                          *)
(*                                                                         *)
(* A worker serves one request at a time.  Each SQL statement of a handler *)
(* is a step of its own, so the handlers of different workers interleave   *)
(* between any two statements; consecutive SELECTs of a transaction read   *)
(* one snapshot and are one step.  The other contexts write the tables     *)
(* meanwhile: members register, items are created and replaced.            *)
(*                                                                         *)
(* A definition whose name ends in an underscore and a suffix is the one   *)
(* after it with a mistake in it; the runs show which property it breaks.  *)
(***************************************************************************)
EXTENDS Database, Sequences, FiniteSetsExt

CONSTANTS
    Cmds,         \* the bodies clients send to POST /orders
    CatalogRows   \* the [price, stock] pairs clients send to the item endpoints

Line == [item : ItemId, count : Int]
PlaceCommand == [member : MemberId, lines : Seq(Line)]

ASSUME CmdsAssumption == Cmds \subseteq PlaceCommand

\* service.validate refuses negative amounts.
ASSUME CatalogAssumption == CatalogRows \subseteq [price : Nat, stock : Nat]

VARIABLES
    pc,         \* the next statement of each worker's handler
    loc,        \* the handler's local variables
    reply,      \* the answer the handler has and is about to write
    submitted   \* bound: valid orders submitted so far, at most MaxOrder

handlerVars == <<pc, loc, reply, submitted>>
vars == <<db, nextOrder, nextDelivery, tx, pc, loc, reply, submitted>>

\* domain.Item as Reserve and Restore hold it: its stock is a 64-bit int,
\* still to be converted.
Item == [id : ItemId, price : Int32, stock : Int]

ASSUME NullItemAssumption == NULL \notin Item

OrderItem == [item : ItemId, price : Int32, count : Int]

Local ==
    [op    : {"place", "cancel", "none"},
     cmd   : Opt(Cmds),            \* Place: cmd
     id    : OrderId \cup {0},     \* Place: order.ID; Cancel: orderID
     dlv   : DeliveryId \cup {0},  \* Place: delivery.ID
     k     : Nat \ {0},            \* Place: index of the current loop
     it    : Opt(Item),            \* Reserve, Restore: it
     cart  : Seq(OrderItem),       \* Place: orderItems
     todo  : SUBSET LineRow]       \* Cancel: order.OrderItems still to restore

NoLocal ==
    [op |-> "none", cmd |-> NULL, id |-> 0, dlv |-> 0, k |-> 1, it |-> NULL,
     cart |-> << >>, todo |-> {}]

\* The places of a handler inside its transaction, after the first SELECT.
InTx == {"reserve", "reserved", "delivery", "order", "orderItem",
         "restore", "restored", "status", "commit"}
Control == InTx \cup {"idle", "ensure", "load", "respond"}

Reply == {"none",                                        \* none yet
          "created", "no_content",                       \* 201, 204
          "bad_param", "not_found",                      \* 400, 404
          "insufficient_stock", "already_canceled",      \* 409, 409
          "internal"}                                    \* 500

Init ==
    /\ db = EmptyTables
    /\ nextOrder = 1
    /\ nextDelivery = 1
    /\ tx = [w \in Worker |-> NoTx]
    /\ pc = [w \in Worker |-> "idle"]
    /\ loc = [w \in Worker |-> NoLocal]
    /\ reply = [w \in Worker |-> "none"]
    /\ submitted = 0

-----------------------------------------------------------------------------
(* Steps all handlers share *)

Set(w, locals) == loc' = [loc EXCEPT ![w] = locals]
Goto(w, place) == pc' = [pc EXCEPT ![w] = place]

\* TxManager.Do with an error from fn: roll back and answer with the error.
Abort(w, error) ==
    /\ RollbackTx(w)
    /\ reply' = [reply EXCEPT ![w] = error]
    /\ Goto(w, "respond")
    /\ UNCHANGED <<db, nextOrder, nextDelivery, loc, submitted>>

\* repo.UpdateStock with the item as it was read and changed in memory.
UpdateStock(w) ==
    UpdateItemStock(w, loc[w].it.id, ToInt32(loc[w].it.stock))

-----------------------------------------------------------------------------
(* POST /orders *)

\* Place's checks, before any transaction.
Valid(cmd) ==
    /\ cmd.lines # << >>
    /\ \A n \in DOMAIN cmd.lines : cmd.lines[n].count > 0

SubmitPlace(w, cmd) ==
    /\ pc[w] = "idle"
    /\ Set(w, [NoLocal EXCEPT !.op = "place", !.cmd = cmd])
    /\ \/ /\ Valid(cmd)
          /\ submitted < MaxOrder
          /\ submitted' = submitted + 1
          /\ Goto(w, "ensure")
          /\ UNCHANGED reply
       \/ /\ ~Valid(cmd)
          /\ reply' = [reply EXCEPT ![w] = "bad_param"]
          /\ Goto(w, "respond")
          /\ UNCHANGED submitted
    /\ UNCHANGED dbVars

\* members.EnsureExists: the transaction's first SELECT.
EnsureExists(w) ==
    /\ pc[w] = "ensure"
    /\ \/ /\ loc[w].cmd.member \in db.member
          /\ TakeSnapshot(w)
          /\ Goto(w, "reserve")
          /\ UNCHANGED <<db, nextOrder, nextDelivery, loc, reply, submitted>>
       \/ /\ loc[w].cmd.member \notin db.member
          /\ Abort(w, "not_found")

\* Item.RemoveStock's check.
CanRemove_SignOnly(row, qty) == row.stock >= 0
CanRemove(row, qty) == row.stock >= qty

\* Reserve, up to its UPDATE: GetByID and RemoveStock.
Reserve(w) ==
    /\ pc[w] = "reserve"
    /\ LET line == loc[w].cmd.lines[loc[w].k]
           row  == ItemSeen(w, line.item)
       IN  \/ /\ row = NULL
              /\ Abort(w, "not_found")
           \/ /\ row # NULL
              /\ ~CanRemove(row, line.count)
              /\ Abort(w, "insufficient_stock")
           \/ /\ row # NULL
              /\ CanRemove(row, line.count)
              /\ Set(w, [loc[w] EXCEPT !.it = [id    |-> line.item,
                                               price |-> row.price,
                                               stock |-> row.stock - line.count]])
              /\ Goto(w, "reserved")
              /\ UNCHANGED <<db, nextOrder, nextDelivery, tx, reply, submitted>>

\* Reserve's UpdateStock, and the line's OrderItem.
ReserveUpdate(w) ==
    /\ pc[w] = "reserved"
    /\ UpdateStock(w)
    /\ LET cmd == loc[w].cmd
           k   == loc[w].k
           it  == loc[w].it
           last == k = Len(cmd.lines)
       IN  /\ Set(w, [loc[w] EXCEPT
                       !.cart = Append(@, [item  |-> it.id,
                                           price |-> it.price,
                                           count |-> cmd.lines[k].count]),
                       !.it = NULL,
                       !.k = IF last THEN 1 ELSE k + 1])
           /\ Goto(w, IF last THEN "delivery" ELSE "reserve")
    /\ UNCHANGED <<db, nextOrder, nextDelivery, reply, submitted>>

CreateDelivery_IdNotRead(w) ==
    /\ pc[w] = "delivery"
    /\ InsertDelivery(w)
    /\ Goto(w, "order")
    /\ UNCHANGED <<db, nextOrder, loc, reply, submitted>>

CreateDelivery(w) ==
    /\ pc[w] = "delivery"
    /\ InsertDelivery(w)
    /\ Set(w, [loc[w] EXCEPT !.dlv = nextDelivery])
    /\ Goto(w, "order")
    /\ UNCHANGED <<db, nextOrder, reply, submitted>>

\* OrderRepository.Create: the orders row ...
CreateOrder(w) ==
    /\ pc[w] = "order"
    /\ InsertOrder(w, [member   |-> loc[w].cmd.member,
                       delivery |-> loc[w].dlv,
                       status   |-> "ORDER"])
    /\ Set(w, [loc[w] EXCEPT !.id = nextOrder])
    /\ Goto(w, "orderItem")
    /\ UNCHANGED <<db, nextDelivery, reply, submitted>>

\* ... and a row for each of its lines.
LastLine_TooEarly(w) == TRUE
LastLine(w) == loc[w].k = Len(loc[w].cart)

CreateOrderItem(w) ==
    /\ pc[w] = "orderItem"
    /\ LET k  == loc[w].k
           oi == loc[w].cart[k]
       IN  /\ InsertOrderItem(w, [order |-> loc[w].id,
                                  pos   |-> k,
                                  item  |-> oi.item,
                                  price |-> ToInt32(oi.price),
                                  count |-> ToInt32(oi.count)])
           /\ Set(w, [loc[w] EXCEPT !.k = k + 1])
    /\ Goto(w, IF LastLine(w) THEN "commit" ELSE "orderItem")
    /\ UNCHANGED <<db, nextOrder, nextDelivery, reply, submitted>>

-----------------------------------------------------------------------------
(* POST /orders/{id}/cancel *)

\* The id of the path; 0 stands for one that PathID refuses.
SubmitCancel(w, o) ==
    /\ pc[w] = "idle"
    /\ Set(w, [NoLocal EXCEPT !.op = "cancel", !.id = o])
    /\ \/ /\ o # 0
          /\ Goto(w, "load")
          /\ UNCHANGED reply
       \/ /\ o = 0
          /\ reply' = [reply EXCEPT ![w] = "bad_param"]
          /\ Goto(w, "respond")
    /\ UNCHANGED <<db, nextOrder, nextDelivery, tx, submitted>>

\* itemsByOrders: the lines of an order.
LinesOf(o) == {l \in db.orderItem : l.order = o}

\* Order.Cancel's check.
CanCancel(row) == row.status = "ORDER"

\* GetByID, the transaction's first SELECTs, and Order.Cancel.
LoadOrder(w) ==
    /\ pc[w] = "load"
    /\ LET o     == loc[w].id
           row   == db.orders[o]
           lines == LinesOf(o)
       IN  \/ /\ row = NULL
              /\ Abort(w, "not_found")
           \/ /\ row # NULL
              /\ ~CanCancel(row)
              /\ Abort(w, "already_canceled")
           \/ /\ row # NULL
              /\ CanCancel(row)
              /\ TakeSnapshot(w)
              /\ Set(w, [loc[w] EXCEPT !.todo = lines])
              /\ Goto(w, IF lines = {} THEN "status" ELSE "restore")
              /\ UNCHANGED <<db, nextOrder, nextDelivery, reply, submitted>>

\* Item.AddStock.
AddStock_OnCopy(row, qty) == row.stock
AddStock(row, qty) == row.stock + qty

\* Restore, up to its UPDATE.  The lines come in the order MySQL returns
\* them: the query has no ORDER BY.
Restore(w) ==
    /\ pc[w] = "restore"
    /\ \E l \in loc[w].todo :
         LET row == ItemSeen(w, l.item)
         IN  IF row = NULL
             THEN Abort(w, "not_found")
             ELSE /\ Set(w, [loc[w] EXCEPT
                              !.todo = @ \ {l},
                              !.it = [id    |-> l.item,
                                      price |-> row.price,
                                      stock |-> AddStock(row, l.count)]])
                  /\ Goto(w, "restored")
                  /\ UNCHANGED <<db, nextOrder, nextDelivery, tx, reply, submitted>>

\* Restore's UpdateStock.
RestoreUpdate(w) ==
    /\ pc[w] = "restored"
    /\ UpdateStock(w)
    /\ Set(w, [loc[w] EXCEPT !.it = NULL])
    /\ Goto(w, IF loc[w].todo = {} THEN "status" ELSE "restore")
    /\ UNCHANGED <<db, nextOrder, nextDelivery, reply, submitted>>

UpdateStatus(w) ==
    /\ pc[w] = "status"
    /\ UpdateOrderStatus(w, loc[w].id, "CANCEL")
    /\ Goto(w, "commit")
    /\ UNCHANGED <<db, nextOrder, nextDelivery, loc, reply, submitted>>

-----------------------------------------------------------------------------
(* The end of a request *)

Success(w) == IF loc[w].op = "place" THEN "created" ELSE "no_content"

Commit(w) ==
    /\ pc[w] = "commit"
    /\ CommitTx(w)
    /\ reply' = [reply EXCEPT ![w] = Success(w)]
    /\ Goto(w, "respond")
    /\ UNCHANGED <<nextOrder, nextDelivery, loc, submitted>>

\* The COMMIT is executed and its acknowledgement lost: tx.Commit returns an
\* error and Do returns it.
CommitUnacknowledged(w) ==
    /\ pc[w] = "commit"
    /\ CommitTx(w)
    /\ reply' = [reply EXCEPT ![w] = "internal"]
    /\ Goto(w, "respond")
    /\ UNCHANGED <<nextOrder, nextDelivery, loc, submitted>>

StatementFails_CommitErrorDropped(w) ==
    /\ pc[w] \in InTx \cup {"ensure", "load"}
    /\ Abort(w, IF pc[w] = "commit" THEN Success(w) ELSE "internal")

\* The request's deadline passes, a lock wait times out or the connection
\* breaks: the statement fails, Do rolls back, the answer is a 500.
StatementFails(w) ==
    /\ pc[w] \in InTx \cup {"ensure", "load"}
    /\ Abort(w, "internal")

\* The answer is written and the handler returns.  Until then others may
\* change what it says.
Respond(w) ==
    /\ pc[w] = "respond"
    /\ Goto(w, "idle")
    /\ Set(w, NoLocal)
    /\ reply' = [reply EXCEPT ![w] = "none"]
    /\ UNCHANGED <<db, nextOrder, nextDelivery, tx, submitted>>

-----------------------------------------------------------------------------
(* Lock waits *)

\* The row whose lock the worker's next statement takes.
Wanted(w) ==
    CASE pc[w] \in {"reserved", "restored"} -> ItemLock(loc[w].it.id)
      [] pc[w] = "status" -> OrderLock(loc[w].id)
      [] OTHER -> NULL

WaitsFor(w, v) == v # w /\ Wanted(w) \in tx[v].locks

\* A lock has one holder, so these workers form a cycle of waiters.
DeadlockedIn(w, D) ==
    /\ w \in D
    /\ \A v \in D : /\ \E u \in D : WaitsFor(v, u)
                    /\ \E u \in D : WaitsFor(u, v)

\* InnoDB rolls one transaction of the cycle back; nothing retries it.
DeadlockVictim(w) ==
    /\ \E D \in SUBSET Worker : DeadlockedIn(w, D)
    /\ Abort(w, "internal")

-----------------------------------------------------------------------------
(* Everything around the handlers *)

\* The process dies: MySQL rolls back every open transaction, clients not yet
\* answered never are.
Crash ==
    /\ \E w \in Worker : pc[w] # "idle"
    /\ tx' = [w \in Worker |-> NoTx]
    /\ pc' = [w \in Worker |-> "idle"]
    /\ loc' = [w \in Worker |-> NoLocal]
    /\ reply' = [w \in Worker |-> "none"]
    /\ UNCHANGED <<db, nextOrder, nextDelivery, submitted>>

\* POST /members.
Register(m) ==
    /\ m \notin db.member
    /\ InsertMember(m)
    /\ UNCHANGED <<nextOrder, nextDelivery, tx, handlerVars>>

\* POST /items: the item row of repo.Create.
CreateItem(i, r) ==
    /\ db.item[i] = NULL
    /\ InsertItem(i, ToInt32(r.price), ToInt32(r.stock))
    /\ UNCHANGED <<nextOrder, nextDelivery, tx, handlerVars>>

\* PUT /items/{id}: the item row of repo.Update, an absolute price and stock.
ReplaceItem(i, r) ==
    /\ db.item[i] # NULL
    /\ UpdateItem(i, ToInt32(r.price), ToInt32(r.stock))
    /\ UNCHANGED <<nextOrder, nextDelivery, tx, handlerVars>>

CatalogWrites(i) == \E r \in CatalogRows : CreateItem(i, r) \/ ReplaceItem(i, r)

-----------------------------------------------------------------------------

Statement(w) ==
    \/ EnsureExists(w) \/ Reserve(w) \/ ReserveUpdate(w)
    \/ CreateDelivery(w) \/ CreateOrder(w) \/ CreateOrderItem(w)
    \/ LoadOrder(w) \/ Restore(w) \/ RestoreUpdate(w) \/ UpdateStatus(w)
    \/ Commit(w) \/ Respond(w)

Handlers ==
    \E w \in Worker :
      \/ \E cmd \in Cmds : SubmitPlace(w, cmd)
      \/ \E o \in OrderId \cup {0} : SubmitCancel(w, o)
      \/ Statement(w)
      \/ CommitUnacknowledged(w)
      \/ StatementFails(w)
      \/ DeadlockVictim(w)

OtherContexts ==
    \/ \E m \in MemberId : Register(m)
    \/ \E i \in ItemId : CatalogWrites(i)

Next == Handlers \/ OtherContexts \/ Crash

Spec == Init /\ [][Next]_vars

\* A handler goroutine keeps running and MySQL answers: a statement that can
\* run does, and InnoDB hands a lock to its waiters, so one that can run again
\* and again does too.  Deadlocks are detected.  Nothing is assumed of
\* clients, failures, crashes or the other contexts.
Fairness ==
    \A w \in Worker :
      /\ SF_vars(Statement(w))
      /\ WF_vars(DeadlockVictim(w))

FairSpec == Spec /\ Fairness
-----------------------------------------------------------------------------
(* Properties *)

\* Every variable has its type: amounts fit their INT columns, ids point into
\* their tables' ranges, locals are set where the handlers use them.
TypeOK ==
    /\ DatabaseTypeOK
    /\ pc \in [Worker -> Control]
    /\ loc \in [Worker -> Local]
    /\ reply \in [Worker -> Reply]
    /\ submitted \in 0 .. MaxOrder

\* Stock is never negative, whatever interleaves: RemoveStock checks the stock
\* the transaction read, UpdateStock stores a value computed from it.
StockNeverNegative ==
    \A i \in ItemId : db.item[i] # NULL => db.item[i].stock >= 0

\* Order o is what cmd asks for: its member's, with each of its lines and no other.
Fulfils(o, cmd) ==
    /\ db.orders[o].member = cmd.member
    /\ Cardinality(LinesOf(o)) = Len(cmd.lines)
    /\ \A n \in DOMAIN cmd.lines : \E l \in LinesOf(o) :
         l.pos = n /\ l.item = cmd.lines[n].item /\ l.count = cmd.lines[n].count

\* Place is "all in one transaction": no failure, crash, deadlock or lost
\* acknowledgement leaves an order without its delivery or with only some of the
\* lines of the request, nor a delivery or a line without its order.  (Which
\* request it was is known while it lasts: AnswerMatchesDatabase.)
NoPartialOrder ==
    /\ \A o \in OrderId : db.orders[o] # NULL =>
         /\ db.orders[o].delivery \in db.delivery
         /\ \E cmd \in Cmds : Valid(cmd) /\ Fulfils(o, cmd)
    /\ \A l \in db.orderItem : db.orders[l.order] # NULL
    /\ \A d \in db.delivery :
         Cardinality({o \in OrderId : db.orders[o] # NULL /\ db.orders[o].delivery = d}) = 1

\* The order of worker w's request, as its answer shows it, is in the tables.
Recorded(w) ==
    LET l == loc[w] IN
    /\ l.id # 0
    /\ db.orders[l.id] # NULL
    /\ db.orders[l.id].member = l.cmd.member
    /\ db.orders[l.id].delivery = l.dlv
    /\ LinesOf(l.id) = {[order |-> l.id, pos |-> n, item |-> l.cart[n].item,
                         price |-> l.cart[n].price, count |-> l.cart[n].count]
                        : n \in DOMAIN l.cart}
    /\ [n \in DOMAIN l.cart |-> [item |-> l.cart[n].item, count |-> l.cart[n].count]]
         = l.cmd.lines

\* What a client is told is what the database holds, and stays so: after a 201
\* the whole order as answered, after any other answer to Place but a 500 no
\* order; after a 204, or "already canceled", a canceled order.
AnswerMatchesDatabase ==
    \A w \in Worker :
      /\ reply[w] = "created" => Recorded(w)
      /\ (/\ loc[w].op = "place"
          /\ reply[w] \in {"bad_param", "not_found", "insufficient_stock"})
           => loc[w].id = 0
      /\ (loc[w].op = "place" /\ loc[w].id # 0)
           => Recorded(w) \/ db.orders[loc[w].id] = NULL
      /\ reply[w] \in {"no_content", "already_canceled"}
           => db.orders[loc[w].id].status = "CANCEL"

\* The rows two open transactions have locked are disjoint, a version is
\* written under its row's lock, and no request leaves its transaction open,
\* by whichever path it ends: no dirty write, no lock that outlives a request.
NoLeakedTransaction ==
    /\ \A v, w \in Worker : v # w => tx[v].locks \cap tx[w].locks = {}
    /\ \A w \in Worker :
         /\ \A i \in ItemId : tx[w].writes.item[i] # NULL => ItemLock(i) \in tx[w].locks
         /\ \A o \in OrderId : tx[w].writes.orders[o] # NULL => OrderLock(o) \in tx[w].locks
         /\ pc[w] \notin InTx => tx[w] = NoTx

\* The units of item i in orders that are not canceled.
Sold(i) ==
    MapThenSumSet(LAMBDA l : l.count,
                  {l \in db.orderItem : l.item = i /\ db.orders[l.order].status = "ORDER"})

\* Units on the shelf and units sold.
Balance(i) == IF db.item[i] = NULL THEN 0 ELSE db.item[i].stock + Sold(i)

Commits(w) == pc[w] = "commit" /\ db' = Committed(w) /\ tx' = [tx EXCEPT ![w] = NoTx]

\* The stock of item i, or the status of the order w cancels, is no longer
\* what w's snapshot showed.
StaleAbout(w, i) ==
    \/ tx[w].snap.item[i].stock # db.item[i].stock
    \/ /\ loc[w].op = "cancel"
       /\ tx[w].snap.orders[loc[w].id].status # db.orders[loc[w].id].status

\* Reserve and Restore keep stock plus units sold constant, item by item, for
\* orders that repeat an item too.  The one exception is a transaction that
\* commits over a newer stock, or a newer status, than it read: the read and
\* the UPDATE are not one step.  Otherwise only the item endpoints change it.
OnlyStaleCommitsShiftBalance ==
    [][db' # db =>
         \A i \in ItemId : Balance(i)' # Balance(i) =>
           \/ CatalogWrites(i)
           \/ \E w \in Worker : Commits(w) /\ StaleAbout(w, i)]_vars

\* The units of item i the cart of worker w holds.
Ordered(w, i) ==
    LET cart == loc[w].cart
    IN  MapThenSumSet(LAMBDA n : cart[n].count, {n \in DOMAIN cart : cart[n].item = i})

\* "Reserve decrements stock for an ordered item" (service.go): the commit of an
\* order takes what was ordered off the stock it finds.
ReserveDecrementsStock ==
    [][\A w \in Worker : (Commits(w) /\ loc[w].op = "place") =>
         \A i \in ItemId : Ordered(w, i) > 0 =>
           db'.item[i].stock = db.item[i].stock - Ordered(w, i)]_vars

\* "Cancel transitions to CANCEL, or returns ErrAlreadyCanceled" (order.go): an
\* order that is canceled already is not canceled, and its stock not restored,
\* again.
CancelTransitionsOnce ==
    [][\A w \in Worker : (Commits(w) /\ loc[w].op = "cancel") =>
         db.orders[loc[w].id].status = "ORDER"]_vars

\* Every request ends: lock waits, deadlocks and failures all lead to an
\* answer, and free the worker.
EveryRequestAnswered ==
    \A w \in Worker : (pc[w] # "idle") ~> (pc[w] = "idle")
=============================================================================
