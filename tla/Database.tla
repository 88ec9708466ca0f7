------------------------------ MODULE Database ------------------------------
(***************************************************************************)
(* The tables the API keeps in MySQL and the transactions                  *)
(* internal/platform/database.TxManager runs on them.                      *)
(*                                                                         *)
(* TxManager.Do opens a transaction with no options (BeginTx(ctx, nil)),   *)
(* so it runs at InnoDB's default isolation, REPEATABLE READ: its SELECTs  *)
(* read a snapshot taken by the first of them, in which its own writes     *)
(* show; its UPDATEs are current reads that take the row's lock and keep   *)
(* it until the transaction ends.  InnoDB is external to the repository;   *)
(* what is stated of it here is what the repositories rely on.             *)
(*                                                                         *)
(* A definition whose name ends in an underscore and a suffix is the one   *)
(* after it with a mistake in it; the runs show which property it breaks.  *)
(***************************************************************************)
EXTENDS Columns, FiniteSets

CONSTANTS
    Worker,      \* requests in flight: a handler goroutine and its connection
    ItemId,      \* item.id
    MemberId,    \* member.id
    MaxOrder,    \* bound: as many order and delivery ids are ever allocated
    NULL         \* no row, no snapshot, no version

ASSUME MaxOrderAssumption == MaxOrder \in Nat
ASSUME WorkerAssumption == IsFiniteSet(Worker)

OrderId == 1 .. MaxOrder
DeliveryId == 1 .. MaxOrder

ItemRow == [price : Int32, stock : Int32]
OrderStatus == {"ORDER", "CANCEL"}
OrderRow == [member : MemberId, delivery : DeliveryId, status : OrderStatus]

\* order_item.  "pos" stands for the AUTO_INCREMENT id: it keeps two equal
\* lines of an order apart.
LineRow == [order : OrderId, pos : Nat, item : ItemId, price : Int32, count : Int32]

Opt(S) == S \cup {NULL}

Tables ==
    [member    : SUBSET MemberId,
     item      : [ItemId -> Opt(ItemRow)],
     orders    : [OrderId -> Opt(OrderRow)],
     orderItem : SUBSET LineRow,
     delivery  : SUBSET DeliveryId]

\* The row versions a transaction has written and not committed.
Writes ==
    [item      : [ItemId -> Opt(ItemRow)],
     orders    : [OrderId -> Opt(OrderRow)],
     orderItem : SUBSET LineRow,
     delivery  : SUBSET DeliveryId]

\* A row that can be locked.
ItemLock(i) == <<"item", i>>
OrderLock(o) == <<"orders", o>>
Lockable == {ItemLock(i) : i \in ItemId} \cup {OrderLock(o) : o \in OrderId}

Transaction == [snap : Opt(Tables), writes : Writes, locks : SUBSET Lockable]

ASSUME NullAssumption == NULL \notin ItemRow \cup OrderRow \cup Tables

VARIABLES
    db,            \* the committed tables
    nextOrder,     \* AUTO_INCREMENT of orders: not rolled back
    nextDelivery,  \* AUTO_INCREMENT of delivery: not rolled back
    tx             \* the transaction of each request's connection

dbVars == <<db, nextOrder, nextDelivery, tx>>

NoWrites ==
    [item      |-> [i \in ItemId |-> NULL],
     orders    |-> [o \in OrderId |-> NULL],
     orderItem |-> {},
     delivery  |-> {}]

EmptyTables ==
    [member    |-> {},
     item      |-> [i \in ItemId |-> NULL],
     orders    |-> [o \in OrderId |-> NULL],
     orderItem |-> {},
     delivery  |-> {}]

\* A connection outside a transaction; also one whose transaction has begun
\* and has not yet read (BeginTx takes no snapshot).
NoTx == [snap |-> NULL, writes |-> NoWrites, locks |-> {}]

DatabaseTypeOK ==
    /\ db \in Tables
    /\ nextOrder \in Nat \ {0}
    /\ nextDelivery \in Nat \ {0}
    /\ tx \in [Worker -> Transaction]

-----------------------------------------------------------------------------
(* Reads *)

\* The version of a row a transaction works on: its own if it wrote one.
Version(written, row) == IF written = NULL THEN row ELSE written

ItemSeen_OutsideTx(w, i) == db.item[i]

\* SELECT: the snapshot, with the transaction's own versions in it.
ItemSeen(w, i) == Version(tx[w].writes.item[i], tx[w].snap.item[i])

\* What an UPDATE finds: the newest committed row, or its own version.
ItemCurrent(w, i) == Version(tx[w].writes.item[i], db.item[i])
OrderCurrent(w, o) == Version(tx[w].writes.orders[o], db.orders[o])

-----------------------------------------------------------------------------
(* Statements of a transaction *)

\* The first SELECT of the transaction fixes its snapshot.
TakeSnapshot(w) == tx' = [tx EXCEPT ![w].snap = db]

\* No other transaction holds the row's lock.
Free(w, row) == \A v \in Worker \ {w} : row \notin tx[v].locks

\* The transaction's version of a row once an UPDATE has made row into new: an
\* UPDATE that finds no row, or changes nothing, writes no version, so a later
\* SELECT of this transaction still shows the snapshot's row.
Changed(written, row, new) == IF row = NULL \/ new = row THEN written ELSE new

\* UPDATE item SET stock_quantity = qty WHERE id = i: waits for the row's
\* lock and takes it.
UpdateItemStock(w, i, qty) ==
    LET t   == tx[w]
        row == ItemCurrent(w, i)
        new == [row EXCEPT !.stock = qty]
    IN  /\ Free(w, ItemLock(i))
        /\ tx' = [tx EXCEPT ![w] =
                     [t EXCEPT !.locks = @ \cup {ItemLock(i)},
                               !.writes.item[i] = Changed(@, row, new)]]

\* UPDATE orders SET status = s WHERE id = o.
UpdateOrderStatus(w, o, s) ==
    LET t   == tx[w]
        row == OrderCurrent(w, o)
        new == [row EXCEPT !.status = s]
    IN  /\ Free(w, OrderLock(o))
        /\ tx' = [tx EXCEPT ![w] =
                     [t EXCEPT !.locks = @ \cup {OrderLock(o)},
                               !.writes.orders[o] = Changed(@, row, new)]]

InsertDelivery(w) ==
    /\ tx' = [tx EXCEPT ![w].writes.delivery = @ \cup {nextDelivery}]
    /\ nextDelivery' = nextDelivery + 1

\* An inserted row is locked by its transaction.
InsertOrder(w, row) ==
    /\ LET t == tx[w]
       IN  tx' = [tx EXCEPT ![w] =
                     [t EXCEPT !.locks = @ \cup {OrderLock(nextOrder)},
                               !.writes.orders[nextOrder] = row]]
    /\ nextOrder' = nextOrder + 1

InsertOrderItem(w, line) ==
    tx' = [tx EXCEPT ![w].writes.orderItem = @ \cup {line}]

-----------------------------------------------------------------------------
(* Statements on the pool: transactions of their own, committed at once *)

InsertMember(m) == db' = [db EXCEPT !.member = @ \cup {m}]

InsertItem(i, price, stock) ==
    db' = [db EXCEPT !.item[i] = [price |-> price, stock |-> stock]]

\* UPDATE item SET ... WHERE id = i: waits for the row's lock like any other.
UpdateItem(i, price, stock) ==
    /\ \A w \in Worker : ItemLock(i) \notin tx[w].locks
    /\ db' = [db EXCEPT !.item[i] = [price |-> price, stock |-> stock]]

-----------------------------------------------------------------------------
(* The end of a transaction: TxManager.Do's deferred function *)

Overwrite(table, written) ==
    [k \in DOMAIN table |-> Version(written[k], table[k])]

\* The committed tables once transaction w has committed.
Committed(w) ==
    [db EXCEPT
       !.item      = Overwrite(@, tx[w].writes.item),
       !.orders    = Overwrite(@, tx[w].writes.orders),
       !.orderItem = @ \cup tx[w].writes.orderItem,
       !.delivery  = @ \cup tx[w].writes.delivery]

\* tx.Commit(): every write becomes visible at once, every lock is released.
CommitTx(w) ==
    /\ db' = Committed(w)
    /\ tx' = [tx EXCEPT ![w] = NoTx]

RollbackTx_Forgotten(w) == UNCHANGED tx

\* tx.Rollback(), and what MySQL does when a connection or the client dies.
RollbackTx(w) == tx' = [tx EXCEPT ![w] = NoTx]
=============================================================================
