-------------------------- MODULE OrderBookProofs ---------------------------
(* The transactions of Ordering implement the acts of OrderBook.            *)
EXTENDS OrderingRefinement, OrderingAtomicityProofs

-----------------------------------------------------------------------------
(* The inductive invariant behind the refinement: an act touches the items  *)
(* it names and no others, those items exist, and the price a version of an *)
(* item row carries, which its UPDATE does not mention, is the committed    *)
(* one: the row has been locked since the UPDATE read it.                   *)

Prices == {row.price : row \in CatalogItem}

TablesShelfOK(d) ==
    /\ \A i \in ItemId : d.item[i] # NULL => d.item[i].price \in Prices
    /\ \A line \in d.orderItem : d.item[line.item] # NULL
    /\ IsFiniteSet(d.orderItem)

\* Items are never deleted.
ItemsKept(d, e) == \A i \in ItemId : d.item[i] # NULL => e.item[i] # NULL

\* The items the request of a handler with locals l names, over tables d.
Named(l, d) ==
    IF l.op = "place" THEN {l.cmd.lines[n].item : n \in DOMAIN l.cmd.lines}
                      ELSE {line.item : line \in LinesIn(d, l.id)}

\* A handler at p with locals l and transaction t, over tables d.
ShelfOK(p, l, t, d) ==
    /\ t.snap # NULL => TablesShelfOK(t.snap) /\ ItemsKept(t.snap, d)
    /\ \A i \in ItemId : t.writes.item[i] # NULL =>
         /\ i \in Named(l, d)
         /\ d.item[i] # NULL
         /\ t.writes.item[i].price = d.item[i].price
    /\ l.op = "place" => l.cmd \in Cmds
    /\ p \in {"restore", "restored"} => l.todo \subseteq LinesIn(d, l.id)
    /\ p \in {"reserved", "restored"} =>
         /\ l.it.id \in Named(l, d)
         /\ l.it.price \in Prices
         /\ d.item[l.it.id] # NULL
    /\ \A n \in DOMAIN l.cart : l.cart[n].price \in Prices /\ d.item[l.cart[n].item] # NULL

ShelfInv ==
    /\ TablesShelfOK(db)
    /\ \A w \in Worker : ShelfOK(pc[w], loc[w], tx[w], db)

LEMMA ShelfHandler ==
  ASSUME ShelfInv, NEW w \in Worker
  PROVE  ShelfOK(pc[w], loc[w], tx[w], db)
BY DEF ShelfInv

LEMMA NoTxShelf ==
  ASSUME NEW p, NEW l, NEW d, p \notin {"reserved", "restored", "restore"},
         l.op = "place" => l.cmd \in Cmds,
         \A n \in DOMAIN l.cart : l.cart[n].price \in Prices /\ d.item[l.cart[n].item] # NULL
  PROVE  ShelfOK(p, l, NoTx, d)
BY NoTxLocks DEF ShelfOK, NoTx

LEMMA ShelfInit == Init => ShelfInv
<1> SUFFICES ASSUME Init PROVE ShelfInv
  OBVIOUS
<1>1. TablesShelfOK(db)
  BY FS_EmptySet DEF Init, EmptyTables, TablesShelfOK
<1>2. ShelfOK("idle", NoLocal, NoTx, db)
  BY NoTxShelf DEF NoLocal
<1> QED
  BY <1>1, <1>2 DEF Init, ShelfInv

\* A step of one handler that commits nothing.
LEMMA ShelfStep ==
  ASSUME TypeInv, ShelfInv, NEW w \in Worker, NEW p, NEW l, UNCHANGED db,
         pc' = [pc EXCEPT ![w] = p], loc' = [loc EXCEPT ![w] = l],
         \A v \in Worker \ {w} : tx'[v] = tx[v], ShelfOK(p, l, tx'[w], db)
  PROVE  ShelfInv'
<1>1. /\ pc'[w] = p /\ loc'[w] = l
      /\ \A v \in Worker \ {w} : pc'[v] = pc[v] /\ loc'[v] = loc[v]
  BY DEF TypeInv, TypeOK
<1>2. ASSUME NEW v \in Worker PROVE ShelfOK(pc'[v], loc'[v], tx'[v], db)
  <2>1. CASE v = w
    BY <2>1, <1>1
  <2>2. CASE v # w
    <3>1. pc'[v] = pc[v] /\ loc'[v] = loc[v] /\ tx'[v] = tx[v]
      BY <2>2, <1>1
    <3> QED BY <3>1, ShelfHandler
  <2> QED BY <2>1, <2>2
<1> QED
  BY <1>2 DEF ShelfInv

LEMMA ShelfAbort ==
  ASSUME TypeInv, ShelfInv, NEW w \in Worker, NEW e, Abort(w, e)
  PROVE  ShelfInv'
<1>1. /\ pc' = [pc EXCEPT ![w] = "respond"] /\ tx' = [tx EXCEPT ![w] = NoTx]
      /\ db' = db /\ loc' = loc
  BY DEF Abort, Goto, RollbackTx
<1>2. /\ loc' = [loc EXCEPT ![w] = loc[w]] /\ tx'[w] = NoTx
      /\ \A v \in Worker \ {w} : tx'[v] = tx[v]
  BY <1>1 DEF TypeInv, TypeOK, DatabaseTypeOK
<1>3. ShelfOK("respond", loc[w], NoTx, db)
  <2>1. /\ loc[w].op = "place" => loc[w].cmd \in Cmds
        /\ \A n \in DOMAIN loc[w].cart :
             loc[w].cart[n].price \in Prices /\ db.item[loc[w].cart[n].item] # NULL
    BY ShelfHandler DEF ShelfOK
  <2> QED BY <2>1, NoTxShelf
<1> QED
  BY <1>1, <1>2, <1>3, ShelfStep

\* A step that neither reads nor writes an item.
LEMMA ShelfMove ==
  ASSUME TypeInv, ShelfInv, NEW w \in Worker, NEW p, NEW l, NEW u, UNCHANGED db,
         pc' = [pc EXCEPT ![w] = p], loc' = [loc EXCEPT ![w] = l],
         tx' = [tx EXCEPT ![w] = u],
         u.snap = tx[w].snap, u.writes.item = tx[w].writes.item,
         l.op = loc[w].op, l.cmd = loc[w].cmd, l.cart = loc[w].cart,
         l.op # "place" => l.id = loc[w].id,
         p \notin {"reserved", "restored", "restore"}
  PROVE  ShelfInv'
<1>1. tx'[w] = u /\ \A v \in Worker \ {w} : tx'[v] = tx[v]
  BY DEF TypeInv, TypeOK, DatabaseTypeOK
<1>2. Named(l, db) = Named(loc[w], db)
  BY DEF Named
<1>3. ShelfOK(p, l, u, db)
  BY <1>2, ShelfHandler DEF ShelfOK
<1> QED
  BY <1>1, <1>3, ShelfStep

\* A new request, or the end of one.
LEMMA ShelfFresh ==
  ASSUME TypeInv, LockInv, ShelfInv, NEW w \in Worker,
         NEW p \in {"idle", "ensure", "load", "respond"}, NEW l, pc[w] \notin InTx,
         pc' = [pc EXCEPT ![w] = p], loc' = [loc EXCEPT ![w] = l], UNCHANGED <<db, tx>>,
         l.op = "place" => l.cmd \in Cmds, l.cart = << >>
  PROVE  ShelfInv'
<1>1. tx'[w] = NoTx /\ \A v \in Worker \ {w} : tx'[v] = tx[v]
  BY DEF LockInv, NoLeakedTransaction
<1>2. ShelfOK(p, l, NoTx, db)
  BY NoTxShelf
<1> QED
  BY <1>1, <1>2, ShelfStep

LEMMA ShelfSubmitPlace ==
  ASSUME TypeInv, LockInv, ShelfInv, NEW w \in Worker, NEW cmd \in Cmds, SubmitPlace(w, cmd)
  PROVE  ShelfInv'
<1> DEFINE l == [NoLocal EXCEPT !.op = "place", !.cmd = cmd]
<1>1. PICK p \in {"ensure", "respond"} : pc' = [pc EXCEPT ![w] = p]
  BY DEF SubmitPlace, Goto
<1>2. pc[w] \notin InTx /\ loc' = [loc EXCEPT ![w] = l] /\ UNCHANGED <<db, tx>>
  BY DEF SubmitPlace, Set, dbVars, InTx
<1>3. l.cmd = cmd /\ l.cart = << >>
  BY DEF NoLocal
<1> HIDE DEF l
<1> QED
  BY <1>1, <1>2, <1>3, ShelfFresh

LEMMA ShelfSubmitCancel ==
  ASSUME TypeInv, LockInv, ShelfInv, NEW w \in Worker, NEW o \in OrderId \cup {0},
         SubmitCancel(w, o)
  PROVE  ShelfInv'
<1> DEFINE l == [NoLocal EXCEPT !.op = "cancel", !.id = o]
<1>1. /\ pc[w] \notin InTx
      /\ pc' = [pc EXCEPT ![w] = IF o = 0 THEN "respond" ELSE "load"]
      /\ loc' = [loc EXCEPT ![w] = l] /\ UNCHANGED <<db, tx>>
  BY DEF SubmitCancel, Set, Goto, InTx
<1>2. l.op = "cancel" /\ l.cart = << >>
  BY DEF NoLocal
<1> HIDE DEF l
<1> QED
  BY <1>1, <1>2, ShelfFresh

LEMMA ShelfRespond ==
  ASSUME TypeInv, LockInv, ShelfInv, NEW w \in Worker, Respond(w)
  PROVE  ShelfInv'
<1>1. /\ pc[w] \notin InTx /\ pc' = [pc EXCEPT ![w] = "idle"]
      /\ loc' = [loc EXCEPT ![w] = NoLocal] /\ UNCHANGED <<db, tx>>
  BY DEF Respond, Set, Goto, InTx
<1>2. NoLocal.op # "place" /\ NoLocal.cart = << >>
  BY DEF NoLocal
<1> QED
  BY <1>1, <1>2, ShelfFresh

LEMMA ShelfCrash ==
  ASSUME ShelfInv, Crash
  PROVE  ShelfInv'
<1>1. ShelfOK("idle", NoLocal, NoTx, db)
  BY NoTxShelf DEF NoLocal
<1>2. \A w \in Worker : pc'[w] = "idle" /\ loc'[w] = NoLocal /\ tx'[w] = NoTx
  BY DEF Crash
<1>3. UNCHANGED db
  BY DEF Crash
<1> QED
  BY <1>1, <1>2, <1>3 DEF ShelfInv

\* The transaction's first SELECT, of a handler that has no item in its hands.
LEMMA ShelfEnsureExists ==
  ASSUME TypeInv, ShelfInv, NEW w \in Worker, EnsureExists(w)
  PROVE  ShelfInv'
<1>1. CASE Abort(w, "not_found")
  BY <1>1, ShelfAbort
<1>2. CASE ~Abort(w, "not_found")
  <2>1. /\ TakeSnapshot(w) /\ pc' = [pc EXCEPT ![w] = "reserve"] /\ UNCHANGED <<db, loc>>
    BY <1>2 DEF EnsureExists, Goto
  <2>2. /\ tx'[w].snap = db /\ tx'[w].writes = tx[w].writes
        /\ \A v \in Worker \ {w} : tx'[v] = tx[v]
        /\ loc' = [loc EXCEPT ![w] = loc[w]]
    BY <2>1 DEF TakeSnapshot, TypeInv, TypeOK, DatabaseTypeOK, Transaction
  <2>3. TablesShelfOK(db) /\ ItemsKept(db, db)
    BY DEF ShelfInv, ItemsKept
  <2>4. ShelfOK("reserve", loc[w], tx'[w], db)
    BY <2>2, <2>3, ShelfHandler DEF ShelfOK
  <2> QED
    BY <2>1, <2>2, <2>4, ShelfStep
<1> QED
  BY <1>1, <1>2

LEMMA ShelfLoadOrder ==
  ASSUME TypeInv, HandlersInv, ShelfInv, NEW w \in Worker, LoadOrder(w)
  PROVE  ShelfInv'
<1> DEFINE lines == LinesOf(loc[w].id)
           l     == [loc[w] EXCEPT !.todo = lines]
           p     == IF lines = {} THEN "status" ELSE "restore"
<1>1. CASE Abort(w, "not_found") \/ Abort(w, "already_canceled")
  BY <1>1, ShelfAbort
<1>2. CASE ~(Abort(w, "not_found") \/ Abort(w, "already_canceled"))
  <2>1. /\ TakeSnapshot(w) /\ loc' = [loc EXCEPT ![w] = l]
        /\ pc' = [pc EXCEPT ![w] = p] /\ UNCHANGED db
    BY <1>2 DEF LoadOrder, Set, Goto
  <2>2. /\ tx'[w].snap = db /\ tx'[w].writes = tx[w].writes
        /\ \A v \in Worker \ {w} : tx'[v] = tx[v]
    BY <2>1 DEF TakeSnapshot, TypeInv, TypeOK, DatabaseTypeOK, Transaction
  <2>3. TablesShelfOK(db) /\ ItemsKept(db, db)
    BY DEF ShelfInv, ItemsKept
  <2>4. p \in {"status", "restore"} /\ lines = LinesIn(db, loc[w].id)
    BY DEF LinesOf, LinesIn
  <2> HIDE DEF lines, p
  <2>5. /\ l.op = loc[w].op /\ l.cmd = loc[w].cmd /\ l.cart = loc[w].cart
        /\ l.id = loc[w].id /\ l.todo = lines
    BY DEF TypeInv, TypeOK, Local
  <2> HIDE DEF l
  <2>6. Named(l, db) = Named(loc[w], db)
    BY <2>5 DEF Named
  <2>7. ShelfOK(p, l, tx'[w], db)
    BY <2>2, <2>3, <2>4, <2>5, <2>6, ShelfHandler DEF ShelfOK
  <2> QED
    BY <2>1, <2>2, <2>7, ShelfStep
<1> QED
  BY <1>1, <1>2

\* A SELECT of an item sees one that still exists, at a price it once had.
LEMMA ShelfSeen ==
  ASSUME TypeInv, ShelfInv, NEW w \in Worker, NEW i \in ItemId, pc[w] \in InTx,
         ItemSeen(w, i) # NULL
  PROVE  ItemSeen(w, i).price \in Prices /\ db.item[i] # NULL
<1>1. tx[w].snap # NULL
  BY NullAssumption DEF TypeInv, LocalsOK
<1>2. ShelfOK(pc[w], loc[w], tx[w], db) /\ TablesShelfOK(db)
  BY DEF ShelfInv
<1>3. CASE tx[w].writes.item[i] # NULL
  BY <1>2, <1>3 DEF ItemSeen, Version, ShelfOK, TablesShelfOK
<1>4. CASE tx[w].writes.item[i] = NULL
  <2>1. ItemSeen(w, i) = tx[w].snap.item[i]
    BY <1>4 DEF ItemSeen, Version
  <2> QED BY <1>1, <1>2, <2>1 DEF ShelfOK, TablesShelfOK, ItemsKept
<1> QED
  BY <1>3, <1>4

LEMMA ShelfReserve ==
  ASSUME TypeInv, HandlersInv, ShelfInv, NEW w \in Worker, Reserve(w)
  PROVE  ShelfInv'
<1> DEFINE line == loc[w].cmd.lines[loc[w].k]
           row  == ItemSeen(w, line.item)
           it   == [id |-> line.item, price |-> row.price, stock |-> row.stock - line.count]
           l    == [loc[w] EXCEPT !.it = it]
<1>1. CASE Abort(w, "not_found") \/ Abort(w, "insufficient_stock")
  BY <1>1, ShelfAbort
<1>2. CASE ~(Abort(w, "not_found") \/ Abort(w, "insufficient_stock"))
  <2>1. /\ pc[w] = "reserve" /\ pc' = [pc EXCEPT ![w] = "reserved"]
        /\ row # NULL /\ loc' = [loc EXCEPT ![w] = l] /\ UNCHANGED <<db, tx>>
    BY <1>2 DEF Reserve, Goto, Set
  <2>2. LocalsOK("reserve", loc[w], tx[w]) /\ loc[w] \in Local /\ loc[w].op = "place"
    BY <2>1 DEF TypeInv, TypeOK, HandlersInv, HandlerOK, Placing, BeforeOrder
  <2>3. line \in Line /\ loc[w].k \in DOMAIN loc[w].cmd.lines
    BY <2>2 DEF LocalsOK, BeforeOrder, PlaceCommand
  <2>4. row.price \in Prices /\ db.item[line.item] # NULL
    BY <2>1, <2>3, ShelfSeen DEF Line, InTx
  <2>5. it.id = line.item /\ it.price = row.price
    OBVIOUS
  <2> HIDE DEF it
  <2>6. /\ l.it = it /\ l.op = "place" /\ l.cmd = loc[w].cmd /\ l.cart = loc[w].cart
    BY <2>2 DEF Local
  <2> HIDE DEF l
  <2>7. Named(l, db) = Named(loc[w], db) /\ line.item \in Named(l, db)
    BY <2>2, <2>3, <2>6 DEF Named
  <2>8. ShelfOK("reserved", l, tx[w], db)
    BY <2>2, <2>4, <2>5, <2>6, <2>7, ShelfHandler DEF ShelfOK
  <2> QED
    BY <2>1, <2>8, ShelfStep
<1> QED
  BY <1>1, <1>2

LEMMA ShelfRestore ==
  ASSUME TypeInv, HandlersInv, ShelfInv, NEW w \in Worker, Restore(w)
  PROVE  ShelfInv'
<1>1. CASE Abort(w, "not_found")
  BY <1>1, ShelfAbort
<1>2. CASE ~Abort(w, "not_found")
  <2>1. PICK line \in loc[w].todo : ItemSeen(w, line.item) # NULL /\
          LET row == ItemSeen(w, line.item)
          IN  Set(w, [loc[w] EXCEPT !.todo = @ \ {line},
                                    !.it = [id    |-> line.item,
                                            price |-> row.price,
                                            stock |-> AddStock(row, line.count)]])
    BY <1>2 DEF Restore
  <2> DEFINE row == ItemSeen(w, line.item)
             it  == [id |-> line.item, price |-> row.price, stock |-> AddStock(row, line.count)]
             l   == [loc[w] EXCEPT !.todo = @ \ {line}, !.it = it]
  <2>2. /\ pc[w] = "restore" /\ pc' = [pc EXCEPT ![w] = "restored"]
        /\ row # NULL /\ loc' = [loc EXCEPT ![w] = l] /\ UNCHANGED <<db, tx>>
    BY <1>2, <2>1 DEF Restore, Goto, Set
  <2>3. /\ loc[w] \in Local /\ ShelfOK("restore", loc[w], tx[w], db)
        /\ loc[w].op = "cancel"
    BY <2>2, ShelfHandler DEF TypeInv, TypeOK, HandlersInv, HandlerOK, Canceling
  <2>4. line \in LineRow /\ line \in LinesIn(db, loc[w].id)
    BY <2>3 DEF Local, ShelfOK
  <2>5. row.price \in Prices /\ db.item[line.item] # NULL
    BY <2>2, <2>4, ShelfSeen DEF LineRow, InTx
  <2>6. it.id = line.item /\ it.price = row.price
    OBVIOUS
  <2> HIDE DEF it
  <2>7. /\ l.it = it /\ l.todo \subseteq loc[w].todo /\ l.cart = loc[w].cart
        /\ l.op = "cancel" /\ l.id = loc[w].id /\ l.cmd = loc[w].cmd
    BY <2>3 DEF Local
  <2> HIDE DEF l
  <2>8. Named(l, db) = Named(loc[w], db) /\ line.item \in Named(l, db)
    BY <2>3, <2>4, <2>7 DEF Named
  <2>9. ShelfOK("restored", l, tx[w], db)
    BY <2>3, <2>5, <2>6, <2>7, <2>8 DEF ShelfOK
  <2> QED
    BY <2>2, <2>9, ShelfStep
<1> QED
  BY <1>1, <1>2

\* UpdateStock writes a version of a named item's newest row, price and all.
LEMMA ShelfUpdate ==
  ASSUME TypeInv, ShelfInv, NEW w \in Worker,
         pc[w] \in {"reserved", "restored"}, UpdateStock(w)
  PROVE  /\ tx'[w].snap = tx[w].snap
         /\ \A j \in ItemId : tx'[w].writes.item[j] # NULL =>
              /\ j \in Named(loc[w], db)
              /\ db.item[j] # NULL
              /\ tx'[w].writes.item[j].price = db.item[j].price
         /\ \A v \in Worker \ {w} : tx'[v] = tx[v]
<1> DEFINE i   == loc[w].it.id
           qty == ToInt32(loc[w].it.stock)
           t   == tx[w]
           row == ItemCurrent(w, i)
           new == Changed(t.writes.item[i], row, [row EXCEPT !.stock = qty])
           u   == [t EXCEPT !.locks = @ \cup {ItemLock(i)}, !.writes.item[i] = new]
<1>1. tx' = [tx EXCEPT ![w] = u]
  BY DEF UpdateStock, UpdateItemStock
<1>2. i \in ItemId /\ t \in Transaction /\ db \in Tables
  BY DEF TypeInv, TypeOK, DatabaseTypeOK, LocalsOK, Item
<1>3. ShelfOK(pc[w], loc[w], t, db)
  BY ShelfHandler
<1>4. row \in Opt(ItemRow) /\ (row # NULL => row.price = db.item[i].price)
  BY <1>2, <1>3 DEF ItemCurrent, Version, Transaction, Writes, Tables, ShelfOK
<1>5. new # NULL => new.price = db.item[i].price
  <2>1. CASE new = t.writes.item[i]
    BY <2>1, <1>2, <1>3 DEF ShelfOK
  <2>2. CASE new # t.writes.item[i]
    <3>1. new = [row EXCEPT !.stock = qty] /\ row \in ItemRow /\ row # NULL
      BY <2>2, <1>4 DEF Changed, Opt
    <3> QED BY <3>1, <1>4 DEF ItemRow
  <2> QED BY <2>1, <2>2
<1>6. i \in Named(loc[w], db) /\ db.item[i] # NULL
  BY <1>3 DEF ShelfOK
<1> HIDE DEF new, row, i
<1>7. /\ u.snap = t.snap /\ u.writes.item[i] = new
      /\ \A j \in ItemId \ {i} : u.writes.item[j] = t.writes.item[j]
  BY <1>2 DEF Transaction, Writes
<1>8. tx'[w] = u /\ \A v \in Worker \ {w} : tx'[v] = tx[v]
  BY <1>1 DEF TypeInv, TypeOK, DatabaseTypeOK
<1> HIDE DEF u
<1> QED
  BY <1>3, <1>5, <1>6, <1>7, <1>8 DEF ShelfOK

LEMMA ShelfReserveUpdate ==
  ASSUME TypeInv, ShelfInv, NEW w \in Worker, ReserveUpdate(w)
  PROVE  ShelfInv'
<1> DEFINE cmd  == loc[w].cmd
           k    == loc[w].k
           it   == loc[w].it
           oi   == [item |-> it.id, price |-> it.price, count |-> cmd.lines[k].count]
           cart == Append(loc[w].cart, oi)
           n    == IF k = Len(cmd.lines) THEN 1 ELSE k + 1
           l    == [loc[w] EXCEPT !.cart = cart, !.it = NULL, !.k = n]
           p    == IF k = Len(cmd.lines) THEN "delivery" ELSE "reserve"
<1>1. /\ pc[w] = "reserved" /\ UpdateStock(w)
      /\ loc' = [loc EXCEPT ![w] = l] /\ pc' = [pc EXCEPT ![w] = p]
      /\ UNCHANGED db
  BY DEF ReserveUpdate, Set, Goto
<1>2. loc[w] \in Local /\ ShelfOK("reserved", loc[w], tx[w], db)
  BY <1>1, ShelfHandler DEF TypeInv, TypeOK
<1>3. oi.price \in Prices /\ db.item[oi.item] # NULL
  BY <1>2 DEF ShelfOK
<1> HIDE DEF oi
<1>4. \A m \in DOMAIN cart : cart[m].price \in Prices /\ db.item[cart[m].item] # NULL
  <2>1. loc[w].cart \in Seq(OrderItem)
    BY <1>2 DEF Local
  <2>2. TAKE m \in DOMAIN cart
  <2>3. CASE m \in DOMAIN loc[w].cart
    <3>1. cart[m] = loc[w].cart[m]
      BY <2>1, <2>3
    <3> QED BY <3>1, <2>3, <1>2 DEF ShelfOK
  <2>4. CASE m \notin DOMAIN loc[w].cart
    <3>1. cart[m] = oi
      BY <2>1, <2>2, <2>4
    <3> QED BY <3>1, <1>3
  <2> QED BY <2>3, <2>4
<1> HIDE DEF cart, n
<1>5. l.cart = cart /\ l.cmd = cmd /\ l.op = loc[w].op /\ l.id = loc[w].id
  BY <1>2 DEF Local
<1> HIDE DEF l
<1>6. p \in {"delivery", "reserve"}
  OBVIOUS
<1> HIDE DEF p
<1>7. Named(l, db) = Named(loc[w], db)
  BY <1>5 DEF Named
<1>8. /\ tx'[w].snap = tx[w].snap
      /\ \A j \in ItemId : tx'[w].writes.item[j] # NULL =>
           /\ j \in Named(loc[w], db)
           /\ db.item[j] # NULL
           /\ tx'[w].writes.item[j].price = db.item[j].price
      /\ \A v \in Worker \ {w} : tx'[v] = tx[v]
  BY <1>1, ShelfUpdate
<1>9. ShelfOK(p, l, tx'[w], db)
  BY <1>2, <1>4, <1>5, <1>6, <1>7, <1>8 DEF ShelfOK
<1> QED
  BY <1>1, <1>8, <1>9, ShelfStep

LEMMA ShelfRestoreUpdate ==
  ASSUME TypeInv, ShelfInv, NEW w \in Worker, RestoreUpdate(w)
  PROVE  ShelfInv'
<1> DEFINE l == [loc[w] EXCEPT !.it = NULL]
           p == IF loc[w].todo = {} THEN "status" ELSE "restore"
<1>1. /\ pc[w] = "restored" /\ UpdateStock(w) /\ loc' = [loc EXCEPT ![w] = l]
      /\ pc' = [pc EXCEPT ![w] = p] /\ UNCHANGED db
  BY DEF RestoreUpdate, Set, Goto
<1>2. /\ tx'[w].snap = tx[w].snap
      /\ \A j \in ItemId : tx'[w].writes.item[j] # NULL =>
           /\ j \in Named(loc[w], db)
           /\ db.item[j] # NULL
           /\ tx'[w].writes.item[j].price = db.item[j].price
      /\ \A v \in Worker \ {w} : tx'[v] = tx[v]
  BY <1>1, ShelfUpdate
<1>3. /\ l.cart = loc[w].cart /\ l.cmd = loc[w].cmd /\ l.op = loc[w].op
      /\ l.id = loc[w].id /\ l.todo = loc[w].todo
  BY DEF TypeInv, TypeOK, Local
<1>4. p \in {"status", "restore"}
  OBVIOUS
<1> HIDE DEF l, p
<1>5. Named(l, db) = Named(loc[w], db)
  BY <1>3 DEF Named
<1>6. ShelfOK("restored", loc[w], tx[w], db)
  BY <1>1, ShelfHandler
<1>7. ShelfOK(p, l, tx'[w], db)
  BY <1>2, <1>3, <1>4, <1>5, <1>6 DEF ShelfOK
<1> QED
  BY <1>1, <1>2, <1>7, ShelfStep

\* The INSERTs of Place and the UPDATE of a status write no item.
LEMMA ShelfCreateDelivery ==
  ASSUME TypeInv, ShelfInv, NEW w \in Worker, CreateDelivery(w)
  PROVE  ShelfInv'
<1> DEFINE l == [loc[w] EXCEPT !.dlv = nextDelivery]
           d == tx[w].writes.delivery \cup {nextDelivery}
           u == [tx[w] EXCEPT !.writes.delivery = d]
<1>1. /\ pc' = [pc EXCEPT ![w] = "order"] /\ loc' = [loc EXCEPT ![w] = l]
      /\ tx' = [tx EXCEPT ![w] = u] /\ UNCHANGED db
  BY DEF CreateDelivery, InsertDelivery, Set, Goto, TypeInv, TypeOK, DatabaseTypeOK, Transaction
<1> HIDE DEF d
<1>2. u.snap = tx[w].snap /\ u.writes.item = tx[w].writes.item
  BY DEF TypeInv, TypeOK, DatabaseTypeOK, Transaction, Writes
<1>3. l.cart = loc[w].cart /\ l.id = loc[w].id /\ l.op = loc[w].op /\ l.cmd = loc[w].cmd
  BY DEF TypeInv, TypeOK, Local
<1> HIDE DEF l, u
<1> QED
  BY <1>1, <1>2, <1>3, ShelfMove

LEMMA ShelfCreateOrder ==
  ASSUME TypeInv, HandlersInv, ShelfInv, NEW w \in Worker, CreateOrder(w)
  PROVE  ShelfInv'
<1> DEFINE l == [loc[w] EXCEPT !.id = nextOrder]
<1>1. PICK row : InsertOrder(w, row)
  BY DEF CreateOrder
<1> DEFINE t == tx[w]
           u == [t EXCEPT !.locks = @ \cup {OrderLock(nextOrder)}, !.writes.orders[nextOrder] = row]
<1>2. /\ pc[w] = "order" /\ pc' = [pc EXCEPT ![w] = "orderItem"]
      /\ loc' = [loc EXCEPT ![w] = l] /\ UNCHANGED db
  BY DEF CreateOrder, Set, Goto
<1>3. tx' = [tx EXCEPT ![w] = u]
  BY <1>1 DEF InsertOrder
<1>4. t \in Transaction
  BY DEF TypeInv, TypeOK, DatabaseTypeOK
<1>5. u.snap = t.snap /\ u.writes.item = t.writes.item
  BY <1>4 DEF Transaction, Writes
<1>6. l.cart = loc[w].cart /\ l.op = loc[w].op /\ l.cmd = loc[w].cmd /\ loc[w].op = "place"
  BY <1>2 DEF TypeInv, TypeOK, Local, HandlersInv, HandlerOK, Placing, BeforeOrder
<1> HIDE DEF l, u
<1> QED
  BY <1>2, <1>3, <1>5, <1>6, ShelfMove

LEMMA ShelfCreateOrderItem ==
  ASSUME TypeInv, ShelfInv, NEW w \in Worker, CreateOrderItem(w)
  PROVE  ShelfInv'
<1> DEFINE l == [loc[w] EXCEPT !.k = loc[w].k + 1]
           p == IF LastLine(w) THEN "commit" ELSE "orderItem"
<1>1. PICK line : InsertOrderItem(w, line)
  BY DEF CreateOrderItem
<1> DEFINE s == tx[w].writes.orderItem \cup {line}
           u == [tx[w] EXCEPT !.writes.orderItem = s]
<1>2. loc' = [loc EXCEPT ![w] = l] /\ pc' = [pc EXCEPT ![w] = p] /\ UNCHANGED db
  BY DEF CreateOrderItem, Set, Goto
<1>3. tx' = [tx EXCEPT ![w] = u]
  BY <1>1 DEF InsertOrderItem, TypeInv, TypeOK, DatabaseTypeOK, Transaction
<1> HIDE DEF s
<1>4. u.snap = tx[w].snap /\ u.writes.item = tx[w].writes.item
  BY DEF TypeInv, TypeOK, DatabaseTypeOK, Transaction, Writes
<1>5. l.cart = loc[w].cart /\ l.id = loc[w].id /\ l.op = loc[w].op /\ l.cmd = loc[w].cmd
  BY DEF TypeInv, TypeOK, Local
<1>6. p \notin {"reserved", "restored", "restore"}
  OBVIOUS
<1> HIDE DEF l, u, p
<1> QED
  BY <1>2, <1>3, <1>4, <1>5, <1>6, ShelfMove

LEMMA ShelfUpdateStatus ==
  ASSUME TypeInv, ShelfInv, NEW w \in Worker, UpdateStatus(w)
  PROVE  ShelfInv'
<1> DEFINE o   == loc[w].id
           t   == tx[w]
           row == OrderCurrent(w, o)
           new == Changed(t.writes.orders[o], row, [row EXCEPT !.status = "CANCEL"])
           u   == [t EXCEPT !.locks = @ \cup {OrderLock(o)}, !.writes.orders[o] = new]
<1>1. /\ tx' = [tx EXCEPT ![w] = u] /\ pc' = [pc EXCEPT ![w] = "commit"]
      /\ UNCHANGED <<db, loc>>
  BY DEF UpdateStatus, UpdateOrderStatus, Goto
<1>2. t \in Transaction
  BY DEF TypeInv, TypeOK, DatabaseTypeOK
<1> HIDE DEF new, row
<1>3. u.snap = t.snap /\ u.writes.item = t.writes.item
  BY <1>2 DEF Transaction, Writes
<1>4. loc' = [loc EXCEPT ![w] = loc[w]]
  BY <1>1 DEF TypeInv, TypeOK
<1> HIDE DEF u
<1> QED
  BY <1>1, <1>3, <1>4, ShelfMove

\* What a handler relies on outlives a change of the tables to e that keeps
\* items, orders and the rows the handler's transaction has written.
LEMMA ShelfTables ==
  ASSUME TypeInv, LockInv, HandlersInv, AtomInv, ShelfInv, NEW w \in Worker, NEW e,
         ItemsKept(db, e), OrdersKept(db, e),
         \A i \in ItemId : tx[w].writes.item[i] # NULL => e.item[i] = db.item[i]
  PROVE  ShelfOK(pc[w], loc[w], tx[w], e)
<1> DEFINE p == pc[w]
           l == loc[w]
           t == tx[w]
<1>1. /\ ShelfOK(p, l, t, db) /\ l \in Local /\ LocalsOK(p, l, t) /\ HandlerOK(p, l, reply[w])
      /\ HandlerLocksOK(p, l, t, nextOrder)
  BY ShelfHandler, LockHandler DEF TypeInv, TypeOK, HandlersInv
<1>2. CASE p \notin InTx
  <2>1. t = NoTx /\ p \notin {"reserved", "restored", "restore"}
    BY <1>1, <1>2 DEF HandlerLocksOK, InTx
  <2>2. l.op = "place" => l.cmd \in Cmds
    BY <1>1 DEF ShelfOK
  <2>3. \A n \in DOMAIN l.cart : l.cart[n].price \in Prices /\ e.item[l.cart[n].item] # NULL
    <3>1. TAKE n \in DOMAIN l.cart
    <3>2. l.cart[n] \in OrderItem
      BY <1>1 DEF Local
    <3> QED BY <3>2, <1>1 DEF ShelfOK, ItemsKept, OrderItem
  <2> QED BY <2>1, <2>2, <2>3, NoTxShelf
<1>3. CASE p \in InTx
  <2>1. l.op # "place" => LinesIn(e, l.id) = LinesIn(db, l.id)
    <3> SUFFICES ASSUME l.op # "place" PROVE LinesIn(e, l.id) = LinesIn(db, l.id)
      OBVIOUS
    <3>1. l.op = "cancel" /\ p \in {"restore", "restored", "status", "commit"}
      BY <1>1, <1>3 DEF HandlerOK, InTx, Placing, BeforeOrder, Canceling
    <3>2. l.id \in OrderId /\ db.orders[l.id] # NULL
      BY <1>1, <3>1, AtomHandler DEF HandlerOK, CancelOK
    <3> QED BY <3>2 DEF OrdersKept
  <2>2. Named(l, e) = Named(l, db)
    BY <2>1 DEF Named
  <2>3. t.snap # NULL => ItemsKept(t.snap, e)
    BY <1>1 DEF ShelfOK, ItemsKept
  <2>4. p \in {"restore", "restored"} => l.todo \subseteq LinesIn(e, l.id)
    <3>1. p \in {"restore", "restored"} => l.op # "place"
      BY <1>1 DEF HandlerOK, Canceling
    <3> QED BY <3>1, <2>1, <1>1 DEF ShelfOK
  <2>5. p \in {"reserved", "restored"} => e.item[l.it.id] # NULL
    BY <1>1 DEF ShelfOK, ItemsKept, LocalsOK, Item
  <2>6. \A n \in DOMAIN l.cart : l.cart[n].price \in Prices /\ e.item[l.cart[n].item] # NULL
    <3>1. TAKE n \in DOMAIN l.cart
    <3>2. l.cart[n] \in OrderItem
      BY <1>1 DEF Local
    <3> QED BY <3>2, <1>1 DEF ShelfOK, ItemsKept, OrderItem
  <2> QED BY <1>1, <2>2, <2>3, <2>4, <2>5, <2>6 DEF ShelfOK
<1> QED
  BY <1>2, <1>3

\* What a COMMIT does to the shelf: rows the transaction wrote, at their price.
LEMMA CommittedShelf ==
  ASSUME TypeInv, ShelfInv, NEW w \in Worker
  PROVE  /\ DOMAIN Committed(w).item = ItemId
         /\ ItemsKept(db, Committed(w))
         /\ \A i \in ItemId :
              /\ Committed(w).item[i] = Version(tx[w].writes.item[i], db.item[i])
              /\ Committed(w).item[i] # NULL =>
                   /\ Committed(w).item[i] \in ItemRow
                   /\ db.item[i] # NULL
                   /\ Committed(w).item[i].price = db.item[i].price
<1>1. db \in Tables /\ tx[w].writes \in Writes
  BY DEF TypeInv, TypeOK, DatabaseTypeOK, Transaction
<1>2. /\ DOMAIN Committed(w).item = ItemId
      /\ \A i \in ItemId : Committed(w).item[i] = Version(tx[w].writes.item[i], db.item[i])
  BY <1>1 DEF Committed, Overwrite, Tables
<1>3. \A i \in ItemId : tx[w].writes.item[i] \in Opt(ItemRow) /\ db.item[i] \in Opt(ItemRow)
  BY <1>1 DEF Tables, Writes
<1>4. ShelfOK(pc[w], loc[w], tx[w], db)
  BY ShelfHandler
<1> QED
  BY <1>2, <1>3, <1>4 DEF Version, ShelfOK, ItemsKept, Opt

LEMMA CommittedLines ==
  ASSUME TypeInv, HandlersInv, AtomInv, ShelfInv, NEW w \in Worker, pc[w] = "commit"
  PROVE  /\ \A line \in Committed(w).orderItem : db.item[line.item] # NULL
         /\ IsFiniteSet(Committed(w).orderItem)
<1>1. loc[w].op \in {"place", "cancel"} /\ loc[w] \in Local
  BY DEF HandlersInv, HandlerOK, TypeInv, TypeOK
<1>2. TablesShelfOK(db)
  BY DEF ShelfInv
<1>3. CASE loc[w].op = "place"
  <2> DEFINE rows == {RowOf(loc[w], n) : n \in DOMAIN loc[w].cart}
  <2>1. Committed(w).orderItem = db.orderItem \cup rows
    BY <1>3, CommittedPlace
  <2>2. IsFiniteSet(rows)
    BY <1>1, CartRows
  <2>3. \A line \in rows : db.item[line.item] # NULL
    BY ShelfHandler DEF RowOf, ShelfOK
  <2> HIDE DEF rows
  <2> QED BY <1>2, <2>1, <2>2, <2>3, FS_Union DEF TablesShelfOK
<1>4. CASE loc[w].op = "cancel"
  BY <1>2, <1>4, CommittedCancel DEF TablesShelfOK
<1> QED
  BY <1>1, <1>3, <1>4

LEMMA ShelfCommit ==
  ASSUME TypeInv, LockInv, HandlersInv, AtomInv, ShelfInv, NEW w \in Worker,
         Commit(w) \/ CommitUnacknowledged(w)
  PROVE  ShelfInv'
<1> DEFINE e == Committed(w)
<1>1. /\ pc[w] = "commit" /\ pc' = [pc EXCEPT ![w] = "respond"]
      /\ tx' = [tx EXCEPT ![w] = NoTx] /\ db' = e /\ loc' = loc
  BY DEF Commit, CommitUnacknowledged, CommitTx, Goto
<1>2. /\ pc'[w] = "respond" /\ tx'[w] = NoTx
      /\ \A v \in Worker \ {w} : pc'[v] = pc[v] /\ tx'[v] = tx[v]
  BY <1>1 DEF TypeInv, TypeOK, DatabaseTypeOK
<1>3. ItemsKept(db, e) /\ OrdersKept(db, e)
  BY <1>1, CommittedShelf, CommitKeepsOrders
<1>4. TablesShelfOK(e)
  <2>1. \A line \in e.orderItem : line.item \in ItemId
    BY CommittedType DEF TypeInv, TypeOK, Tables, LineRow
  <2>2. \A line \in e.orderItem : e.item[line.item] # NULL
    BY <1>1, <1>3, <2>1, CommittedLines DEF ItemsKept
  <2>3. \A i \in ItemId : e.item[i] # NULL => e.item[i].price \in Prices
    BY CommittedShelf DEF ShelfInv, TablesShelfOK
  <2>4. IsFiniteSet(e.orderItem)
    BY <1>1, CommittedLines
  <2> QED BY <2>2, <2>3, <2>4 DEF TablesShelfOK
<1>5. ASSUME NEW v \in Worker PROVE ShelfOK(pc'[v], loc'[v], tx'[v], e)
  <2>1. CASE v = w
    <3>1. /\ loc[w].op = "place" => loc[w].cmd \in Cmds
          /\ \A n \in DOMAIN loc[w].cart :
               loc[w].cart[n].price \in Prices /\ e.item[loc[w].cart[n].item] # NULL
      <4>1. ShelfOK(pc[w], loc[w], tx[w], db) /\ loc[w] \in Local
        BY ShelfHandler DEF TypeInv, TypeOK
      <4>2. \A n \in DOMAIN loc[w].cart : loc[w].cart[n] \in OrderItem
        BY <4>1 DEF Local
      <4> QED BY <4>1, <4>2, <1>3 DEF ShelfOK, ItemsKept, OrderItem
    <3> HIDE DEF e
    <3> QED BY <1>1, <1>2, <2>1, <3>1, NoTxShelf
  <2>2. CASE v # w
    <3>1. ASSUME NEW i \in ItemId, tx[v].writes.item[i] # NULL PROVE e.item[i] = db.item[i]
      <4>1. ItemLock(i) \in tx[v].locks /\ ItemLock(i) \notin tx[w].locks
        BY <2>2, <3>1 DEF LockInv, NoLeakedTransaction
      <4>2. tx[w].writes.item[i] = NULL
        BY <4>1 DEF LockInv, NoLeakedTransaction
      <4> QED BY <4>2, CommittedShelf DEF Version
    <3> HIDE DEF e
    <3> QED BY <1>1, <1>2, <1>3, <2>2, <3>1, ShelfTables
  <2> QED BY <2>1, <2>2
<1> QED
  BY <1>1, <1>4, <1>5 DEF ShelfInv

\* The other contexts: an item that is replaced is locked by nobody.
LEMMA ShelfItemWrite ==
  ASSUME TypeInv, LockInv, HandlersInv, AtomInv, ShelfInv, NEW i \in ItemId, CatalogWrites(i)
  PROVE  /\ ShelfInv'
         /\ \E row \in CatalogItem : db' = [db EXCEPT !.item[i] = row]
         /\ db'.orders = db.orders /\ db'.orderItem = db.orderItem
<1>1. PICK r \in CatalogRows : CreateItem(i, r) \/ ReplaceItem(i, r)
  BY DEF CatalogWrites
<1> DEFINE row == [price |-> ToInt32(r.price), stock |-> ToInt32(r.stock)]
<1>2. row \in CatalogItem /\ row.price \in Prices /\ row # NULL
  <2>1. row \in CatalogItem
    BY DEF CatalogItem
  <2>2. row \in ItemRow
    BY CatalogAssumption, ToInt32Type DEF ItemRow
  <2> HIDE DEF row
  <2> QED BY <2>1, <2>2, NullAssumption DEF Prices
<1>3. /\ db' = [db EXCEPT !.item[i] = row] /\ UNCHANGED <<tx, pc, loc, reply>>
  BY <1>1 DEF CreateItem, ReplaceItem, InsertItem, UpdateItem, handlerVars
<1> HIDE DEF row
<1>4. /\ db'.item[i] = row /\ db'.orderItem = db.orderItem /\ db'.orders = db.orders
      /\ \A j \in ItemId \ {i} : db'.item[j] = db.item[j]
  BY <1>3 DEF TypeInv, TypeOK, DatabaseTypeOK, Tables
<1>5. ItemsKept(db, db')
  BY <1>2, <1>4 DEF ItemsKept
<1>6. OrdersKept(db, db')
  BY AtomOtherContexts DEF OtherContexts
<1>7. TablesShelfOK(db')
  <2>1. \A line \in db.orderItem : line.item \in ItemId
    BY DEF TypeInv, TypeOK, DatabaseTypeOK, Tables, LineRow
  <2> QED BY <1>2, <1>4, <1>5, <2>1 DEF ShelfInv, TablesShelfOK, ItemsKept
<1>8. ASSUME NEW w \in Worker PROVE ShelfOK(pc[w], loc[w], tx[w], db')
  <2>1. tx[w].writes.item[i] = NULL
    <3>1. CASE CreateItem(i, r)
      BY <3>1, ShelfHandler DEF CreateItem, ShelfOK
    <3>2. CASE ReplaceItem(i, r)
      BY <3>2 DEF ReplaceItem, UpdateItem, LockInv, NoLeakedTransaction
    <3> QED BY <1>1, <3>1, <3>2
  <2>2. \A j \in ItemId : tx[w].writes.item[j] # NULL => db'.item[j] = db.item[j]
    BY <1>4, <2>1
  <2> QED BY <1>5, <1>6, <2>2, ShelfTables
<1> QED
  BY <1>2, <1>3, <1>4, <1>7, <1>8 DEF ShelfInv

LEMMA ShelfRegister ==
  ASSUME TypeInv, LockInv, HandlersInv, AtomInv, ShelfInv, NEW m \in MemberId, Register(m)
  PROVE  /\ ShelfInv'
         /\ UNCHANGED <<db.item, db.orders, db.orderItem>>
<1>1. /\ db'.item = db.item /\ db'.orders = db.orders /\ db'.orderItem = db.orderItem
      /\ UNCHANGED <<tx, pc, loc>>
  BY DEF Register, InsertMember, handlerVars, TypeInv, TypeOK, DatabaseTypeOK, Tables
<1>2. ItemsKept(db, db') /\ OrdersKept(db, db')
  BY <1>1, AtomOtherContexts DEF ItemsKept, OtherContexts
<1>3. \A w \in Worker : ShelfOK(pc[w], loc[w], tx[w], db')
  BY <1>1, <1>2, ShelfTables
<1>4. TablesShelfOK(db')
  BY <1>1 DEF ShelfInv, TablesShelfOK
<1> QED
  BY <1>1, <1>3, <1>4 DEF ShelfInv

LEMMA ShelfNext ==
  TypeInv /\ LockInv /\ HandlersInv /\ AtomInv /\ ShelfInv /\ [Next]_vars => ShelfInv'
<1> SUFFICES ASSUME TypeInv, LockInv, HandlersInv, AtomInv, ShelfInv, [Next]_vars
             PROVE  ShelfInv'
  OBVIOUS
<1>1. CASE UNCHANGED vars
  BY <1>1 DEF vars, ShelfInv
<1>2. ASSUME NEW w \in Worker, Statement(w) PROVE ShelfInv'
  BY <1>2, ShelfEnsureExists, ShelfReserve, ShelfReserveUpdate, ShelfCreateDelivery,
     ShelfCreateOrder, ShelfCreateOrderItem, ShelfLoadOrder, ShelfRestore,
     ShelfRestoreUpdate, ShelfUpdateStatus, ShelfCommit, ShelfRespond DEF Statement
<1>3. ASSUME NEW w \in Worker, StatementFails(w) \/ DeadlockVictim(w) PROVE ShelfInv'
  BY <1>3, ShelfAbort DEF StatementFails, DeadlockVictim
<1> QED
  BY <1>1, <1>2, <1>3, ShelfSubmitPlace, ShelfSubmitCancel, ShelfCommit, ShelfCrash,
     ShelfRegister, ShelfItemWrite DEF Next, Handlers, OtherContexts

-----------------------------------------------------------------------------
(* The order book behind tables d: OrderingRefinement's BookEntry.          *)

EntryLines(d, o) ==
    [n \in 1 .. Cardinality(LinesIn(d, o)) |->
       LET l == CHOOSE l \in LinesIn(d, o) : l.pos = n
       IN  [item |-> l.item, price |-> l.price, count |-> l.count]]

EntryIn(d, o) ==
    IF d.orders[o] = NULL THEN NULL
    ELSE [member |-> d.orders[o].member,
          status |-> d.orders[o].status,
          lines  |-> EntryLines(d, o)]

LEMMA BookIsEntries ==
  \A o \in OrderId : BookEntry(o) = EntryIn(db, o) /\ BookEntry(o)' = EntryIn(db', o)
BY DEF BookEntry, EntryIn, EntryLines, LinesOf, LinesIn

\* The lines of an entry are the lines of the order, each at its position.
LEMMA EntryHasLines ==
  ASSUME NEW d, NEW o, NEW n \in 1 .. Cardinality(LinesIn(d, o)),
         {l.pos : l \in LinesIn(d, o)} = 1 .. Cardinality(LinesIn(d, o))
  PROVE  \E l \in LinesIn(d, o) :
            /\ l.pos = n
            /\ EntryLines(d, o)[n] = [item |-> l.item, price |-> l.price, count |-> l.count]
<1>1. \E l \in LinesIn(d, o) : l.pos = n
  OBVIOUS
<1> DEFINE l == CHOOSE l \in LinesIn(d, o) : l.pos = n
<1>2. l \in LinesIn(d, o) /\ l.pos = n
  BY <1>1
<1>3. EntryLines(d, o)[n] = [item |-> l.item, price |-> l.price, count |-> l.count]
  BY DEF EntryLines
<1> HIDE DEF l
<1> QED
  BY <1>2, <1>3

\* An order that is there has an entry.
LEMMA EntryExists ==
  ASSUME NEW d \in Tables, NEW o \in OrderId, d.orders[o] # NULL, IsFiniteSet(d.orderItem),
         {l.pos : l \in LinesIn(d, o)} = 1 .. Cardinality(LinesIn(d, o))
  PROVE  EntryIn(d, o) # NULL
<1> DEFINE BookLine == [item : ItemId, price : Int32, count : Int32]
<1>1. Cardinality(LinesIn(d, o)) \in Nat
  <2>1. LinesIn(d, o) \subseteq d.orderItem
    BY DEF LinesIn
  <2> QED BY <2>1, FS_Subset, FS_CardinalityType
<1>2. ASSUME NEW n \in 1 .. Cardinality(LinesIn(d, o)) PROVE EntryLines(d, o)[n] \in BookLine
  <2>1. PICK l \in LinesIn(d, o) :
          EntryLines(d, o)[n] = [item |-> l.item, price |-> l.price, count |-> l.count]
    BY EntryHasLines
  <2>2. l \in LineRow
    BY DEF LinesIn, Tables
  <2> QED BY <2>1, <2>2 DEF LineRow
<1>3. EntryLines(d, o) \in Seq(BookLine)
  <2>1. EntryLines(d, o) = [n \in 1 .. Cardinality(LinesIn(d, o)) |-> EntryLines(d, o)[n]]
    BY DEF EntryLines
  <2> HIDE DEF BookLine
  <2> QED BY <1>1, <1>2, <2>1
<1>4. d.orders[o].member \in MemberId /\ d.orders[o].status \in OrderStatus
  BY DEF Tables, Opt, OrderRow
<1>5. EntryIn(d, o) \in [member : MemberId, status : OrderStatus, lines : Seq(BookLine)]
  BY <1>3, <1>4 DEF EntryIn
<1> QED
  BY <1>5, NullEntryAssumption

\* An entry depends on the rows of its order only.
LEMMA EntryKept ==
  ASSUME NEW d, NEW e, NEW o, e.orders[o] = d.orders[o], LinesIn(e, o) = LinesIn(d, o)
  PROVE  EntryIn(e, o) = EntryIn(d, o)
BY DEF EntryIn, EntryLines

\* The items an entry's lines name are those of the order's rows.
LEMMA EntryItems ==
  ASSUME NEW d, NEW o, NEW line \in LinesIn(d, o),
         {l.pos : l \in LinesIn(d, o)} = 1 .. Cardinality(LinesIn(d, o)),
         \A k, l \in LinesIn(d, o) : k.pos = l.pos => k = l
  PROVE  line.item \in {EntryLines(d, o)[n].item : n \in DOMAIN EntryLines(d, o)}
<1>1. line.pos \in 1 .. Cardinality(LinesIn(d, o))
  OBVIOUS
<1>2. PICK l \in LinesIn(d, o) :
        /\ l.pos = line.pos
        /\ EntryLines(d, o)[line.pos] = [item |-> l.item, price |-> l.price, count |-> l.count]
  BY <1>1, EntryHasLines
<1>3. EntryLines(d, o)[line.pos].item = line.item
  BY <1>2
<1>4. line.pos \in DOMAIN EntryLines(d, o)
  BY <1>1 DEF EntryLines
<1> QED
  BY <1>3, <1>4

\* What all steps of the refinement rest on.
BookInv == TypeInv /\ LockInv /\ HandlersInv /\ AtomInv /\ StockInv /\ ShelfInv

\* The step of Ordering that commits nothing is no step of the book.
LEMMA SameTablesSameBook ==
  ASSUME UNCHANGED <<db.item, db.orders, db.orderItem>>
  PROVE  /\ UNCHANGED db.item
         /\ \A o \in OrderId : BookEntry(o)' = BookEntry(o)
<1>1. \A o \in OrderId : LinesIn(db', o) = LinesIn(db, o)
  BY DEF LinesIn
<1> QED
  BY <1>1, EntryKept, BookIsEntries

\* A commit moves the stock of the items its request names, and of no others.
LEMMA CommitMoves ==
  ASSUME BookInv, NEW w \in Worker, pc[w] = "commit", db' = Committed(w)
  PROVE  /\ DOMAIN db'.item = ItemId
         /\ \A i \in ItemId \ Named(loc[w], db) : db'.item[i] = db.item[i]
         /\ \A i \in ItemId : db.item[i] # NULL =>
              /\ db'.item[i] = [db.item[i] EXCEPT !.stock = db'.item[i].stock]
              /\ db'.item[i].stock >= 0
<1>1. ShelfOK(pc[w], loc[w], tx[w], db) /\ TxStockOK(tx[w]) /\ TablesStockOK(db)
  BY ShelfHandler DEF BookInv, StockInv
<1>2. /\ DOMAIN db'.item = ItemId /\ ItemsKept(db, db')
      /\ \A i \in ItemId :
           /\ db'.item[i] = Version(tx[w].writes.item[i], db.item[i])
           /\ db'.item[i] # NULL =>
                /\ db'.item[i] \in ItemRow
                /\ db.item[i] # NULL
                /\ db'.item[i].price = db.item[i].price
  BY CommittedShelf DEF BookInv
<1>3. \A i \in ItemId \ Named(loc[w], db) : db'.item[i] = db.item[i]
  BY <1>1, <1>2 DEF ShelfOK, Version
<1>4. ASSUME NEW i \in ItemId, db.item[i] # NULL
      PROVE  /\ db'.item[i] = [db.item[i] EXCEPT !.stock = db'.item[i].stock]
             /\ db'.item[i].stock >= 0
  <2>1. db.item[i] \in ItemRow
    BY <1>4 DEF BookInv, TypeInv, TypeOK, DatabaseTypeOK, Tables, Opt
  <2>2. db'.item[i] \in ItemRow /\ db'.item[i].price = db.item[i].price
    BY <1>2, <1>4 DEF ItemsKept
  <2>3. db'.item[i].stock >= 0
    BY <1>1, <1>2, <1>4 DEF Version, TxStockOK, TablesStockOK
  <2> QED BY <2>1, <2>2, <2>3 DEF ItemRow
<1> QED
  BY <1>2, <1>3, <1>4

\* Place's COMMIT puts its order into the book, with the lines of its command,
\* and the prices its cart was given.
LEMMA CommitPlaces ==
  ASSUME BookInv, NEW w \in Worker, pc[w] = "commit", loc[w].op = "place",
         db' = Committed(w), NEW o \in OrderId, o = loc[w].id
  PROVE  /\ BookEntry(o) = NULL
         /\ BookEntry(o)' # NULL
         /\ BookEntry(o)' =
              [member |-> loc[w].cmd.member, status |-> "ORDER",
               lines  |-> [n \in DOMAIN loc[w].cmd.lines |->
                             [item  |-> loc[w].cmd.lines[n].item,
                              price |-> loc[w].cart[n].price,
                              count |-> loc[w].cmd.lines[n].count]]]
         /\ \A q \in OrderId \ {o} : BookEntry(q)' = BookEntry(q)
<1> DEFINE l     == loc[w]
           e     == Committed(w)
           rows  == {RowOf(l, n) : n \in DOMAIN l.cart}
           lines == [n \in DOMAIN l.cmd.lines |->
                       [item  |-> l.cmd.lines[n].item,
                        price |-> l.cart[n].price,
                        count |-> l.cmd.lines[n].count]]
<1>1. TypeInv /\ HandlersInv /\ AtomInv /\ ShelfInv /\ TablesWhole(db, nextDelivery)
  BY DEF BookInv, AtomInv
<1>2. l \in Local /\ l.cmd \in PlaceCommand /\ CartOK("commit", l)
  BY <1>1 DEF HandlersInv, HandlerOK, TypeInv, TypeOK
<1>3. /\ l.id \in OrderId /\ db.orders[l.id] = NULL
      /\ e.orderItem = db.orderItem \cup rows
      /\ e.orders[l.id] = [member |-> l.cmd.member, delivery |-> l.dlv, status |-> "ORDER"]
      /\ e.orders[l.id] # NULL
      /\ \A q \in OrderId \ {l.id} : e.orders[q] = db.orders[q]
  BY <1>1, CommittedPlace
<1>4. LinesIn(e, l.id) = rows
  BY <1>1, CommitRecords
<1>5. /\ Cardinality(rows) = Len(l.cart) /\ {line.pos : line \in rows} = 1 .. Cardinality(rows)
  BY <1>2, CartRows
<1>6. /\ Len(l.cart) = Len(l.cmd.lines)
      /\ DOMAIN l.cmd.lines = 1 .. Len(l.cmd.lines) /\ DOMAIN l.cart = 1 .. Len(l.cmd.lines)
  BY <1>2 DEF CartOK, Local, PlaceCommand
<1>7. EntryLines(e, l.id) = lines
  <2>1. ASSUME NEW n \in 1 .. Len(l.cmd.lines)
        PROVE  EntryLines(e, l.id)[n] = lines[n]
    <3>1. PICK line \in rows :
            /\ line.pos = n
            /\ EntryLines(e, l.id)[n] =
                 [item |-> line.item, price |-> line.price, count |-> line.count]
      <4> HIDE DEF rows, e
      <4> QED BY <1>4, <1>5, <1>6, EntryHasLines
    <3>2. line = RowOf(l, n)
      BY <3>1 DEF RowOf
    <3>3. l.cart[n].item = l.cmd.lines[n].item /\ l.cart[n].count = l.cmd.lines[n].count
      BY <1>2, <1>6 DEF CartOK
    <3> QED BY <1>6, <3>1, <3>2, <3>3 DEF RowOf
  <2>2. EntryLines(e, l.id) = [n \in 1 .. Len(l.cmd.lines) |-> EntryLines(e, l.id)[n]]
    BY <1>4, <1>5, <1>6 DEF EntryLines
  <2>3. lines = [n \in 1 .. Len(l.cmd.lines) |-> lines[n]]
    BY <1>6
  <2> HIDE DEF lines, e
  <2> QED BY <2>1, <2>2, <2>3
<1>8. EntryIn(e, l.id) = [member |-> l.cmd.member, status |-> "ORDER", lines |-> lines]
  <2> HIDE DEF e, lines
  <2> QED BY <1>3, <1>7 DEF EntryIn
<1>9. EntryIn(e, l.id) # NULL
  <2>1. e \in Tables /\ IsFiniteSet(e.orderItem)
    BY <1>1, CommittedType, CommittedLines DEF TypeInv, TypeOK
  <2> HIDE DEF e, rows
  <2> QED BY <1>3, <1>4, <1>5, <2>1, EntryExists
<1>10. ASSUME NEW q \in OrderId \ {l.id} PROVE EntryIn(e, q) = EntryIn(db, q)
  <2>1. LinesIn(e, q) = LinesIn(db, q)
    <3>1. \A line \in rows : line.order # q
      BY <1>10 DEF RowOf
    <3> HIDE DEF e, rows
    <3> QED BY <1>3, <3>1 DEF LinesIn
  <2> HIDE DEF e
  <2> QED BY <1>3, <2>1, EntryKept
<1>11. EntryIn(db, l.id) = NULL
  BY <1>3 DEF EntryIn
<1> HIDE DEF e, lines
<1>12. BookEntry(o) = NULL /\ BookEntry(o)' = EntryIn(e, o)
  BY <1>11, BookIsEntries DEF e
<1>13. \A q \in OrderId \ {o} : BookEntry(q)' = BookEntry(q)
  BY <1>10, BookIsEntries DEF e
<1> QED
  BY <1>8, <1>9, <1>12, <1>13 DEF lines

\* Cancel's COMMIT marks its order canceled, and leaves its lines and the other
\* orders as they are.
LEMMA CommitCancels ==
  ASSUME BookInv, NEW w \in Worker, pc[w] = "commit", loc[w].op = "cancel",
         db' = Committed(w), NEW o \in OrderId, o = loc[w].id
  PROVE  /\ BookEntry(o) # NULL
         /\ BookEntry(o).lines = EntryLines(db, o)
         /\ BookEntry(o)' = [BookEntry(o) EXCEPT !.status = "CANCEL"]
         /\ \A q \in OrderId \ {o} : BookEntry(q)' = BookEntry(q)
<1> DEFINE l == loc[w]
           e == Committed(w)
<1>1. /\ TypeInv /\ HandlersInv /\ AtomInv /\ ShelfInv /\ TablesWhole(db, nextDelivery)
      /\ db \in Tables /\ IsFiniteSet(db.orderItem)
  BY DEF BookInv, AtomInv, ShelfInv, TablesShelfOK, TypeInv, TypeOK, DatabaseTypeOK
<1>2. /\ db.orders[l.id] # NULL
      /\ e.orderItem = db.orderItem
      /\ e.orders[l.id] = [db.orders[l.id] EXCEPT !.status = "CANCEL"]
      /\ e.orders[l.id] # NULL
      /\ \A q \in OrderId \ {l.id} : e.orders[q] = db.orders[q]
  BY <1>1, CommittedCancel
<1> HIDE DEF e
<1>3. \A q \in OrderId : LinesIn(e, q) = LinesIn(db, q)
  BY <1>2 DEF LinesIn
<1>4. EntryIn(db, l.id) # NULL
  BY <1>1, <1>2, EntryExists DEF TablesWhole
<1>5. db.orders[l.id] \in OrderRow
  BY <1>1, <1>2 DEF Tables, Opt
<1>6. EntryLines(e, l.id) = EntryLines(db, l.id)
  BY <1>2, <1>3 DEF EntryLines
<1>7. /\ EntryIn(db, l.id).lines = EntryLines(db, l.id)
      /\ EntryIn(e, l.id) = [EntryIn(db, l.id) EXCEPT !.status = "CANCEL"]
  BY <1>2, <1>5, <1>6 DEF EntryIn, OrderRow
<1>8. \A q \in OrderId \ {l.id} : EntryIn(e, q) = EntryIn(db, q)
  BY <1>2, <1>3, EntryKept
<1>9. \A q \in OrderId : BookEntry(q) = EntryIn(db, q) /\ BookEntry(q)' = EntryIn(e, q)
  BY BookIsEntries DEF e
<1> QED
  BY <1>2, <1>4, <1>7, <1>8, <1>9

LEMMA PlaceIsBookPlace ==
  ASSUME BookInv, NEW w \in Worker, pc[w] = "commit", loc[w].op = "place",
         db' = Committed(w)
  PROVE  \E o \in OrderId : Book!Place(o)
<1> DEFINE cmd   == loc[w].cmd
           cart  == loc[w].cart
           price == [n \in DOMAIN cmd.lines |-> cart[n].price]
<1>1. /\ loc[w] \in Local /\ CartOK("commit", loc[w]) /\ loc[w].id \in OrderId
      /\ cmd \in Cmds /\ ShelfOK("commit", loc[w], tx[w], db)
  BY ShelfHandler DEF BookInv, HandlersInv, HandlerOK, TypeInv, TypeOK, ShelfOK
<1>2. DOMAIN cart = DOMAIN cmd.lines /\ cmd.lines \in Seq(Line)
  BY <1>1, CmdsAssumption DEF CartOK, Local, PlaceCommand
<1>3. /\ cmd.lines # << >>
      /\ \A n \in DOMAIN cmd.lines : cmd.lines[n].count > 0
  BY <1>1 DEF CartOK, Valid
<1>4. price \in [DOMAIN cmd.lines -> Prices]
  BY <1>1, <1>2 DEF ShelfOK
<1>5. PICK o \in OrderId : o = loc[w].id
  BY <1>1
<1>6. /\ BookEntry(o) = NULL
      /\ BookEntry(o)' # NULL
      /\ BookEntry(o)' =
           [member |-> cmd.member, status |-> "ORDER",
            lines  |-> [n \in DOMAIN cmd.lines |->
                          [item  |-> cmd.lines[n].item,
                           price |-> price[n],
                           count |-> cmd.lines[n].count]]]
      /\ \A q \in OrderId \ {o} : BookEntry(q)' = BookEntry(q)
  BY <1>5, CommitPlaces
<1>7. Named(loc[w], db) = Book!ItemsOf(cmd.lines)
  BY DEF Named, Book!ItemsOf
<1>8. /\ DOMAIN db'.item = ItemId
      /\ \A i \in ItemId \ Named(loc[w], db) : db'.item[i] = db.item[i]
      /\ \A i \in ItemId : db.item[i] # NULL =>
           /\ db'.item[i] = [db.item[i] EXCEPT !.stock = db'.item[i].stock]
           /\ db'.item[i].stock >= 0
  BY CommitMoves
<1>9. \A i \in Book!ItemsOf(cmd.lines) : i \in ItemId /\ db.item[i] # NULL
  <2>1. ASSUME NEW n \in DOMAIN cmd.lines
        PROVE  cmd.lines[n].item \in ItemId /\ db.item[cmd.lines[n].item] # NULL
    <3>1. cmd.lines[n] \in Line
      BY <1>2
    <3>2. cart[n].item = cmd.lines[n].item /\ db.item[cart[n].item] # NULL
      BY <1>1, <1>2 DEF CartOK, ShelfOK
    <3> QED BY <3>1, <3>2 DEF Line
  <2> QED BY <2>1 DEF Book!ItemsOf
<1>10. Book!Move(cmd.lines, -1)
  BY <1>7, <1>8, <1>9 DEF Book!Move
<1> HIDE DEF cmd, price
<1>11. PICK c \in Cmds : c = cmd
  BY <1>1
<1>12. PICK pr \in [DOMAIN c.lines -> Prices] : pr = price
  BY <1>4, <1>11
<1> DEFINE entry == [member |-> c.member, status |-> "ORDER",
                     lines  |-> [n \in DOMAIN c.lines |->
                                   [item  |-> c.lines[n].item,
                                    price |-> pr[n],
                                    count |-> c.lines[n].count]]]
<1>13. c.lines # << >> /\ (\A n \in DOMAIN c.lines : c.lines[n].count > 0)
  BY <1>3, <1>11
<1>14. Book!Move(c.lines, -1)
  BY <1>10, <1>11
<1>15. BookEntry(o)' = entry
  BY <1>6, <1>11, <1>12
<1> HIDE DEF entry
<1>16. /\ [q \in OrderId |-> BookEntry(q)][o] = NULL
       /\ [q \in OrderId |-> BookEntry(q)]'[o] # NULL
       /\ [q \in OrderId |-> BookEntry(q)]'
            = [[q \in OrderId |-> BookEntry(q)] EXCEPT ![o] = entry]
  BY <1>6, <1>15
<1>17. Book!Place(o)
  BY <1>13, <1>14, <1>16 DEF Book!Place, Prices, entry
<1> QED
  BY <1>17

LEMMA CancelIsBookCancel ==
  ASSUME BookInv, NEW w \in Worker, pc[w] = "commit", loc[w].op = "cancel",
         db' = Committed(w)
  PROVE  \E o \in OrderId : Book!Cancel(o)
<1>1. PICK o \in OrderId : o = loc[w].id
  BY DEF BookInv, HandlersInv, HandlerOK
<1> DEFINE lines == EntryLines(db, o)
<1>2. /\ BookEntry(o) # NULL
      /\ BookEntry(o).lines = lines
      /\ BookEntry(o)' = [BookEntry(o) EXCEPT !.status = "CANCEL"]
      /\ \A q \in OrderId \ {o} : BookEntry(q)' = BookEntry(q)
  BY <1>1, CommitCancels
<1>3. /\ db.orders[o] # NULL /\ TablesShelfOK(db) /\ TablesWhole(db, nextDelivery)
      /\ db \in Tables
  BY <1>1, CommittedCancel DEF BookInv, ShelfInv, AtomInv, TypeInv, TypeOK, DatabaseTypeOK
<1>4. /\ {l.pos : l \in LinesIn(db, o)} = 1 .. Cardinality(LinesIn(db, o))
      /\ \A k, l \in LinesIn(db, o) : k.pos = l.pos => k = l
  BY <1>3 DEF TablesWhole
<1>5. Named(loc[w], db) \subseteq Book!ItemsOf(lines)
  BY <1>1, <1>4, EntryItems DEF Named, Book!ItemsOf
<1>6. \A i \in Book!ItemsOf(lines) : i \in ItemId /\ db.item[i] # NULL
  <2>1. ASSUME NEW n \in DOMAIN lines
        PROVE  lines[n].item \in ItemId /\ db.item[lines[n].item] # NULL
    <3>1. n \in 1 .. Cardinality(LinesIn(db, o))
      BY DEF EntryLines
    <3>2. PICK line \in LinesIn(db, o) :
            EntryLines(db, o)[n]
              = [item |-> line.item, price |-> line.price, count |-> line.count]
      <4>1. {l.pos : l \in LinesIn(db, o)} = 1 .. Cardinality(LinesIn(db, o))
        BY <1>4
      <4> HIDE DEF lines
      <4> QED BY ONLY <3>1, <4>1, EntryHasLines
    <3>3. line \in LineRow /\ db.item[line.item] # NULL
      BY <1>3 DEF LinesIn, Tables, TablesShelfOK
    <3> QED BY <3>2, <3>3 DEF LineRow
  <2> HIDE DEF lines
  <2> QED BY <2>1 DEF Book!ItemsOf
<1>7. /\ DOMAIN db'.item = ItemId
      /\ \A i \in ItemId \ Named(loc[w], db) : db'.item[i] = db.item[i]
      /\ \A i \in ItemId : db.item[i] # NULL =>
           /\ db'.item[i] = [db.item[i] EXCEPT !.stock = db'.item[i].stock]
           /\ db'.item[i].stock >= 0
  BY <1>1, CommitMoves
<1> HIDE DEF lines
<1>8. Book!Move(lines, 1)
  BY <1>5, <1>6, <1>7 DEF Book!Move
<1> QED
  BY <1>2, <1>8 DEF Book!Cancel

LEMMA ItemWriteIsBookStock ==
  ASSUME BookInv, NEW i \in ItemId, CatalogWrites(i)
  PROVE  Book!Stock(i)
<1>1. PICK row \in CatalogItem : db' = [db EXCEPT !.item[i] = row]
  BY ShelfItemWrite DEF BookInv
<1>2. db'.item = [db.item EXCEPT ![i] = row]
  BY <1>1 DEF BookInv, TypeInv, TypeOK, DatabaseTypeOK, Tables
<1>3. \A o \in OrderId : BookEntry(o)' = BookEntry(o)
  <2>1. db'.orders = db.orders /\ db'.orderItem = db.orderItem
    BY ShelfItemWrite DEF BookInv
  <2>2. \A o \in OrderId : LinesIn(db', o) = LinesIn(db, o)
    BY <2>1 DEF LinesIn
  <2> QED BY <2>1, <2>2, EntryKept, BookIsEntries
<1> QED
  BY <1>2, <1>3 DEF Book!Stock

LEMMA StepImplementsBook ==
  BookInv /\ [Next]_vars => [Book!Next]_<<db.item, [o \in OrderId |-> BookEntry(o)]>>
<1> SUFFICES ASSUME BookInv, [Next]_vars
             PROVE  \/ Book!Next
                    \/ /\ UNCHANGED db.item
                       /\ \A o \in OrderId : BookEntry(o)' = BookEntry(o)
  OBVIOUS
<1>1. ASSUME NEW w \in Worker, Commit(w) \/ CommitUnacknowledged(w)
      PROVE  Book!Next
  <2>1. pc[w] = "commit" /\ db' = Committed(w)
    BY <1>1 DEF Commit, CommitUnacknowledged, CommitTx
  <2>2. loc[w].op \in {"place", "cancel"}
    BY <2>1 DEF BookInv, HandlersInv, HandlerOK
  <2> QED BY <2>1, <2>2, PlaceIsBookPlace, CancelIsBookCancel DEF Book!Next
<1>2. ASSUME NEW w \in Worker, Statement(w), ~Commit(w) PROVE UNCHANGED db
  BY <1>2 DEF Statement, EnsureExists, Reserve, ReserveUpdate, CreateDelivery, CreateOrder,
     CreateOrderItem, LoadOrder, Restore, RestoreUpdate, UpdateStatus, Respond, Abort
<1>3. ASSUME NEW w \in Worker,
             \/ \E cmd \in Cmds : SubmitPlace(w, cmd)
             \/ \E o \in OrderId \cup {0} : SubmitCancel(w, o)
             \/ StatementFails(w) \/ DeadlockVictim(w)
      PROVE  UNCHANGED db
  BY <1>3 DEF SubmitPlace, SubmitCancel, StatementFails, DeadlockVictim, Abort, dbVars
<1>4. CASE UNCHANGED db
  BY <1>4, SameTablesSameBook
<1>5. ASSUME NEW i \in ItemId, CatalogWrites(i) PROVE Book!Next
  BY <1>5, ItemWriteIsBookStock DEF Book!Next
<1>6. ASSUME NEW m \in MemberId, Register(m)
      PROVE  UNCHANGED <<db.item, db.orders, db.orderItem>>
  BY <1>6, ShelfRegister DEF BookInv
<1>7. CASE Crash \/ UNCHANGED vars
  BY <1>4, <1>7 DEF Crash, vars
<1> QED
  BY <1>1, <1>2, <1>3, <1>4, <1>5, <1>6, <1>7, SameTablesSameBook
     DEF Next, Handlers, OtherContexts

LEMMA BookAlways == Spec /\ SentStockFits /\ []RestoredStockFits => []BookInv
<1>1. Init => BookInv
  BY TypeInit, LockInit, HandlersInit, AtomInit, StockInit, ShelfInit DEF BookInv
<1>2. BookInv /\ RestoredStockFits /\ [Next]_vars
        /\ [\A i \in ItemId : CatalogWrites(i) => FittingWrite(i)]_vars => BookInv'
  BY TypeNext, LockNext, HandlersNext, AtomNext, StockNext, ShelfNext DEF BookInv
<1> QED
  BY <1>1, <1>2, PTL DEF Spec, SentStockFits

\* The transactions of Place and Cancel, interleaved statement by statement with
\* each other, with failures, crashes and the other contexts' writes, implement
\* the order book: whatever shows in the tables came there by whole acts, an
\* order placed with the lines of one request, at prices of the catalog, or
\* canceled, and an act moved the stock of the items it names, never their
\* price, another item, or stock below zero.  The last is why, as in
\* StockStaysNonNegative, no stock sent to the item endpoints or computed by
\* Restore may be beyond its column: the code does not see to that.
THEOREM OrderingImplementsOrderBook ==
  Spec /\ SentStockFits /\ []RestoredStockFits => ImplementsOrderBook
<1>1. Init => Book!Init
  BY DEF Init, EmptyTables, Book!Init, BookEntry
<1> QED
  BY <1>1, StepImplementsBook, BookAlways, PTL DEF Spec, ImplementsOrderBook, Book!Spec
=============================================================================
