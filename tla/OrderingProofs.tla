--------------------------- MODULE OrderingProofs ---------------------------
(* Theorems about Ordering, for every value of its constants. *)
EXTENDS Ordering, ColumnsProofs, FiniteSetTheorems

-----------------------------------------------------------------------------
(* What the statements of Database preserve, for any tables and writes.     *)

LEMMA NoTxType == NoTx \in Transaction
  BY DEF NoTx, NoWrites, Transaction, Writes, Opt

LEMMA TakeSnapshotType ==
  ASSUME DatabaseTypeOK, NEW w \in Worker, TakeSnapshot(w)
  PROVE  /\ tx' \in [Worker -> Transaction]
         /\ tx'[w].snap \in Tables
         /\ \A v \in Worker \ {w} : tx'[v] = tx[v]
  BY DEF DatabaseTypeOK, TakeSnapshot, Transaction, Opt

LEMMA UpdateItemStockType ==
  ASSUME DatabaseTypeOK, NEW w \in Worker, NEW i \in ItemId, NEW qty \in Int32,
         UpdateItemStock(w, i, qty)
  PROVE  /\ tx' \in [Worker -> Transaction]
         /\ tx'[w].snap = tx[w].snap
         /\ \A v \in Worker \ {w} : tx'[v] = tx[v]
<1> DEFINE t   == tx[w]
           row == ItemCurrent(w, i)
           old == t.writes.item[i]
           new == Changed(old, row, [row EXCEPT !.stock = qty])
<1>1. t \in Transaction /\ db \in Tables
  BY DEF DatabaseTypeOK
<1>2. old \in Opt(ItemRow) /\ db.item[i] \in Opt(ItemRow)
  BY <1>1 DEF Transaction, Writes, Tables
<1>3. row \in Opt(ItemRow)
  BY <1>2 DEF ItemCurrent, Version
<1>4. new \in Opt(ItemRow)
  BY <1>2, <1>3 DEF Changed, Opt, ItemRow
<1>5. ItemLock(i) \in Lockable
  BY DEF Lockable
<1>6. tx' = [tx EXCEPT ![w] = [t EXCEPT !.locks = @ \cup {ItemLock(i)},
                                      !.writes.item[i] = new]]
  BY DEF UpdateItemStock
<1>7. [t EXCEPT !.locks = @ \cup {ItemLock(i)}, !.writes.item[i] = new] \in Transaction
  <2> HIDE DEF new, row
  <2> QED BY <1>1, <1>4, <1>5 DEF Transaction, Writes
<1>8. [t EXCEPT !.locks = @ \cup {ItemLock(i)}, !.writes.item[i] = new].snap = t.snap
  <2> HIDE DEF new, row
  <2> QED BY <1>1 DEF Transaction, Writes
<1> HIDE DEF new, row
<1> QED
  BY <1>6, <1>7, <1>8 DEF DatabaseTypeOK

LEMMA UpdateOrderStatusType ==
  ASSUME DatabaseTypeOK, NEW w \in Worker, NEW o \in OrderId, NEW s \in OrderStatus,
         UpdateOrderStatus(w, o, s)
  PROVE  /\ tx' \in [Worker -> Transaction]
         /\ tx'[w].snap = tx[w].snap
         /\ \A v \in Worker \ {w} : tx'[v] = tx[v]
<1> DEFINE t   == tx[w]
           row == OrderCurrent(w, o)
           old == t.writes.orders[o]
           new == Changed(old, row, [row EXCEPT !.status = s])
<1>1. t \in Transaction /\ db \in Tables
  BY DEF DatabaseTypeOK
<1>2. old \in Opt(OrderRow) /\ db.orders[o] \in Opt(OrderRow)
  BY <1>1 DEF Transaction, Writes, Tables
<1>3. row \in Opt(OrderRow)
  BY <1>2 DEF OrderCurrent, Version
<1>4. new \in Opt(OrderRow)
  BY <1>2, <1>3 DEF Changed, Opt, OrderRow
<1>5. OrderLock(o) \in Lockable
  BY DEF Lockable
<1>6. tx' = [tx EXCEPT ![w] = [t EXCEPT !.locks = @ \cup {OrderLock(o)},
                                      !.writes.orders[o] = new]]
  BY DEF UpdateOrderStatus
<1> DEFINE u == [t EXCEPT !.locks = @ \cup {OrderLock(o)}, !.writes.orders[o] = new]
<1>7. u \in Transaction /\ u.snap = t.snap
  <2> HIDE DEF new, row
  <2> QED BY <1>1, <1>4, <1>5 DEF Transaction, Writes
<1> HIDE DEF new, row
<1> QED
  BY <1>6, <1>7 DEF DatabaseTypeOK

LEMMA InsertDeliveryType ==
  ASSUME DatabaseTypeOK, NEW w \in Worker, nextDelivery \in DeliveryId, InsertDelivery(w)
  PROVE  /\ tx' \in [Worker -> Transaction]
         /\ tx'[w].snap = tx[w].snap
         /\ \A v \in Worker \ {w} : tx'[v] = tx[v]
  BY DEF DatabaseTypeOK, InsertDelivery, Transaction, Writes

LEMMA InsertOrderType ==
  ASSUME DatabaseTypeOK, NEW w \in Worker, nextOrder \in OrderId,
         NEW row \in OrderRow, InsertOrder(w, row)
  PROVE  /\ tx' \in [Worker -> Transaction]
         /\ tx'[w].snap = tx[w].snap
         /\ \A v \in Worker \ {w} : tx'[v] = tx[v]
<1> DEFINE t == tx[w]
           u == [t EXCEPT !.locks = @ \cup {OrderLock(nextOrder)},
                          !.writes.orders[nextOrder] = row]
<1>1. t \in Transaction /\ row \in Opt(OrderRow) /\ OrderLock(nextOrder) \in Lockable
  BY DEF DatabaseTypeOK, Opt, Lockable
<1>2. u \in Transaction /\ u.snap = t.snap
  BY <1>1 DEF Transaction, Writes
<1>3. tx' = [tx EXCEPT ![w] = u]
  BY DEF InsertOrder
<1> QED
  BY <1>2, <1>3 DEF DatabaseTypeOK

LEMMA InsertOrderItemType ==
  ASSUME DatabaseTypeOK, NEW w \in Worker, NEW line \in LineRow, InsertOrderItem(w, line)
  PROVE  /\ tx' \in [Worker -> Transaction]
         /\ tx'[w].snap = tx[w].snap
         /\ \A v \in Worker \ {w} : tx'[v] = tx[v]
  BY DEF DatabaseTypeOK, InsertOrderItem, Transaction, Writes

LEMMA CommittedType ==
  ASSUME DatabaseTypeOK, NEW w \in Worker
  PROVE  Committed(w) \in Tables
<1>1. tx[w].writes \in Writes /\ db \in Tables
  BY DEF DatabaseTypeOK, Transaction
<1>2. Overwrite(db.item, tx[w].writes.item) \in [ItemId -> Opt(ItemRow)]
  BY <1>1 DEF Overwrite, Version, Tables, Writes
<1>3. Overwrite(db.orders, tx[w].writes.orders) \in [OrderId -> Opt(OrderRow)]
  BY <1>1 DEF Overwrite, Version, Tables, Writes
<1> QED
  BY <1>1, <1>2, <1>3 DEF Committed, Tables, Writes

-----------------------------------------------------------------------------
(* The inductive invariant behind TypeOK.  Ids stay in the tables' ranges   *)
(* because each order submitted takes at most one id of each kind: the ids  *)
(* given out and the requests that may still take one never exceed the      *)
(* orders submitted.                                                        *)

\* The places of a Place handler that has not inserted its order yet.
BeforeOrder == {"ensure", "reserve", "reserved", "delivery", "order"}
BeforeDelivery == BeforeOrder \ {"order"}

AwaitOrder == {w \in Worker : pc[w] \in BeforeOrder}
AwaitDelivery == {w \in Worker : pc[w] \in BeforeDelivery}

CountOK ==
    /\ nextOrder + Cardinality(AwaitOrder) <= submitted + 1
    /\ nextDelivery + Cardinality(AwaitDelivery) <= submitted + 1

\* The locals l and the transaction t of a handler at p are set as p needs.
LocalsOK(p, l, t) ==
    /\ p \in InTx => t.snap \in Tables
    /\ p \in BeforeOrder \cup {"orderItem"} => l.cmd \in PlaceCommand
    /\ p \in {"ensure", "reserve", "reserved"} => l.k \in DOMAIN l.cmd.lines
    /\ p \in {"reserved", "restored"} => l.it \in Item
    /\ p \in {"delivery", "order", "orderItem"} => l.k \in DOMAIN l.cart
    /\ p \in {"order", "orderItem"} => l.dlv \in DeliveryId
    /\ p \in {"orderItem", "load", "restore", "restored", "status"} => l.id \in OrderId

TypeInv ==
    /\ TypeOK
    /\ \A w \in Worker : LocalsOK(pc[w], loc[w], tx[w])
    /\ CountOK

LEMMA AwaitFinite ==
  ASSUME NEW S \in SUBSET Worker
  PROVE  IsFiniteSet(S) /\ Cardinality(S) \in Nat
BY WorkerAssumption, FS_Subset, FS_CardinalityType

LEMMA NoLocalType == NoLocal \in Local
  BY DEF NoLocal, Local, Opt

LEMMA TypeInit == Init => TypeInv
<1> SUFFICES ASSUME Init PROVE TypeInv
  OBVIOUS
<1>1. EmptyTables \in Tables
  BY DEF EmptyTables, Tables, Opt
<1>2. NoLocal \in Local
  BY NoLocalType
<1>3. TypeOK
  BY <1>1, <1>2, NoTxType, MaxOrderAssumption
     DEF Init, TypeOK, DatabaseTypeOK, Control, Reply
<1>4. \A w \in Worker : LocalsOK(pc[w], loc[w], tx[w])
  BY DEF Init, LocalsOK, InTx, BeforeOrder
<1>5. AwaitOrder = {} /\ AwaitDelivery = {}
  BY DEF Init, AwaitOrder, AwaitDelivery, BeforeOrder, BeforeDelivery
<1>6. CountOK
  BY <1>5, FS_EmptySet DEF CountOK, Init
<1> QED
  BY <1>3, <1>4, <1>6 DEF TypeInv

\* A step that moves one handler, gives out no id and starts no order.
LEMMA CountKept ==
  ASSUME TypeInv, NEW w \in Worker,
         \A v \in Worker \ {w} : pc'[v] = pc[v],
         pc'[w] \in BeforeOrder => pc[w] \in BeforeOrder,
         pc'[w] \in BeforeDelivery => pc[w] \in BeforeDelivery,
         UNCHANGED <<nextOrder, nextDelivery, submitted>>
  PROVE  CountOK'
<1>1. AwaitOrder' \subseteq AwaitOrder /\ AwaitDelivery' \subseteq AwaitDelivery
  BY DEF AwaitOrder, AwaitDelivery
<1>2. IsFiniteSet(AwaitOrder) /\ IsFiniteSet(AwaitDelivery)
  BY AwaitFinite DEF AwaitOrder, AwaitDelivery
<1>3. /\ Cardinality(AwaitOrder') <= Cardinality(AwaitOrder)
      /\ Cardinality(AwaitDelivery') <= Cardinality(AwaitDelivery)
  BY <1>1, <1>2, FS_Subset
<1>4. /\ Cardinality(AwaitOrder') \in Nat /\ Cardinality(AwaitOrder) \in Nat
      /\ Cardinality(AwaitDelivery') \in Nat /\ Cardinality(AwaitDelivery) \in Nat
  BY <1>1, AwaitFinite DEF AwaitOrder, AwaitDelivery
<1>5. nextOrder \in Nat /\ nextDelivery \in Nat /\ submitted \in Nat
  BY MaxOrderAssumption DEF TypeInv, TypeOK, DatabaseTypeOK
<1> QED
  BY <1>3, <1>4, <1>5 DEF TypeInv, CountOK

\* A step of one handler keeps the invariant if what it leaves is typed.
LEMMA StepOfOne ==
  ASSUME TypeInv, NEW w \in Worker,
         DatabaseTypeOK', submitted' \in 0 .. MaxOrder, CountOK',
         NEW p \in Control, pc' = [pc EXCEPT ![w] = p],
         loc' \in [Worker -> Local], \A v \in Worker \ {w} : loc'[v] = loc[v],
         reply' \in [Worker -> Reply],
         \A v \in Worker \ {w} : tx'[v] = tx[v],
         LocalsOK(p, loc'[w], tx'[w])
  PROVE  TypeInv'
<1>1. TypeOK'
  BY DEF TypeInv, TypeOK
<1>2. pc'[w] = p /\ \A v \in Worker \ {w} : pc'[v] = pc[v]
  BY DEF TypeInv, TypeOK
<1>3. ASSUME NEW v \in Worker PROVE LocalsOK(pc'[v], loc'[v], tx'[v])
  <2>1. CASE v = w
    BY <2>1, <1>2
  <2>2. CASE v # w
    <3>1. pc'[v] = pc[v] /\ loc'[v] = loc[v] /\ tx'[v] = tx[v]
      BY <2>2, <1>2
    <3> QED BY <3>1 DEF TypeInv
  <2> QED BY <2>1, <2>2
<1> QED
  BY <1>1, <1>3 DEF TypeInv

\* Do with an error: the transaction is gone, the handler answers.
LEMMA TypeAbort ==
  ASSUME TypeInv, NEW w \in Worker, NEW e \in Reply, Abort(w, e)
  PROVE  TypeInv'
<1>1. tx' = [tx EXCEPT ![w] = NoTx] /\ loc' = loc
  BY DEF Abort, RollbackTx
<1>2. DatabaseTypeOK'
  BY <1>1, NoTxType DEF Abort, TypeInv, TypeOK, DatabaseTypeOK
<1>3. pc' = [pc EXCEPT ![w] = "respond"] /\ pc'[w] = "respond"
  BY DEF Abort, Goto, TypeInv, TypeOK
<1>4. CountOK'
  <2>1. \A v \in Worker \ {w} : pc'[v] = pc[v]
    BY <1>3 DEF TypeInv, TypeOK
  <2> QED BY <2>1, <1>3, CountKept DEF Abort, BeforeOrder, BeforeDelivery
<1>5. LocalsOK("respond", loc'[w], tx'[w])
  BY DEF LocalsOK, InTx, BeforeOrder
<1>6. \A v \in Worker \ {w} : tx'[v] = tx[v]
  BY <1>1 DEF TypeInv, TypeOK, DatabaseTypeOK
<1> QED
  BY <1>1, <1>2, <1>3, <1>4, <1>5, <1>6, StepOfOne
     DEF Abort, Control, InTx, TypeInv, TypeOK

LEMMA TypeSubmitPlace ==
  ASSUME TypeInv, NEW w \in Worker, NEW cmd \in Cmds, SubmitPlace(w, cmd)
  PROVE  TypeInv'
<1> DEFINE l == [NoLocal EXCEPT !.op = "place", !.cmd = cmd]
<1>1. l \in Local /\ l.cmd = cmd /\ l.k = 1
  <2>1. NoLocal \in Local /\ NoLocal.k = 1
    BY NoLocalType DEF NoLocal
  <2> QED BY <2>1 DEF Local, Opt
<1>2. loc' = [loc EXCEPT ![w] = l] /\ UNCHANGED dbVars
  BY DEF SubmitPlace, Set
<1>3. /\ DatabaseTypeOK' /\ loc' \in [Worker -> Local] /\ loc'[w] = l
      /\ \A v \in Worker \ {w} : loc'[v] = loc[v] /\ tx'[v] = tx[v]
  BY <1>1, <1>2 DEF TypeInv, TypeOK, DatabaseTypeOK, dbVars
<1>4. CASE ~Valid(cmd)
  <2>1. pc' = [pc EXCEPT ![w] = "respond"] /\ pc'[w] = "respond"
        /\ reply' = [reply EXCEPT ![w] = "bad_param"] /\ submitted' = submitted
    BY <1>4 DEF SubmitPlace, Goto, TypeInv, TypeOK
  <2>2. CountOK'
    <3>1. \A v \in Worker \ {w} : pc'[v] = pc[v]
      BY <2>1 DEF TypeInv, TypeOK
    <3> QED BY <2>1, <3>1, <1>2, CountKept DEF dbVars, BeforeOrder, BeforeDelivery
  <2>3. LocalsOK("respond", loc'[w], tx'[w])
    BY DEF LocalsOK, InTx, BeforeOrder
  <2> QED
    BY <1>3, <2>1, <2>2, <2>3, StepOfOne DEF TypeInv, TypeOK, Reply, Control
<1>5. CASE Valid(cmd)
  <2>1. /\ pc' = [pc EXCEPT ![w] = "ensure"]
        /\ reply' = reply /\ submitted < MaxOrder /\ submitted' = submitted + 1
    BY <1>5 DEF SubmitPlace, Goto
  <2>2. submitted' \in 0 .. MaxOrder
    BY <2>1, MaxOrderAssumption DEF TypeInv, TypeOK
  <2>3. CountOK'
    <3>1. AwaitOrder' = AwaitOrder \cup {w} /\ AwaitDelivery' = AwaitDelivery \cup {w}
      BY <2>1 DEF TypeInv, TypeOK, AwaitOrder, AwaitDelivery, BeforeOrder, BeforeDelivery
    <3>2. /\ IsFiniteSet(AwaitOrder) /\ Cardinality(AwaitOrder) \in Nat
          /\ IsFiniteSet(AwaitDelivery) /\ Cardinality(AwaitDelivery) \in Nat
      BY AwaitFinite DEF AwaitOrder, AwaitDelivery
    <3>3. /\ Cardinality(AwaitOrder') <= Cardinality(AwaitOrder) + 1
          /\ Cardinality(AwaitDelivery') <= Cardinality(AwaitDelivery) + 1
          /\ Cardinality(AwaitOrder') \in Nat /\ Cardinality(AwaitDelivery') \in Nat
      <4>1. ASSUME NEW S, IsFiniteSet(S), Cardinality(S) \in Nat
            PROVE  /\ Cardinality(S \cup {w}) <= Cardinality(S) + 1
                   /\ Cardinality(S \cup {w}) \in Nat
        <5>1. IsFiniteSet(S \cup {w}) /\ Cardinality(S \cup {w}) \in {Cardinality(S), Cardinality(S) + 1}
          BY <4>1, FS_AddElement, Zenon
        <5> QED BY <4>1, <5>1
      <4> QED BY <3>1, <3>2, <4>1
    <3>4. nextOrder \in Nat /\ nextDelivery \in Nat /\ submitted \in Nat
      BY MaxOrderAssumption DEF TypeInv, TypeOK, DatabaseTypeOK
    <3> QED
      BY <3>2, <3>3, <3>4, <1>2, <2>1 DEF CountOK, TypeInv, dbVars
  <2>4. LocalsOK("ensure", l, tx'[w])
    <3>1. cmd \in PlaceCommand
      BY CmdsAssumption
    <3>2. cmd.lines \in Seq(Line) /\ cmd.lines # << >>
      BY <3>1, <1>5 DEF PlaceCommand, Valid
    <3>3. 1 \in DOMAIN cmd.lines
      BY <3>2
    <3> QED BY <1>1, <3>1, <3>3 DEF LocalsOK, InTx, BeforeOrder
  <2> QED
    BY <1>3, <2>1, <2>2, <2>3, <2>4, StepOfOne DEF TypeInv, TypeOK, Control
<1> QED
  BY <1>4, <1>5

LEMMA TypeEnsureExists ==
  ASSUME TypeInv, NEW w \in Worker, EnsureExists(w)
  PROVE  TypeInv'
<1>1. CASE Abort(w, "not_found")
  BY <1>1, TypeAbort DEF Reply
<1>2. CASE ~Abort(w, "not_found")
  <2>1. /\ TakeSnapshot(w) /\ pc[w] = "ensure" /\ pc' = [pc EXCEPT ![w] = "reserve"]
        /\ UNCHANGED <<db, nextOrder, nextDelivery, loc, reply, submitted>>
    BY <1>2 DEF EnsureExists, Goto
  <2>2. /\ tx' \in [Worker -> Transaction]
        /\ tx'[w].snap \in Tables
        /\ \A v \in Worker \ {w} : tx'[v] = tx[v]
    BY <2>1, TakeSnapshotType DEF TypeInv, TypeOK
  <2>3. pc'[w] = "reserve" /\ \A v \in Worker \ {w} : pc'[v] = pc[v]
    BY <2>1 DEF TypeInv, TypeOK
  <2>4. CountOK'
    BY <2>1, <2>3, CountKept DEF BeforeOrder, BeforeDelivery
  <2>5. LocalsOK("reserve", loc'[w], tx'[w])
    BY <2>1, <2>2 DEF TypeInv, LocalsOK, InTx, BeforeOrder
  <2> QED
    BY <2>1, <2>2, <2>4, <2>5, StepOfOne
       DEF TypeInv, TypeOK, DatabaseTypeOK, Control, InTx
<1> QED
  BY <1>1, <1>2

\* What a SELECT of an item returns.
LEMMA ItemSeenType ==
  ASSUME TypeInv, NEW w \in Worker, NEW i \in ItemId, pc[w] \in InTx
  PROVE  ItemSeen(w, i) \in Opt(ItemRow)
<1>1. tx[w].snap \in Tables /\ tx[w].writes \in Writes
  BY DEF TypeInv, TypeOK, DatabaseTypeOK, LocalsOK, Transaction
<1> QED
  BY <1>1 DEF ItemSeen, Version, Tables, Writes

LEMMA TypeReserve ==
  ASSUME TypeInv, NEW w \in Worker, Reserve(w)
  PROVE  TypeInv'
<1> DEFINE line == loc[w].cmd.lines[loc[w].k]
           row  == ItemSeen(w, line.item)
           it   == [id |-> line.item, price |-> row.price, stock |-> row.stock - line.count]
           l    == [loc[w] EXCEPT !.it = it]
<1>1. CASE Abort(w, "not_found") \/ Abort(w, "insufficient_stock")
  BY <1>1, TypeAbort DEF Reply
<1>2. CASE ~(Abort(w, "not_found") \/ Abort(w, "insufficient_stock"))
  <2>1. /\ pc[w] = "reserve" /\ pc' = [pc EXCEPT ![w] = "reserved"]
        /\ row # NULL /\ loc' = [loc EXCEPT ![w] = l]
        /\ UNCHANGED <<db, nextOrder, nextDelivery, tx, reply, submitted>>
    BY <1>2 DEF Reserve, Goto, Set
  <2>2. LocalsOK("reserve", loc[w], tx[w]) /\ loc[w] \in Local
    BY <2>1 DEF TypeInv, TypeOK
  <2>3. line \in Line
    BY <2>2 DEF LocalsOK, BeforeOrder, PlaceCommand
  <2>4. row \in ItemRow
    BY <2>1, <2>3, ItemSeenType DEF Line, InTx, Opt
  <2>5. it \in Item
    BY <2>3, <2>4 DEF Line, ItemRow, Item, Int32
  <2> HIDE DEF it
  <2>6. l \in Local /\ l.it = it /\ l.cmd = loc[w].cmd /\ l.k = loc[w].k
    BY <2>2, <2>5 DEF Local, Opt
  <2> HIDE DEF l
  <2>7. pc'[w] = "reserved" /\ \A v \in Worker \ {w} : pc'[v] = pc[v]
    BY <2>1 DEF TypeInv, TypeOK
  <2>8. CountOK'
    BY <2>1, <2>7, CountKept DEF BeforeOrder, BeforeDelivery
  <2>9. LocalsOK("reserved", l, tx'[w])
    BY <2>1, <2>2, <2>5, <2>6 DEF LocalsOK, InTx, BeforeOrder
  <2> QED
    BY <2>1, <2>6, <2>8, <2>9, StepOfOne
       DEF TypeInv, TypeOK, DatabaseTypeOK, Control, InTx
<1> QED
  BY <1>1, <1>2

\* repo.UpdateStock of a handler holding a read item.
LEMMA UpdateStockType ==
  ASSUME TypeInv, NEW w \in Worker, pc[w] \in {"reserved", "restored"}, UpdateStock(w)
  PROVE  /\ tx' \in [Worker -> Transaction]
         /\ tx'[w].snap = tx[w].snap
         /\ \A v \in Worker \ {w} : tx'[v] = tx[v]
<1>1. loc[w].it \in Item
  BY DEF TypeInv, LocalsOK
<1>2. loc[w].it.id \in ItemId /\ ToInt32(loc[w].it.stock) \in Int32
  BY <1>1, ToInt32Type DEF Item
<1> QED
  BY <1>2, UpdateItemStockType DEF UpdateStock, TypeInv, TypeOK

LEMMA TypeReserveUpdate ==
  ASSUME TypeInv, NEW w \in Worker, ReserveUpdate(w)
  PROVE  TypeInv'
<1> DEFINE cmd  == loc[w].cmd
           k    == loc[w].k
           it   == loc[w].it
           last == k = Len(cmd.lines)
           oi   == [item |-> it.id, price |-> it.price, count |-> cmd.lines[k].count]
           cart == Append(loc[w].cart, oi)
           n    == IF last THEN 1 ELSE k + 1
           l    == [loc[w] EXCEPT !.cart = cart, !.it = NULL, !.k = n]
           p    == IF last THEN "delivery" ELSE "reserve"
<1>1. /\ pc[w] = "reserved" /\ UpdateStock(w)
      /\ loc' = [loc EXCEPT ![w] = l] /\ pc' = [pc EXCEPT ![w] = p]
      /\ UNCHANGED <<db, nextOrder, nextDelivery, reply, submitted>>
  BY DEF ReserveUpdate, Set, Goto
<1>2. /\ cmd \in PlaceCommand /\ k \in DOMAIN cmd.lines /\ it \in Item
      /\ tx[w].snap \in Tables /\ loc[w] \in Local
  BY <1>1 DEF TypeInv, TypeOK, LocalsOK, InTx, BeforeOrder
<1>3. cmd.lines \in Seq(Line) /\ cmd.lines[k] \in Line /\ k \in 1 .. Len(cmd.lines)
  BY <1>2 DEF PlaceCommand
<1>4. oi \in OrderItem
  BY <1>2, <1>3 DEF OrderItem, Item, Line
<1>5. cart \in Seq(OrderItem) /\ 1 \in DOMAIN cart
  <2> HIDE DEF oi
  <2> QED BY <1>2, <1>4 DEF Local
<1>6. n \in Nat \ {0} /\ (~last => n \in DOMAIN cmd.lines) /\ (last => n = 1)
  BY <1>3
<1> HIDE DEF cart, n, last
<1>7. l \in Local /\ l.cart = cart /\ l.k = n /\ l.cmd = cmd
  BY <1>2, <1>5, <1>6 DEF Local, Opt
<1> HIDE DEF l
<1>8. /\ tx' \in [Worker -> Transaction] /\ tx'[w].snap = tx[w].snap
      /\ \A v \in Worker \ {w} : tx'[v] = tx[v]
  BY <1>1, UpdateStockType
<1>9. LocalsOK(p, l, tx'[w])
  BY <1>2, <1>5, <1>6, <1>7, <1>8 DEF LocalsOK, InTx, BeforeOrder
<1>10. pc'[w] = p /\ p \in {"delivery", "reserve"} /\ \A v \in Worker \ {w} : pc'[v] = pc[v]
  BY <1>1 DEF TypeInv, TypeOK
<1>11. CountOK'
  BY <1>1, <1>10, CountKept DEF BeforeOrder, BeforeDelivery
<1> QED
  BY <1>1, <1>7, <1>8, <1>9, <1>10, <1>11, StepOfOne
     DEF TypeInv, TypeOK, DatabaseTypeOK, Control, InTx

\* An id is left for every handler that has yet to take one.
LEMMA IdLeft ==
  ASSUME TypeInv, NEW w \in Worker
  PROVE  /\ pc[w] \in BeforeOrder => nextOrder \in OrderId
         /\ pc[w] \in BeforeDelivery => nextDelivery \in DeliveryId
<1>1. /\ nextOrder \in Nat \ {0} /\ nextDelivery \in Nat \ {0}
      /\ submitted \in Nat /\ submitted <= MaxOrder
  BY MaxOrderAssumption DEF TypeInv, TypeOK, DatabaseTypeOK
<1>2. ASSUME NEW S \in SUBSET Worker, w \in S PROVE Cardinality(S) \in Nat \ {0}
  <2>1. IsFiniteSet(S) /\ Cardinality(S) \in Nat
    BY AwaitFinite
  <2>2. S # {}
    BY <1>2
  <2> QED BY <2>1, <2>2, FS_EmptySet
<1>3. ASSUME pc[w] \in BeforeOrder PROVE nextOrder \in OrderId
  <2>1. w \in AwaitOrder /\ AwaitOrder \in SUBSET Worker
    BY <1>3 DEF AwaitOrder
  <2>2. Cardinality(AwaitOrder) \in Nat \ {0}
    BY <2>1, <1>2
  <2> QED BY <1>1, <2>2, MaxOrderAssumption DEF TypeInv, CountOK, OrderId
<1>4. ASSUME pc[w] \in BeforeDelivery PROVE nextDelivery \in DeliveryId
  <2>1. w \in AwaitDelivery /\ AwaitDelivery \in SUBSET Worker
    BY <1>4 DEF AwaitDelivery
  <2>2. Cardinality(AwaitDelivery) \in Nat \ {0}
    BY <2>1, <1>2
  <2> QED BY <1>1, <2>2, MaxOrderAssumption DEF TypeInv, CountOK, DeliveryId
<1> QED
  BY <1>3, <1>4

\* One handler fewer waits for an id.
LEMMA OneFewer ==
  ASSUME NEW S \in SUBSET Worker, NEW w \in S
  PROVE  /\ Cardinality(S) \in Nat
         /\ Cardinality(S \ {w}) = Cardinality(S) - 1
BY AwaitFinite, FS_RemoveElement, Zenon

LEMMA TypeCreateDelivery ==
  ASSUME TypeInv, NEW w \in Worker, CreateDelivery(w)
  PROVE  TypeInv'
<1> DEFINE l == [loc[w] EXCEPT !.dlv = nextDelivery]
<1>1. /\ pc[w] = "delivery" /\ InsertDelivery(w)
      /\ loc' = [loc EXCEPT ![w] = l] /\ pc' = [pc EXCEPT ![w] = "order"]
      /\ nextDelivery' = nextDelivery + 1
      /\ UNCHANGED <<db, nextOrder, reply, submitted>>
  BY DEF CreateDelivery, InsertDelivery, Set, Goto
<1>2. nextDelivery \in DeliveryId
  BY <1>1, IdLeft DEF BeforeDelivery, BeforeOrder
<1>3. loc[w] \in Local /\ LocalsOK("delivery", loc[w], tx[w])
  BY <1>1 DEF TypeInv, TypeOK
<1>4. l \in Local /\ l.dlv \in DeliveryId /\ l.cmd = loc[w].cmd /\ l.k = loc[w].k
      /\ l.cart = loc[w].cart
  BY <1>2, <1>3 DEF Local
<1> HIDE DEF l
<1>5. /\ tx' \in [Worker -> Transaction] /\ tx'[w].snap = tx[w].snap
      /\ \A v \in Worker \ {w} : tx'[v] = tx[v]
  BY <1>1, <1>2, InsertDeliveryType DEF TypeInv, TypeOK
<1>6. LocalsOK("order", l, tx'[w])
  BY <1>3, <1>4, <1>5 DEF LocalsOK, InTx, BeforeOrder
<1>7. CountOK'
  <2>1. AwaitOrder' = AwaitOrder /\ AwaitDelivery' = AwaitDelivery \ {w} /\ w \in AwaitDelivery
    BY <1>1 DEF TypeInv, TypeOK, AwaitOrder, AwaitDelivery, BeforeOrder, BeforeDelivery
  <2>2. Cardinality(AwaitDelivery') = Cardinality(AwaitDelivery) - 1
        /\ Cardinality(AwaitDelivery) \in Nat
    BY <2>1, OneFewer DEF AwaitDelivery
  <2>3. nextDelivery \in Nat /\ submitted \in Nat
    BY MaxOrderAssumption DEF TypeInv, TypeOK, DatabaseTypeOK
  <2>4. nextDelivery' + Cardinality(AwaitDelivery') <= submitted' + 1
    BY <1>1, <2>2, <2>3 DEF TypeInv, CountOK
  <2> QED BY <1>1, <2>1, <2>4 DEF TypeInv, CountOK
<1>8. DatabaseTypeOK'
  <2>1. nextDelivery \in Nat \ {0} /\ nextDelivery' = nextDelivery + 1
    BY <1>1 DEF TypeInv, TypeOK, DatabaseTypeOK
  <2>2. nextDelivery' \in Nat \ {0}
    BY <2>1
  <2> QED BY <1>1, <1>5, <2>2 DEF TypeInv, TypeOK, DatabaseTypeOK
<1> QED
  BY <1>1, <1>4, <1>5, <1>6, <1>7, <1>8, StepOfOne DEF TypeInv, TypeOK, Control, InTx

LEMMA TypeCreateOrder ==
  ASSUME TypeInv, NEW w \in Worker, CreateOrder(w)
  PROVE  TypeInv'
<1> DEFINE l   == [loc[w] EXCEPT !.id = nextOrder]
           row == [member |-> loc[w].cmd.member, delivery |-> loc[w].dlv, status |-> "ORDER"]
<1>1. /\ pc[w] = "order" /\ InsertOrder(w, row)
      /\ loc' = [loc EXCEPT ![w] = l] /\ pc' = [pc EXCEPT ![w] = "orderItem"]
      /\ nextOrder' = nextOrder + 1
      /\ UNCHANGED <<db, nextDelivery, reply, submitted>>
  BY DEF CreateOrder, InsertOrder, Set, Goto
<1>2. nextOrder \in OrderId
  BY <1>1, IdLeft DEF BeforeOrder
<1>3. loc[w] \in Local /\ LocalsOK("order", loc[w], tx[w])
  BY <1>1 DEF TypeInv, TypeOK
<1>4. row \in OrderRow
  BY <1>3 DEF LocalsOK, BeforeOrder, PlaceCommand, OrderRow, OrderStatus
<1>5. l \in Local /\ l.id \in OrderId /\ l.cmd = loc[w].cmd /\ l.k = loc[w].k
      /\ l.cart = loc[w].cart /\ l.dlv = loc[w].dlv
  BY <1>2, <1>3 DEF Local
<1> HIDE DEF l, row
<1>6. /\ tx' \in [Worker -> Transaction] /\ tx'[w].snap = tx[w].snap
      /\ \A v \in Worker \ {w} : tx'[v] = tx[v]
  BY <1>1, <1>2, <1>4, InsertOrderType DEF TypeInv, TypeOK
<1>7. LocalsOK("orderItem", l, tx'[w])
  BY <1>3, <1>5, <1>6 DEF LocalsOK, InTx, BeforeOrder
<1>8. CountOK'
  <2>1. AwaitOrder' = AwaitOrder \ {w} /\ AwaitDelivery' = AwaitDelivery /\ w \in AwaitOrder
    BY <1>1 DEF TypeInv, TypeOK, AwaitOrder, AwaitDelivery, BeforeOrder, BeforeDelivery
  <2>2. Cardinality(AwaitOrder') = Cardinality(AwaitOrder) - 1
        /\ Cardinality(AwaitOrder) \in Nat
    BY <2>1, OneFewer DEF AwaitOrder
  <2>3. nextOrder \in Nat /\ submitted \in Nat
    BY MaxOrderAssumption DEF TypeInv, TypeOK, DatabaseTypeOK
  <2>4. nextOrder' + Cardinality(AwaitOrder') <= submitted' + 1
    BY <1>1, <2>2, <2>3 DEF TypeInv, CountOK
  <2> QED BY <1>1, <2>1, <2>4 DEF TypeInv, CountOK
<1>9. DatabaseTypeOK'
  <2>1. nextOrder \in Nat \ {0} /\ nextOrder' = nextOrder + 1
    BY <1>1 DEF TypeInv, TypeOK, DatabaseTypeOK
  <2>2. nextOrder' \in Nat \ {0}
    BY <2>1
  <2> QED BY <1>1, <1>6, <2>2 DEF TypeInv, TypeOK, DatabaseTypeOK
<1> QED
  BY <1>1, <1>5, <1>6, <1>7, <1>8, <1>9, StepOfOne DEF TypeInv, TypeOK, Control, InTx

LEMMA TypeCreateOrderItem ==
  ASSUME TypeInv, NEW w \in Worker, CreateOrderItem(w)
  PROVE  TypeInv'
<1> DEFINE k    == loc[w].k
           oi   == loc[w].cart[k]
           line == [order |-> loc[w].id, pos |-> k, item |-> oi.item,
                    price |-> ToInt32(oi.price), count |-> ToInt32(oi.count)]
           l    == [loc[w] EXCEPT !.k = k + 1]
           p    == IF LastLine(w) THEN "commit" ELSE "orderItem"
<1>1. /\ pc[w] = "orderItem" /\ InsertOrderItem(w, line)
      /\ loc' = [loc EXCEPT ![w] = l] /\ pc' = [pc EXCEPT ![w] = p]
      /\ UNCHANGED <<db, nextOrder, nextDelivery, reply, submitted>>
  BY DEF CreateOrderItem, Set, Goto
<1>2. loc[w] \in Local /\ LocalsOK("orderItem", loc[w], tx[w])
  BY <1>1 DEF TypeInv, TypeOK
<1>3. k \in 1 .. Len(loc[w].cart) /\ oi \in OrderItem
  BY <1>2 DEF LocalsOK, Local
<1>4. oi.price \in Int /\ oi.count \in Int /\ oi.item \in ItemId
  BY <1>3, IntMaxAssumption DEF OrderItem, Int32
<1>5. line \in LineRow
  BY <1>2, <1>3, <1>4, ToInt32Type DEF LocalsOK, LineRow
<1>6. l \in Local /\ l.id = loc[w].id /\ l.cmd = loc[w].cmd /\ l.k = k + 1
      /\ l.cart = loc[w].cart /\ l.dlv = loc[w].dlv
  BY <1>2, <1>3 DEF Local
<1>7. ~LastLine(w) => k + 1 \in DOMAIN loc[w].cart
  BY <1>2, <1>3 DEF LastLine, Local
<1> HIDE DEF l, line
<1>8. /\ tx' \in [Worker -> Transaction] /\ tx'[w].snap = tx[w].snap
      /\ \A v \in Worker \ {w} : tx'[v] = tx[v]
  BY <1>1, <1>5, InsertOrderItemType DEF TypeInv, TypeOK
<1>9. LocalsOK(p, l, tx'[w])
  BY <1>2, <1>6, <1>7, <1>8 DEF LocalsOK, InTx, BeforeOrder
<1>10. pc'[w] = p /\ p \in {"commit", "orderItem"} /\ \A v \in Worker \ {w} : pc'[v] = pc[v]
  BY <1>1 DEF TypeInv, TypeOK
<1>11. CountOK'
  BY <1>1, <1>10, CountKept DEF BeforeOrder, BeforeDelivery
<1>12. DatabaseTypeOK'
  BY <1>1, <1>8 DEF TypeInv, TypeOK, DatabaseTypeOK
<1> HIDE DEF p
<1> QED
  BY <1>1, <1>6, <1>8, <1>9, <1>10, <1>11, <1>12, StepOfOne
     DEF TypeInv, TypeOK, Control, InTx

LEMMA TypeSubmitCancel ==
  ASSUME TypeInv, NEW w \in Worker, NEW o \in OrderId \cup {0}, SubmitCancel(w, o)
  PROVE  TypeInv'
<1> DEFINE l == [NoLocal EXCEPT !.op = "cancel", !.id = o]
           p == IF o = 0 THEN "respond" ELSE "load"
<1>1. /\ loc' = [loc EXCEPT ![w] = l] /\ pc' = [pc EXCEPT ![w] = p]
      /\ UNCHANGED <<db, nextOrder, nextDelivery, tx, submitted>>
      /\ reply' \in {reply, [reply EXCEPT ![w] = "bad_param"]}
  BY DEF SubmitCancel, Set, Goto
<1>2. l \in Local /\ l.id = o
  BY NoLocalType DEF Local
<1>3. p \in {"load", "respond"} /\ (p = "load" => o \in OrderId)
  OBVIOUS
<1> HIDE DEF l, p
<1>4. LocalsOK(p, l, tx'[w])
  BY <1>2, <1>3 DEF LocalsOK, InTx, BeforeOrder
<1>5. pc'[w] = p /\ \A v \in Worker \ {w} : pc'[v] = pc[v]
  BY <1>1 DEF TypeInv, TypeOK
<1>6. CountOK'
  BY <1>1, <1>3, <1>5, CountKept DEF BeforeOrder, BeforeDelivery
<1>7. reply' \in [Worker -> Reply]
  BY <1>1 DEF TypeInv, TypeOK, Reply
<1> QED
  BY <1>1, <1>2, <1>3, <1>4, <1>6, <1>7, StepOfOne
     DEF TypeInv, TypeOK, DatabaseTypeOK, Control

LEMMA TypeLoadOrder ==
  ASSUME TypeInv, NEW w \in Worker, LoadOrder(w)
  PROVE  TypeInv'
<1> DEFINE lines == {l \in db.orderItem : l.order = loc[w].id}
           l     == [loc[w] EXCEPT !.todo = lines]
           p     == IF lines = {} THEN "status" ELSE "restore"
<1>1. CASE Abort(w, "not_found") \/ Abort(w, "already_canceled")
  BY <1>1, TypeAbort DEF Reply
<1>2. CASE ~(Abort(w, "not_found") \/ Abort(w, "already_canceled"))
  <2>1. /\ pc[w] = "load" /\ TakeSnapshot(w)
        /\ loc' = [loc EXCEPT ![w] = l] /\ pc' = [pc EXCEPT ![w] = p]
        /\ UNCHANGED <<db, nextOrder, nextDelivery, reply, submitted>>
    BY <1>2 DEF LoadOrder, LinesOf, Set, Goto
  <2>2. loc[w] \in Local /\ LocalsOK("load", loc[w], tx[w])
    BY <2>1 DEF TypeInv, TypeOK
  <2>3. lines \subseteq LineRow
    BY DEF TypeInv, TypeOK, DatabaseTypeOK, Tables
  <2>4. l \in Local /\ l.id = loc[w].id
    <3> HIDE DEF lines
    <3> QED BY <2>2, <2>3 DEF Local
  <2> HIDE DEF l
  <2>5. /\ tx' \in [Worker -> Transaction] /\ tx'[w].snap \in Tables
        /\ \A v \in Worker \ {w} : tx'[v] = tx[v]
    BY <2>1, TakeSnapshotType DEF TypeInv, TypeOK
  <2>6. p \in {"status", "restore"}
    OBVIOUS
  <2> HIDE DEF p
  <2>7. LocalsOK(p, l, tx'[w])
    BY <2>2, <2>4, <2>5, <2>6 DEF LocalsOK, InTx, BeforeOrder
  <2>8. pc'[w] = p /\ \A v \in Worker \ {w} : pc'[v] = pc[v]
    BY <2>1 DEF TypeInv, TypeOK
  <2>9. CountOK'
    BY <2>1, <2>6, <2>8, CountKept DEF BeforeOrder, BeforeDelivery
  <2> QED
    BY <2>1, <2>4, <2>5, <2>6, <2>7, <2>9, StepOfOne
       DEF TypeInv, TypeOK, DatabaseTypeOK, Control, InTx
<1> QED
  BY <1>1, <1>2

LEMMA TypeRestore ==
  ASSUME TypeInv, NEW w \in Worker, Restore(w)
  PROVE  TypeInv'
<1>1. CASE Abort(w, "not_found")
  BY <1>1, TypeAbort DEF Reply
<1>2. CASE ~Abort(w, "not_found")
  <2>1. PICK line \in loc[w].todo : ItemSeen(w, line.item) # NULL /\
          LET row == ItemSeen(w, line.item)
          IN  Set(w, [loc[w] EXCEPT !.todo = @ \ {line},
                                    !.it = [id    |-> line.item,
                                            price |-> row.price,
                                            stock |-> AddStock(row, line.count)]])
    BY <1>2 DEF Restore
  <2> DEFINE row == ItemSeen(w, line.item)
             it  == [id |-> line.item, price |-> row.price, stock |-> AddStock(row, line.count)]
             l   == [loc[w] EXCEPT !.todo = @ \ {line}, !.it = it]
  <2>2. /\ pc[w] = "restore" /\ pc' = [pc EXCEPT ![w] = "restored"]
        /\ row # NULL /\ loc' = [loc EXCEPT ![w] = l]
        /\ UNCHANGED <<db, nextOrder, nextDelivery, tx, reply, submitted>>
    BY <1>2, <2>1 DEF Restore, Goto, Set
  <2>3. loc[w] \in Local /\ LocalsOK("restore", loc[w], tx[w])
    BY <2>2 DEF TypeInv, TypeOK
  <2>4. line \in LineRow
    BY <2>3 DEF Local
  <2>5. row \in ItemRow
    BY <2>2, <2>4, ItemSeenType DEF LineRow, InTx, Opt
  <2>6. it \in Item
    BY <2>4, <2>5, IntMaxAssumption DEF AddStock, LineRow, ItemRow, Item, Int32
  <2> HIDE DEF it
  <2>7. l \in Local /\ l.it = it /\ l.id = loc[w].id
    BY <2>3, <2>6 DEF Local, Opt
  <2> HIDE DEF l
  <2>8. pc'[w] = "restored" /\ \A v \in Worker \ {w} : pc'[v] = pc[v]
    BY <2>2 DEF TypeInv, TypeOK
  <2>9. CountOK'
    BY <2>2, <2>8, CountKept DEF BeforeOrder, BeforeDelivery
  <2>10. LocalsOK("restored", l, tx'[w])
    BY <2>2, <2>3, <2>6, <2>7 DEF LocalsOK, InTx, BeforeOrder
  <2> QED
    BY <2>2, <2>7, <2>9, <2>10, StepOfOne
       DEF TypeInv, TypeOK, DatabaseTypeOK, Control, InTx
<1> QED
  BY <1>1, <1>2

LEMMA TypeRestoreUpdate ==
  ASSUME TypeInv, NEW w \in Worker, RestoreUpdate(w)
  PROVE  TypeInv'
<1> DEFINE l == [loc[w] EXCEPT !.it = NULL]
           p == IF loc[w].todo = {} THEN "status" ELSE "restore"
<1>1. /\ pc[w] = "restored" /\ UpdateStock(w)
      /\ loc' = [loc EXCEPT ![w] = l] /\ pc' = [pc EXCEPT ![w] = p]
      /\ UNCHANGED <<db, nextOrder, nextDelivery, reply, submitted>>
  BY DEF RestoreUpdate, Set, Goto
<1>2. loc[w] \in Local /\ LocalsOK("restored", loc[w], tx[w])
  BY <1>1 DEF TypeInv, TypeOK
<1>3. l \in Local /\ l.id = loc[w].id
  BY <1>2 DEF Local, Opt
<1> HIDE DEF l
<1>4. /\ tx' \in [Worker -> Transaction] /\ tx'[w].snap = tx[w].snap
      /\ \A v \in Worker \ {w} : tx'[v] = tx[v]
  BY <1>1, UpdateStockType
<1>5. p \in {"status", "restore"}
  OBVIOUS
<1> HIDE DEF p
<1>6. LocalsOK(p, l, tx'[w])
  BY <1>2, <1>3, <1>4, <1>5 DEF LocalsOK, InTx, BeforeOrder
<1>7. pc'[w] = p /\ \A v \in Worker \ {w} : pc'[v] = pc[v]
  BY <1>1 DEF TypeInv, TypeOK
<1>8. CountOK'
  BY <1>1, <1>5, <1>7, CountKept DEF BeforeOrder, BeforeDelivery
<1> QED
  BY <1>1, <1>3, <1>4, <1>5, <1>6, <1>8, StepOfOne
     DEF TypeInv, TypeOK, DatabaseTypeOK, Control, InTx

LEMMA TypeUpdateStatus ==
  ASSUME TypeInv, NEW w \in Worker, UpdateStatus(w)
  PROVE  TypeInv'
<1>1. /\ pc[w] = "status" /\ UpdateOrderStatus(w, loc[w].id, "CANCEL")
      /\ pc' = [pc EXCEPT ![w] = "commit"]
      /\ UNCHANGED <<db, nextOrder, nextDelivery, loc, reply, submitted>>
  BY DEF UpdateStatus, Goto
<1>2. LocalsOK("status", loc[w], tx[w])
  BY <1>1 DEF TypeInv
<1>3. loc[w].id \in OrderId /\ "CANCEL" \in OrderStatus
  BY <1>2 DEF LocalsOK, OrderStatus
<1>4. /\ tx' \in [Worker -> Transaction] /\ tx'[w].snap = tx[w].snap
      /\ \A v \in Worker \ {w} : tx'[v] = tx[v]
  BY <1>1, <1>3, UpdateOrderStatusType DEF TypeInv, TypeOK
<1>5. LocalsOK("commit", loc'[w], tx'[w])
  BY <1>1, <1>2, <1>4 DEF LocalsOK, InTx, BeforeOrder
<1>6. pc'[w] = "commit" /\ \A v \in Worker \ {w} : pc'[v] = pc[v]
  BY <1>1 DEF TypeInv, TypeOK
<1>7. CountOK'
  BY <1>1, <1>6, CountKept DEF BeforeOrder, BeforeDelivery
<1> QED
  BY <1>1, <1>4, <1>5, <1>7, StepOfOne
     DEF TypeInv, TypeOK, DatabaseTypeOK, Control, InTx

\* Both outcomes of a COMMIT.
LEMMA TypeCommit ==
  ASSUME TypeInv, NEW w \in Worker, Commit(w) \/ CommitUnacknowledged(w)
  PROVE  TypeInv'
<1>1. /\ pc[w] = "commit" /\ pc' = [pc EXCEPT ![w] = "respond"]
      /\ db' = Committed(w) /\ tx' = [tx EXCEPT ![w] = NoTx]
      /\ UNCHANGED <<nextOrder, nextDelivery, loc, submitted>>
  BY DEF Commit, CommitUnacknowledged, CommitTx, Goto
<1>2. reply' \in [Worker -> Reply]
  BY DEF Commit, CommitUnacknowledged, Success, Reply, TypeInv, TypeOK
<1>3. db' \in Tables
  BY <1>1, CommittedType DEF TypeInv, TypeOK
<1>4. DatabaseTypeOK'
  BY <1>1, <1>3, NoTxType DEF TypeInv, TypeOK, DatabaseTypeOK
<1>5. LocalsOK("respond", loc'[w], tx'[w])
  BY DEF LocalsOK, InTx, BeforeOrder
<1>6. pc'[w] = "respond" /\ \A v \in Worker \ {w} : pc'[v] = pc[v] /\ tx'[v] = tx[v]
  BY <1>1 DEF TypeInv, TypeOK, DatabaseTypeOK
<1>7. CountOK'
  BY <1>1, <1>6, CountKept DEF BeforeOrder, BeforeDelivery
<1> QED
  BY <1>1, <1>2, <1>4, <1>5, <1>6, <1>7, StepOfOne DEF TypeInv, TypeOK, Control

LEMMA TypeRespond ==
  ASSUME TypeInv, NEW w \in Worker, Respond(w)
  PROVE  TypeInv'
<1>1. /\ pc' = [pc EXCEPT ![w] = "idle"] /\ loc' = [loc EXCEPT ![w] = NoLocal]
      /\ reply' = [reply EXCEPT ![w] = "none"]
      /\ UNCHANGED <<db, nextOrder, nextDelivery, tx, submitted>>
  BY DEF Respond, Set, Goto
<1>2. LocalsOK("idle", loc'[w], tx'[w])
  BY DEF LocalsOK, InTx, BeforeOrder
<1>3. pc'[w] = "idle" /\ \A v \in Worker \ {w} : pc'[v] = pc[v]
  BY <1>1 DEF TypeInv, TypeOK
<1>4. CountOK'
  BY <1>1, <1>3, CountKept DEF BeforeOrder, BeforeDelivery
<1> QED
  BY <1>1, <1>2, <1>4, NoLocalType, StepOfOne
     DEF TypeInv, TypeOK, DatabaseTypeOK, Control, Reply

LEMMA TypeCrash ==
  ASSUME TypeInv, Crash
  PROVE  TypeInv'
<1>1. TypeOK'
  BY NoTxType, NoLocalType DEF Crash, TypeInv, TypeOK, DatabaseTypeOK, Control, Reply
<1>2. \A w \in Worker : LocalsOK(pc'[w], loc'[w], tx'[w])
  BY DEF Crash, LocalsOK, InTx, BeforeOrder
<1>3. AwaitOrder' = {} /\ AwaitDelivery' = {}
  BY DEF Crash, AwaitOrder, AwaitDelivery, BeforeOrder, BeforeDelivery
<1>4. /\ nextOrder \in Nat /\ nextDelivery \in Nat /\ submitted \in Nat
      /\ Cardinality(AwaitOrder) \in Nat /\ Cardinality(AwaitDelivery) \in Nat
  BY MaxOrderAssumption, AwaitFinite
     DEF TypeInv, TypeOK, DatabaseTypeOK, AwaitOrder, AwaitDelivery
<1>5. UNCHANGED <<nextOrder, nextDelivery, submitted>>
  BY DEF Crash
<1>6. Cardinality(AwaitOrder') = 0 /\ Cardinality(AwaitDelivery') = 0
  BY <1>3, FS_EmptySet
<1>7. CountOK'
  BY <1>4, <1>5, <1>6 DEF CountOK, TypeInv
<1> QED
  BY <1>1, <1>2, <1>7 DEF TypeInv

\* A write of another context changes the committed tables only.
LEMMA TypeElsewhere ==
  ASSUME TypeInv, db' \in Tables,
         UNCHANGED <<nextOrder, nextDelivery, tx, pc, loc, reply, submitted>>
  PROVE  TypeInv'
BY DEF TypeInv, TypeOK, DatabaseTypeOK, CountOK, AwaitOrder, AwaitDelivery

LEMMA TypeItemWrite ==
  ASSUME TypeInv, NEW i \in ItemId, NEW r \in CatalogRows,
         CreateItem(i, r) \/ ReplaceItem(i, r)
  PROVE  TypeInv'
<1> DEFINE row == [price |-> ToInt32(r.price), stock |-> ToInt32(r.stock)]
<1>1. row \in ItemRow
  <2>1. r.price \in Int /\ r.stock \in Int
    BY CatalogAssumption
  <2> QED BY <2>1, ToInt32Type DEF ItemRow
<1>2. db' = [db EXCEPT !.item[i] = row]
  BY DEF CreateItem, ReplaceItem, InsertItem, UpdateItem
<1> HIDE DEF row
<1>3. db' \in Tables
  BY <1>1, <1>2 DEF TypeInv, TypeOK, DatabaseTypeOK, Tables, Opt
<1> QED
  BY <1>3, TypeElsewhere DEF CreateItem, ReplaceItem, handlerVars

LEMMA TypeRegister ==
  ASSUME TypeInv, NEW m \in MemberId, Register(m)
  PROVE  TypeInv'
<1>1. db' \in Tables
  BY DEF Register, InsertMember, TypeInv, TypeOK, DatabaseTypeOK, Tables
<1> QED
  BY <1>1, TypeElsewhere DEF Register, handlerVars

LEMMA TypeNext == TypeInv /\ [Next]_vars => TypeInv'
<1> SUFFICES ASSUME TypeInv, [Next]_vars PROVE TypeInv'
  OBVIOUS
<1>1. CASE UNCHANGED vars
  BY <1>1 DEF vars, TypeInv, TypeOK, DatabaseTypeOK, CountOK, AwaitOrder, AwaitDelivery
<1>2. ASSUME NEW w \in Worker, Statement(w) PROVE TypeInv'
  BY <1>2, TypeEnsureExists, TypeReserve, TypeReserveUpdate, TypeCreateDelivery,
     TypeCreateOrder, TypeCreateOrderItem, TypeLoadOrder, TypeRestore, TypeRestoreUpdate,
     TypeUpdateStatus, TypeCommit, TypeRespond DEF Statement
<1>3. ASSUME NEW w \in Worker, StatementFails(w) \/ DeadlockVictim(w) PROVE TypeInv'
  <2>1. Abort(w, "internal")
    BY <1>3 DEF StatementFails, DeadlockVictim
  <2> QED BY <2>1, TypeAbort DEF Reply
<1> QED
  BY <1>1, <1>2, <1>3, TypeSubmitPlace, TypeSubmitCancel, TypeCommit, TypeCrash,
     TypeRegister, TypeItemWrite DEF Next, Handlers, OtherContexts, CatalogWrites

\* Every variable of the specification always has its type: amounts fit their
\* INT columns, ids their tables, and no handler uses a local before it is set.
THEOREM TypeCorrect == Spec => []TypeOK
<1>1. TypeInv => TypeOK
  BY DEF TypeInv
<1> QED
  BY <1>1, TypeInit, TypeNext, PTL DEF Spec

-----------------------------------------------------------------------------
(* Locks: two open transactions never hold the same row, and no request     *)
(* leaves its transaction behind.                                           *)

(* NoLeakedTransaction is not inductive: an inserted order's lock is free   *)
(* only because its id is new.  So: every order row that exists, is locked  *)
(* or is about to be, has an id already given out.                          *)
LockInv ==
    /\ NoLeakedTransaction
    /\ \A o \in OrderId : db.orders[o] # NULL => o < nextOrder
    /\ \A w \in Worker :
         /\ \A o \in OrderId : OrderLock(o) \in tx[w].locks => o < nextOrder
         /\ pc[w] \in {"restore", "restored", "status"} => loc[w].id < nextOrder

\* What LockInv says of one handler, at p with locals l and transaction t, when
\* n is the next order id.
HandlerLocksOK(p, l, t, n) ==
    /\ \A i \in ItemId : t.writes.item[i] # NULL => ItemLock(i) \in t.locks
    /\ \A o \in OrderId : t.writes.orders[o] # NULL => OrderLock(o) \in t.locks
    /\ p \notin InTx => t = NoTx
    /\ \A o \in OrderId : OrderLock(o) \in t.locks => o < n
    /\ p \in {"restore", "restored", "status"} => l.id < n

LEMMA LockHandler ==
  ASSUME LockInv, NEW w \in Worker
  PROVE  HandlerLocksOK(pc[w], loc[w], tx[w], nextOrder)
BY DEF LockInv, NoLeakedTransaction, HandlerLocksOK

LEMMA NoTxLocks ==
  /\ NoTx.locks = {}
  /\ \A i \in ItemId : NoTx.writes.item[i] = NULL
  /\ \A o \in OrderId : NoTx.writes.orders[o] = NULL
BY DEF NoTx, NoWrites

LEMMA LockInit == Init => LockInv
BY NoTxLocks DEF Init, LockInv, NoLeakedTransaction, EmptyTables, InTx

\* A step of one handler keeps the invariant if the locks it adds were free
\* and it commits no order with an id not given out.
LEMMA LockStep ==
  ASSUME TypeInv, LockInv, NEW w \in Worker, NEW p, NEW l, NEW t,
         pc' = [pc EXCEPT ![w] = p], loc' = [loc EXCEPT ![w] = l],
         tx' = [tx EXCEPT ![w] = t],
         \A v \in Worker \ {w} : t.locks \cap tx[v].locks = {},
         nextOrder' \in Nat, nextOrder <= nextOrder',
         \A o \in OrderId : db'.orders[o] # NULL => o < nextOrder',
         HandlerLocksOK(p, l, t, nextOrder')
  PROVE  LockInv'
<1>1. /\ pc'[w] = p /\ loc'[w] = l /\ tx'[w] = t
      /\ \A v \in Worker \ {w} : pc'[v] = pc[v] /\ loc'[v] = loc[v] /\ tx'[v] = tx[v]
  BY DEF TypeInv, TypeOK, DatabaseTypeOK
<1>2. nextOrder \in Nat
  BY DEF TypeInv, TypeOK, DatabaseTypeOK
<1>3. \A v \in Worker : HandlerLocksOK(pc'[v], loc'[v], tx'[v], nextOrder')
  <2>1. TAKE v \in Worker
  <2>2. CASE v = w
    BY <2>2, <1>1
  <2>3. CASE v # w
    <3>1. pc'[v] = pc[v] /\ loc'[v] = loc[v] /\ tx'[v] = tx[v]
      BY <2>3, <1>1
    <3>2. HandlerLocksOK(pc[v], loc[v], tx[v], nextOrder)
      BY LockHandler
    <3>3. \A o \in OrderId : o < nextOrder => o < nextOrder'
      BY <1>2, MaxOrderAssumption DEF OrderId
    <3>4. pc[v] \in {"restore", "restored", "status"} => loc[v].id < nextOrder'
      BY <3>2, <3>3 DEF HandlerLocksOK, TypeInv, LocalsOK
    <3> QED BY <3>1, <3>2, <3>3, <3>4 DEF HandlerLocksOK
  <2> QED BY <2>2, <2>3
<1>4. \A u, v \in Worker : u # v => tx'[u].locks \cap tx'[v].locks = {}
  <2>1. TAKE u, v \in Worker
  <2>2. CASE u # w /\ v # w
    BY <2>2, <1>1 DEF LockInv, NoLeakedTransaction
  <2>3. CASE u = w \/ v = w
    BY <2>3, <1>1
  <2> QED BY <2>2, <2>3
<1> QED
  BY <1>3, <1>4 DEF LockInv, NoLeakedTransaction, HandlerLocksOK

\* A step that leaves the handler's transaction as it is.
LEMMA LockMove ==
  ASSUME TypeInv, LockInv, NEW w \in Worker, NEW p, NEW l,
         pc' = [pc EXCEPT ![w] = p], loc' = [loc EXCEPT ![w] = l],
         UNCHANGED <<db, nextOrder, tx>>,
         p \notin InTx => pc[w] \notin InTx,
         p \in {"restore", "restored", "status"} => l.id < nextOrder
  PROVE  LockInv'
<1>1. tx' = [tx EXCEPT ![w] = tx[w]]
  BY DEF TypeInv, TypeOK, DatabaseTypeOK
<1>2. HandlerLocksOK(pc[w], loc[w], tx[w], nextOrder)
  BY LockHandler
<1>3. HandlerLocksOK(p, l, tx[w], nextOrder')
  BY <1>2 DEF HandlerLocksOK
<1>4. \A v \in Worker \ {w} : tx[w].locks \cap tx[v].locks = {}
  BY DEF LockInv, NoLeakedTransaction
<1>5. nextOrder' \in Nat /\ nextOrder <= nextOrder'
  BY DEF TypeInv, TypeOK, DatabaseTypeOK
<1>6. \A o \in OrderId : db'.orders[o] # NULL => o < nextOrder'
  BY DEF LockInv
<1> QED
  BY <1>1, <1>3, <1>4, <1>5, <1>6, LockStep

\* A transaction that ends, by COMMIT or ROLLBACK.
LEMMA LockEnd ==
  ASSUME TypeInv, LockInv, NEW w \in Worker, NEW p, p \notin InTx,
         pc' = [pc EXCEPT ![w] = p], tx' = [tx EXCEPT ![w] = NoTx],
         UNCHANGED <<nextOrder, loc>>,
         \A o \in OrderId : db'.orders[o] # NULL => o < nextOrder
  PROVE  LockInv'
<1>1. loc' = [loc EXCEPT ![w] = loc[w]]
  BY DEF TypeInv, TypeOK
<1>2. HandlerLocksOK(p, loc[w], NoTx, nextOrder')
  BY NoTxLocks DEF HandlerLocksOK, InTx
<1>3. nextOrder' \in Nat /\ nextOrder <= nextOrder'
  BY DEF TypeInv, TypeOK, DatabaseTypeOK
<1>4. \A v \in Worker \ {w} : NoTx.locks \cap tx[v].locks = {}
  BY NoTxLocks
<1> DEFINE l == loc[w]
<1> QED
  BY <1>1, <1>2, <1>3, <1>4, LockStep

LEMMA LockAbort ==
  ASSUME TypeInv, LockInv, NEW w \in Worker, NEW e, Abort(w, e)
  PROVE  LockInv'
<1>1. /\ pc' = [pc EXCEPT ![w] = "respond"] /\ tx' = [tx EXCEPT ![w] = NoTx]
      /\ UNCHANGED <<db, nextOrder, loc>>
  BY DEF Abort, Goto, RollbackTx
<1>2. \A o \in OrderId : db'.orders[o] # NULL => o < nextOrder
  BY <1>1 DEF LockInv
<1> QED
  BY <1>1, <1>2, LockEnd DEF InTx

\* An order row becomes visible only with an id given out.
LEMMA LockCommit ==
  ASSUME TypeInv, LockInv, NEW w \in Worker, Commit(w) \/ CommitUnacknowledged(w)
  PROVE  LockInv'
<1>1. /\ pc' = [pc EXCEPT ![w] = "respond"] /\ tx' = [tx EXCEPT ![w] = NoTx]
      /\ db' = Committed(w) /\ UNCHANGED <<nextOrder, loc>>
  BY DEF Commit, CommitUnacknowledged, CommitTx, Goto
<1>2. db \in Tables /\ tx[w].writes \in Writes
  BY DEF TypeInv, TypeOK, DatabaseTypeOK, Transaction
<1>3. ASSUME NEW o \in OrderId, db'.orders[o] # NULL PROVE o < nextOrder
  <2>1. db'.orders[o] = Version(tx[w].writes.orders[o], db.orders[o])
    BY <1>1, <1>2 DEF Committed, Overwrite, Tables
  <2>2. tx[w].writes.orders[o] # NULL \/ db.orders[o] # NULL
    BY <1>3, <2>1 DEF Version
  <2> QED BY <2>2 DEF LockInv, NoLeakedTransaction
<1> QED
  BY <1>1, <1>3, LockEnd DEF InTx

LEMMA LockSnapshot ==
  ASSUME TypeInv, LockInv, NEW w \in Worker, NEW p, NEW l, p \in InTx, TakeSnapshot(w),
         pc' = [pc EXCEPT ![w] = p], loc' = [loc EXCEPT ![w] = l],
         UNCHANGED <<db, nextOrder>>,
         p \in {"restore", "restored", "status"} => l.id < nextOrder
  PROVE  LockInv'
<1> DEFINE t == [tx[w] EXCEPT !.snap = db]
<1>1. tx' = [tx EXCEPT ![w] = t]
  BY DEF TakeSnapshot
<1>2. t.locks = tx[w].locks /\ t.writes = tx[w].writes
  BY DEF TypeInv, TypeOK, DatabaseTypeOK, Transaction
<1> HIDE DEF t
<1>3. HandlerLocksOK(p, l, t, nextOrder')
  BY <1>2, LockHandler DEF HandlerLocksOK
<1>4. \A v \in Worker \ {w} : t.locks \cap tx[v].locks = {}
  BY <1>2 DEF LockInv, NoLeakedTransaction
<1>5. nextOrder' \in Nat /\ nextOrder <= nextOrder'
  BY DEF TypeInv, TypeOK, DatabaseTypeOK
<1>6. \A o \in OrderId : db'.orders[o] # NULL => o < nextOrder'
  BY DEF LockInv
<1> QED
  BY <1>1, <1>3, <1>4, <1>5, <1>6, LockStep

LEMMA LockLoadOrder ==
  ASSUME TypeInv, LockInv, NEW w \in Worker, LoadOrder(w)
  PROVE  LockInv'
<1> DEFINE lines == {l \in db.orderItem : l.order = loc[w].id}
           l     == [loc[w] EXCEPT !.todo = lines]
           p     == IF lines = {} THEN "status" ELSE "restore"
<1>1. CASE Abort(w, "not_found") \/ Abort(w, "already_canceled")
  BY <1>1, LockAbort
<1>2. CASE ~(Abort(w, "not_found") \/ Abort(w, "already_canceled"))
  <2>1. /\ pc[w] = "load" /\ TakeSnapshot(w) /\ db.orders[loc[w].id] # NULL
        /\ loc' = [loc EXCEPT ![w] = l] /\ pc' = [pc EXCEPT ![w] = p]
        /\ UNCHANGED <<db, nextOrder>>
    BY <1>2 DEF LoadOrder, LinesOf, Set, Goto
  <2>2. p \in InTx
    BY DEF InTx
  <2>3. l.id = loc[w].id /\ loc[w].id \in OrderId
    BY <2>1 DEF TypeInv, TypeOK, Local, LocalsOK
  <2>4. l.id < nextOrder
    BY <2>1, <2>3 DEF LockInv
  <2> HIDE DEF l, p
  <2> QED BY <2>1, <2>2, <2>4, LockSnapshot
<1> QED
  BY <1>1, <1>2

\* An UPDATE of an item: the row was free and is now locked.
LEMMA LockUpdateStock ==
  ASSUME TypeInv, LockInv, NEW w \in Worker, NEW p, NEW l, p \in InTx,
         pc[w] \in {"reserved", "restored"}, UpdateStock(w),
         pc' = [pc EXCEPT ![w] = p], loc' = [loc EXCEPT ![w] = l],
         UNCHANGED <<db, nextOrder>>,
         p \in {"restore", "restored", "status"} => l.id < nextOrder
  PROVE  LockInv'
<1> DEFINE i   == loc[w].it.id
           t   == tx[w]
           row == ItemCurrent(w, i)
           new == Changed(t.writes.item[i], row,
                          [row EXCEPT !.stock = ToInt32(loc[w].it.stock)])
           u   == [t EXCEPT !.locks = @ \cup {ItemLock(i)}, !.writes.item[i] = new]
<1>1. tx' = [tx EXCEPT ![w] = u] /\ Free(w, ItemLock(i))
  BY DEF UpdateStock, UpdateItemStock
<1>2. i \in ItemId /\ t \in Transaction
  BY DEF TypeInv, TypeOK, DatabaseTypeOK, LocalsOK, Item
<1> HIDE DEF new, row, i
<1>3. /\ u.locks = t.locks \cup {ItemLock(i)}
      /\ u.writes.orders = t.writes.orders
      /\ \A j \in ItemId \ {i} : u.writes.item[j] = t.writes.item[j]
  BY <1>2 DEF Transaction, Writes
<1> HIDE DEF u
<1>4. HandlerLocksOK(pc[w], loc[w], t, nextOrder)
  BY LockHandler
<1>5. HandlerLocksOK(p, l, u, nextOrder')
  <2>1. \A o \in OrderId : OrderLock(o) # ItemLock(i)
    BY DEF OrderLock, ItemLock
  <2>2. \A o \in OrderId : OrderLock(o) \in u.locks => o < nextOrder
    BY <1>3, <1>4, <2>1 DEF HandlerLocksOK
  <2> QED BY <1>3, <1>4, <2>2 DEF HandlerLocksOK
<1>6. \A v \in Worker \ {w} : u.locks \cap tx[v].locks = {}
  BY <1>1, <1>3 DEF LockInv, NoLeakedTransaction, Free
<1>7. nextOrder' \in Nat /\ nextOrder <= nextOrder'
  BY DEF TypeInv, TypeOK, DatabaseTypeOK
<1>8. \A o \in OrderId : db'.orders[o] # NULL => o < nextOrder'
  BY DEF LockInv
<1> QED
  BY <1>1, <1>5, <1>6, <1>7, <1>8, LockStep

LEMMA LockUpdateStatus ==
  ASSUME TypeInv, LockInv, NEW w \in Worker, UpdateStatus(w)
  PROVE  LockInv'
<1> DEFINE o   == loc[w].id
           t   == tx[w]
           row == OrderCurrent(w, o)
           new == Changed(t.writes.orders[o], row, [row EXCEPT !.status = "CANCEL"])
           u   == [t EXCEPT !.locks = @ \cup {OrderLock(o)}, !.writes.orders[o] = new]
<1>1. /\ pc[w] = "status" /\ tx' = [tx EXCEPT ![w] = u] /\ Free(w, OrderLock(o))
      /\ pc' = [pc EXCEPT ![w] = "commit"] /\ UNCHANGED <<db, nextOrder, loc>>
  BY DEF UpdateStatus, UpdateOrderStatus, Goto
<1>2. o \in OrderId /\ t \in Transaction /\ o < nextOrder
  BY <1>1 DEF TypeInv, TypeOK, DatabaseTypeOK, LocalsOK, LockInv
<1> HIDE DEF new, row
<1>3. /\ u.locks = t.locks \cup {OrderLock(o)}
      /\ u.writes.item = t.writes.item
      /\ \A q \in OrderId \ {o} : u.writes.orders[q] = t.writes.orders[q]
  BY <1>2 DEF Transaction, Writes
<1> HIDE DEF u
<1>4. HandlerLocksOK(pc[w], loc[w], t, nextOrder)
  BY LockHandler
<1>5. HandlerLocksOK("commit", loc[w], u, nextOrder')
  <2>1. \A q \in OrderId : OrderLock(q) \in u.locks => q < nextOrder
    BY <1>2, <1>3, <1>4 DEF HandlerLocksOK, OrderLock
  <2> QED BY <1>1, <1>3, <1>4, <2>1 DEF HandlerLocksOK, InTx
<1>6. \A v \in Worker \ {w} : u.locks \cap tx[v].locks = {}
  BY <1>1, <1>3 DEF LockInv, NoLeakedTransaction, Free
<1>7. nextOrder' \in Nat /\ nextOrder <= nextOrder'
  BY <1>1 DEF TypeInv, TypeOK, DatabaseTypeOK
<1>8. \A q \in OrderId : db'.orders[q] # NULL => q < nextOrder'
  BY <1>1 DEF LockInv
<1>9. loc' = [loc EXCEPT ![w] = loc[w]]
  BY <1>1 DEF TypeInv, TypeOK
<1> QED
  BY <1>1, <1>5, <1>6, <1>7, <1>8, <1>9, LockStep

\* An INSERT that locks no row another statement can reach.
LEMMA LockInsert ==
  ASSUME TypeInv, LockInv, NEW w \in Worker, NEW p, NEW l, NEW u,
         p \in InTx, p \notin {"restore", "restored", "status"},
         pc' = [pc EXCEPT ![w] = p], loc' = [loc EXCEPT ![w] = l],
         tx' = [tx EXCEPT ![w] = u],
         u.locks = tx[w].locks, u.writes.item = tx[w].writes.item,
         u.writes.orders = tx[w].writes.orders,
         UNCHANGED <<db, nextOrder>>
  PROVE  LockInv'
<1>1. HandlerLocksOK(p, l, u, nextOrder')
  BY LockHandler DEF HandlerLocksOK
<1>2. \A v \in Worker \ {w} : u.locks \cap tx[v].locks = {}
  BY DEF LockInv, NoLeakedTransaction
<1>3. nextOrder' \in Nat /\ nextOrder <= nextOrder'
  BY DEF TypeInv, TypeOK, DatabaseTypeOK
<1>4. \A o \in OrderId : db'.orders[o] # NULL => o < nextOrder'
  BY DEF LockInv
<1> QED
  BY <1>1, <1>2, <1>3, <1>4, LockStep

LEMMA LockCreateDelivery ==
  ASSUME TypeInv, LockInv, NEW w \in Worker, CreateDelivery(w)
  PROVE  LockInv'
<1> DEFINE l == [loc[w] EXCEPT !.dlv = nextDelivery]
           d == tx[w].writes.delivery \cup {nextDelivery}
           u == [tx[w] EXCEPT !.writes.delivery = d]
<1>1. /\ pc' = [pc EXCEPT ![w] = "order"] /\ loc' = [loc EXCEPT ![w] = l]
      /\ tx' = [tx EXCEPT ![w] = u] /\ UNCHANGED <<db, nextOrder>>
  BY DEF CreateDelivery, InsertDelivery, Set, Goto, TypeInv, TypeOK, DatabaseTypeOK, Transaction
<1> HIDE DEF l, d
<1>2. /\ u.locks = tx[w].locks /\ u.writes.item = tx[w].writes.item
      /\ u.writes.orders = tx[w].writes.orders
  BY DEF TypeInv, TypeOK, DatabaseTypeOK, Transaction, Writes
<1> HIDE DEF u
<1>3. "order" \in InTx /\ "order" \notin {"restore", "restored", "status"}
  BY DEF InTx
<1> QED
  BY <1>1, <1>2, <1>3, LockInsert

LEMMA LockCreateOrderItem ==
  ASSUME TypeInv, LockInv, NEW w \in Worker, CreateOrderItem(w)
  PROVE  LockInv'
<1> DEFINE l == [loc[w] EXCEPT !.k = loc[w].k + 1]
           p == IF LastLine(w) THEN "commit" ELSE "orderItem"
<1>1. PICK line : InsertOrderItem(w, line) /\ loc' = [loc EXCEPT ![w] = l]
  BY DEF CreateOrderItem, Set
<1> DEFINE s == tx[w].writes.orderItem \cup {line}
           u == [tx[w] EXCEPT !.writes.orderItem = s]
<1>2. /\ pc' = [pc EXCEPT ![w] = p] /\ loc' = [loc EXCEPT ![w] = l]
      /\ tx' = [tx EXCEPT ![w] = u] /\ UNCHANGED <<db, nextOrder>>
  BY <1>1 DEF CreateOrderItem, InsertOrderItem, Goto, TypeInv, TypeOK, DatabaseTypeOK, Transaction
<1> HIDE DEF l, s
<1>3. /\ u.locks = tx[w].locks /\ u.writes.item = tx[w].writes.item
      /\ u.writes.orders = tx[w].writes.orders
  BY DEF TypeInv, TypeOK, DatabaseTypeOK, Transaction, Writes
<1> HIDE DEF u
<1>4. p \in InTx /\ p \notin {"restore", "restored", "status"}
  BY DEF InTx
<1> HIDE DEF p
<1> QED
  BY <1>2, <1>3, <1>4, LockInsert

\* The new order's row: its id was never given out, so nobody holds its lock.
LEMMA LockCreateOrder ==
  ASSUME TypeInv, LockInv, NEW w \in Worker, CreateOrder(w)
  PROVE  LockInv'
<1> DEFINE l == [loc[w] EXCEPT !.id = nextOrder]
           o == nextOrder
           t == tx[w]
<1>1. PICK row : InsertOrder(w, row)
  BY DEF CreateOrder
<1> DEFINE u == [t EXCEPT !.locks = @ \cup {OrderLock(o)}, !.writes.orders[o] = row]
<1>2. /\ pc[w] = "order" /\ pc' = [pc EXCEPT ![w] = "orderItem"]
      /\ loc' = [loc EXCEPT ![w] = l] /\ UNCHANGED db
  BY DEF CreateOrder, Set, Goto
<1>3. tx' = [tx EXCEPT ![w] = u] /\ nextOrder' = o + 1
  BY <1>1 DEF InsertOrder
<1>4. o \in OrderId /\ t \in Transaction /\ o \in Nat
  BY <1>2, IdLeft, MaxOrderAssumption DEF BeforeOrder, TypeInv, TypeOK, DatabaseTypeOK
<1>5. /\ u.locks = t.locks \cup {OrderLock(o)}
      /\ u.writes.item = t.writes.item
      /\ \A q \in OrderId \ {o} : u.writes.orders[q] = t.writes.orders[q]
  BY <1>4 DEF Transaction, Writes
<1> HIDE DEF u, l, o
<1>6. \A q \in OrderId : q < o => q < nextOrder'
  BY <1>3, <1>4, MaxOrderAssumption DEF OrderId
<1>7. HandlerLocksOK("orderItem", l, u, nextOrder')
  <2>1. \A q \in OrderId : q # o => (OrderLock(q) \in u.locks => q < o)
    BY <1>5, LockHandler DEF HandlerLocksOK, OrderLock, o
  <2>2. o < nextOrder'
    BY <1>3, <1>4
  <2>3. \A q \in OrderId : OrderLock(q) \in u.locks => q < nextOrder'
    BY <1>6, <2>1, <2>2
  <2>4. \A q \in OrderId : u.writes.orders[q] # NULL => OrderLock(q) \in u.locks
    BY <1>5, LockHandler DEF HandlerLocksOK
  <2>5. \A i \in ItemId : u.writes.item[i] # NULL => ItemLock(i) \in u.locks
    BY <1>5, LockHandler DEF HandlerLocksOK
  <2> QED BY <2>3, <2>4, <2>5 DEF HandlerLocksOK, InTx
<1>8. \A v \in Worker \ {w} : u.locks \cap tx[v].locks = {}
  <2>1. TAKE v \in Worker \ {w}
  <2>2. OrderLock(o) \notin tx[v].locks
    BY <1>4 DEF LockInv, o
  <2>3. t.locks \cap tx[v].locks = {}
    BY DEF LockInv, NoLeakedTransaction
  <2> QED BY <1>5, <2>2, <2>3
<1>9. nextOrder' \in Nat /\ nextOrder <= nextOrder'
  BY <1>3, <1>4 DEF o
<1>10. \A q \in OrderId : db'.orders[q] # NULL => q < nextOrder'
  BY <1>2, <1>6 DEF LockInv, o
<1> QED
  BY <1>2, <1>3, <1>7, <1>8, <1>9, <1>10, LockStep

LEMMA LockCrash ==
  ASSUME TypeInv, LockInv, Crash
  PROVE  LockInv'
BY NoTxLocks DEF Crash, LockInv, NoLeakedTransaction, InTx

\* Other contexts touch neither orders nor transactions.
LEMMA LockElsewhere ==
  ASSUME TypeInv, LockInv, UNCHANGED <<nextOrder, tx, pc, loc>>, db'.orders = db.orders
  PROVE  LockInv'
BY DEF LockInv, NoLeakedTransaction

LEMMA LockStatement ==
  ASSUME TypeInv, LockInv, NEW w \in Worker, Statement(w)
  PROVE  LockInv'
<1>1. CASE EnsureExists(w)
  <2>1. CASE Abort(w, "not_found")
    BY <2>1, LockAbort
  <2>2. CASE ~Abort(w, "not_found")
    <3>1. /\ TakeSnapshot(w) /\ pc' = [pc EXCEPT ![w] = "reserve"]
          /\ UNCHANGED <<db, nextOrder, loc>>
      BY <1>1, <2>2 DEF EnsureExists, Goto
    <3>2. loc' = [loc EXCEPT ![w] = loc[w]]
      BY <3>1 DEF TypeInv, TypeOK
    <3>3. "reserve" \in InTx /\ "reserve" \notin {"restore", "restored", "status"}
      BY DEF InTx
    <3> QED BY <3>1, <3>2, <3>3, LockSnapshot
  <2> QED BY <2>1, <2>2
<1>2. CASE Reserve(w)
  <2>1. CASE Abort(w, "not_found") \/ Abort(w, "insufficient_stock")
    BY <2>1, LockAbort
  <2>2. CASE ~(Abort(w, "not_found") \/ Abort(w, "insufficient_stock"))
    <3>1. PICK l : /\ loc' = [loc EXCEPT ![w] = l] /\ pc' = [pc EXCEPT ![w] = "reserved"]
                   /\ UNCHANGED <<db, nextOrder, tx>>
      BY <1>2, <2>2 DEF Reserve, Set, Goto
    <3> QED BY <3>1, LockMove DEF InTx
  <2> QED BY <2>1, <2>2
<1>3. CASE ReserveUpdate(w)
  <2>1. PICK l, p : /\ p \in {"delivery", "reserve"} /\ UpdateStock(w) /\ pc[w] = "reserved"
                    /\ loc' = [loc EXCEPT ![w] = l] /\ pc' = [pc EXCEPT ![w] = p]
                    /\ UNCHANGED <<db, nextOrder>>
    BY <1>3 DEF ReserveUpdate, Set, Goto
  <2>2. p \in InTx /\ p \notin {"restore", "restored", "status"}
    BY <2>1 DEF InTx
  <2> QED BY <2>1, <2>2, LockUpdateStock
<1>4. CASE Restore(w)
  <2>1. CASE Abort(w, "not_found")
    BY <2>1, LockAbort
  <2>2. CASE ~Abort(w, "not_found")
    <3>1. PICK todo, it : loc' = [loc EXCEPT ![w] = [loc[w] EXCEPT !.todo = todo, !.it = it]]
      BY <1>4, <2>2 DEF Restore, Set
    <3>2. /\ pc[w] = "restore" /\ pc' = [pc EXCEPT ![w] = "restored"]
          /\ UNCHANGED <<db, nextOrder, tx>>
      BY <1>4, <2>2 DEF Restore, Goto
    <3> DEFINE l == [loc[w] EXCEPT !.todo = todo, !.it = it]
    <3>3. l.id = loc[w].id
      BY DEF TypeInv, TypeOK, Local
    <3>4. l.id < nextOrder
      BY <3>2, <3>3 DEF LockInv
    <3> HIDE DEF l
    <3>5. loc' = [loc EXCEPT ![w] = l]
      BY <3>1 DEF l
    <3> QED BY <3>2, <3>4, <3>5, LockMove DEF InTx
  <2> QED BY <2>1, <2>2
<1>5. CASE RestoreUpdate(w)
  <2> DEFINE l == [loc[w] EXCEPT !.it = NULL]
  <2>1. PICK p : /\ p \in {"status", "restore"} /\ UpdateStock(w) /\ pc[w] = "restored"
                 /\ loc' = [loc EXCEPT ![w] = l] /\ pc' = [pc EXCEPT ![w] = p]
                 /\ UNCHANGED <<db, nextOrder>>
    BY <1>5 DEF RestoreUpdate, Set, Goto
  <2>2. l.id = loc[w].id
    BY DEF TypeInv, TypeOK, Local
  <2>3. l.id < nextOrder
    BY <2>1, <2>2 DEF LockInv
  <2>4. p \in InTx
    BY <2>1 DEF InTx
  <2> HIDE DEF l
  <2> QED BY <2>1, <2>3, <2>4, LockUpdateStock
<1>6. CASE Respond(w)
  <2>1. /\ pc[w] = "respond" /\ pc' = [pc EXCEPT ![w] = "idle"]
        /\ loc' = [loc EXCEPT ![w] = NoLocal] /\ UNCHANGED <<db, nextOrder, tx>>
    BY <1>6 DEF Respond, Set, Goto
  <2> QED BY <2>1, LockMove DEF InTx
<1> QED
  BY <1>1, <1>2, <1>3, <1>4, <1>5, <1>6, LockCreateDelivery, LockCreateOrder,
     LockCreateOrderItem, LockLoadOrder, LockUpdateStatus, LockCommit DEF Statement

LEMMA LockNext == TypeInv /\ LockInv /\ [Next]_vars => LockInv'
<1> SUFFICES ASSUME TypeInv, LockInv, [Next]_vars PROVE LockInv'
  OBVIOUS
<1>1. CASE UNCHANGED vars
  BY <1>1 DEF vars, LockInv, NoLeakedTransaction
<1>2. ASSUME NEW w \in Worker, StatementFails(w) \/ DeadlockVictim(w) PROVE LockInv'
  BY <1>2, LockAbort DEF StatementFails, DeadlockVictim
<1>3. ASSUME NEW w \in Worker, NEW cmd \in Cmds, SubmitPlace(w, cmd) PROVE LockInv'
  <2>1. PICK l, p : /\ p \in {"ensure", "respond"} /\ pc[w] = "idle"
                    /\ loc' = [loc EXCEPT ![w] = l] /\ pc' = [pc EXCEPT ![w] = p]
                    /\ UNCHANGED <<db, nextOrder, tx>>
    BY <1>3 DEF SubmitPlace, Set, Goto, dbVars
  <2> QED BY <2>1, LockMove DEF InTx
<1>4. ASSUME NEW w \in Worker, NEW o \in OrderId \cup {0}, SubmitCancel(w, o) PROVE LockInv'
  <2>1. PICK l, p : /\ p \in {"load", "respond"} /\ pc[w] = "idle"
                    /\ loc' = [loc EXCEPT ![w] = l] /\ pc' = [pc EXCEPT ![w] = p]
                    /\ UNCHANGED <<db, nextOrder, tx>>
    BY <1>4 DEF SubmitCancel, Set, Goto
  <2> QED BY <2>1, LockMove DEF InTx
<1>5. ASSUME NEW m \in MemberId, Register(m) PROVE LockInv'
  <2>1. db'.orders = db.orders
    BY <1>5 DEF Register, InsertMember, TypeInv, TypeOK, DatabaseTypeOK, Tables
  <2> QED BY <1>5, <2>1, LockElsewhere DEF Register, handlerVars
<1>6. ASSUME NEW i \in ItemId, CatalogWrites(i) PROVE LockInv'
  <2>1. db'.orders = db.orders
    BY <1>6 DEF CatalogWrites, CreateItem, ReplaceItem, InsertItem, UpdateItem,
                TypeInv, TypeOK, DatabaseTypeOK, Tables
  <2> QED BY <1>6, <2>1, LockElsewhere DEF CatalogWrites, CreateItem, ReplaceItem, handlerVars
<1> QED
  BY <1>1, <1>2, <1>3, <1>4, <1>5, <1>6, LockStatement, LockCommit, LockCrash DEF Next, Handlers, OtherContexts

\* Two open transactions never hold, nor write, the same row, and a request
\* that is over, by whichever path, holds nothing: for any number of workers,
\* items and orders.
THEOREM LocksDisjointAndReleased == Spec => []NoLeakedTransaction
<1>1. LockInv => NoLeakedTransaction
  BY DEF LockInv
<1> QED
  BY <1>1, LockInit, LockNext, TypeInit, TypeNext, PTL DEF Spec

-----------------------------------------------------------------------------
(* Stock never goes negative in a behaviour in which no stock is converted  *)
(* to an int32 that it does not fit.  The code does not see to that: the    *)
(* item endpoints have no upper bound, AddStock has none.                   *)

\* No stock that Restore is about to store is beyond its column: the conversion
\* to int32 wraps one that is, and run stock_wraps shows that.
RestoredStockFits ==
    \A w \in Worker : pc[w] = "restored" => loc[w].it.stock \in Int32

\* An item endpoint stores the stock it was sent.
FittingWrite(i) ==
    \E r \in CatalogRows : r.stock \in Int32 /\ (CreateItem(i, r) \/ ReplaceItem(i, r))

\* Every stock that the item endpoints are sent fits its column.
SentStockFits == [][\A i \in ItemId : CatalogWrites(i) => FittingWrite(i)]_vars

(* StockNeverNegative is not inductive: stock passes from tables through    *)
(* snapshots, locals and uncommitted rows back into tables, and Restore     *)
(* adds the counts of order lines.  Both are non-negative everywhere.       *)

TablesStockOK(d) ==
    /\ \A i \in ItemId : d.item[i] # NULL => d.item[i].stock >= 0
    /\ \A line \in d.orderItem : line.count >= 0

TxStockOK(t) ==
    /\ t.snap # NULL => TablesStockOK(t.snap)
    /\ \A i \in ItemId : t.writes.item[i] # NULL => t.writes.item[i].stock >= 0
    /\ \A line \in t.writes.orderItem : line.count >= 0

\* RemoveStock's check also bounds the counts that are stored.
LocalsStockOK(p, l) ==
    /\ p \in {"reserved", "restored"} => l.it.stock >= 0
    /\ p = "reserved" => l.it.stock <= IntMax
    /\ p \in BeforeOrder => Valid(l.cmd)
    /\ p = "reserved" => l.cmd.lines[l.k].count \in 0 .. IntMax
    /\ \A n \in DOMAIN l.cart : l.cart[n].count \in 0 .. IntMax
    /\ \A line \in l.todo : line.count >= 0

StockInv ==
    /\ TablesStockOK(db)
    /\ \A w \in Worker : TxStockOK(tx[w]) /\ LocalsStockOK(pc[w], loc[w])

LEMMA NoTxStock == TxStockOK(NoTx)
BY DEF TxStockOK, NoTx, NoWrites

LEMMA NoLocalStock ==
  ASSUME NEW p \in Control \ (BeforeOrder \cup {"reserved", "restored"})
  PROVE  LocalsStockOK(p, NoLocal)
BY DEF LocalsStockOK, NoLocal, BeforeOrder

LEMMA StockInit == Init => StockInv
<1> SUFFICES ASSUME Init PROVE StockInv
  OBVIOUS
<1>1. TablesStockOK(db)
  BY DEF Init, EmptyTables, TablesStockOK
<1>2. \A w \in Worker : LocalsStockOK("idle", NoLocal)
  BY NoLocalStock DEF Control, InTx, BeforeOrder
<1> QED
  BY <1>1, <1>2, NoTxStock DEF Init, StockInv

\* A step of one handler.
LEMMA StockStep ==
  ASSUME TypeInv, StockInv, NEW w \in Worker, NEW p, NEW l,
         pc' = [pc EXCEPT ![w] = p], loc' = [loc EXCEPT ![w] = l],
         \A v \in Worker \ {w} : tx'[v] = tx[v],
         TablesStockOK(db'), TxStockOK(tx'[w]), LocalsStockOK(p, l)
  PROVE  StockInv'
<1>1. /\ pc'[w] = p /\ loc'[w] = l
      /\ \A v \in Worker \ {w} : pc'[v] = pc[v] /\ loc'[v] = loc[v]
  BY DEF TypeInv, TypeOK
<1>2. ASSUME NEW v \in Worker
      PROVE  TxStockOK(tx'[v]) /\ LocalsStockOK(pc'[v], loc'[v])
  <2>1. CASE v = w
    BY <2>1, <1>1
  <2>2. CASE v # w
    <3>1. pc'[v] = pc[v] /\ loc'[v] = loc[v] /\ tx'[v] = tx[v]
      BY <2>2, <1>1
    <3> QED BY <3>1 DEF StockInv
  <2> QED BY <2>1, <2>2
<1>3. TablesStockOK(db)'
  BY DEF TablesStockOK
<1> QED
  BY <1>2, <1>3 DEF StockInv, TxStockOK, LocalsStockOK

LEMMA StockHandler ==
  ASSUME StockInv, NEW w \in Worker
  PROVE  TxStockOK(tx[w]) /\ LocalsStockOK(pc[w], loc[w])
BY DEF StockInv

LEMMA StockAbort ==
  ASSUME TypeInv, StockInv, NEW w \in Worker, NEW e, Abort(w, e)
  PROVE  StockInv'
<1>1. /\ pc' = [pc EXCEPT ![w] = "respond"] /\ tx' = [tx EXCEPT ![w] = NoTx]
      /\ db' = db /\ loc' = loc
  BY DEF Abort, Goto, RollbackTx
<1>2. /\ loc' = [loc EXCEPT ![w] = loc[w]] /\ tx'[w] = NoTx
      /\ \A v \in Worker \ {w} : tx'[v] = tx[v]
  BY <1>1 DEF TypeInv, TypeOK, DatabaseTypeOK
<1>3. LocalsStockOK("respond", loc[w])
  BY StockHandler DEF LocalsStockOK, BeforeOrder
<1>4. TablesStockOK(db')
  BY <1>1 DEF StockInv
<1>5. TxStockOK(tx'[w])
  BY <1>2, NoTxStock
<1> QED
  BY <1>1, <1>2, <1>3, <1>4, <1>5, StockStep

\* A SELECT of an item sees no negative stock.
LEMMA StockSeen ==
  ASSUME TypeInv, StockInv, NEW w \in Worker, NEW i \in ItemId, pc[w] \in InTx,
         ItemSeen(w, i) # NULL
  PROVE  ItemSeen(w, i) \in ItemRow /\ ItemSeen(w, i).stock >= 0
<1>1. tx[w].snap # NULL
  BY NullAssumption DEF TypeInv, LocalsOK
<1>2. ItemSeen(w, i) \in ItemRow
  BY ItemSeenType DEF Opt
<1> QED
  BY <1>1, <1>2, StockHandler DEF ItemSeen, Version, TxStockOK, TablesStockOK

LEMMA StockEnsureExists ==
  ASSUME TypeInv, StockInv, NEW w \in Worker, EnsureExists(w)
  PROVE  StockInv'
<1>1. CASE Abort(w, "not_found")
  BY <1>1, StockAbort
<1>2. CASE ~Abort(w, "not_found")
  <2>1. /\ pc[w] = "ensure" /\ TakeSnapshot(w) /\ pc' = [pc EXCEPT ![w] = "reserve"]
        /\ UNCHANGED <<db, loc>>
    BY <1>2 DEF EnsureExists, Goto
  <2>2. /\ tx'[w].snap = db /\ tx'[w].writes = tx[w].writes
        /\ \A v \in Worker \ {w} : tx'[v] = tx[v]
        /\ loc' = [loc EXCEPT ![w] = loc[w]]
    BY <2>1 DEF TakeSnapshot, TypeInv, TypeOK, DatabaseTypeOK, Transaction
  <2>3. TxStockOK(tx'[w])
    BY <2>2, StockHandler DEF TxStockOK, StockInv
  <2>4. LocalsStockOK("reserve", loc[w])
    BY <2>1, StockHandler DEF LocalsStockOK, BeforeOrder
  <2>5. TablesStockOK(db')
    BY <2>1 DEF StockInv
  <2> QED
    BY <2>1, <2>2, <2>3, <2>4, <2>5, StockStep
<1> QED
  BY <1>1, <1>2

LEMMA StockReserve ==
  ASSUME TypeInv, StockInv, NEW w \in Worker, Reserve(w)
  PROVE  StockInv'
<1> DEFINE line == loc[w].cmd.lines[loc[w].k]
           row  == ItemSeen(w, line.item)
           it   == [id |-> line.item, price |-> row.price, stock |-> row.stock - line.count]
           l    == [loc[w] EXCEPT !.it = it]
<1>1. CASE Abort(w, "not_found") \/ Abort(w, "insufficient_stock")
  BY <1>1, StockAbort
<1>2. CASE ~(Abort(w, "not_found") \/ Abort(w, "insufficient_stock"))
  <2>1. /\ pc[w] = "reserve" /\ pc' = [pc EXCEPT ![w] = "reserved"]
        /\ row # NULL /\ row.stock >= line.count /\ loc' = [loc EXCEPT ![w] = l]
        /\ UNCHANGED <<db, tx>>
    BY <1>2 DEF Reserve, CanRemove, Goto, Set
  <2>2. LocalsOK("reserve", loc[w], tx[w]) /\ LocalsStockOK("reserve", loc[w]) /\ loc[w] \in Local
    BY <2>1, StockHandler DEF TypeInv, TypeOK
  <2>3. line \in Line /\ line.count > 0
    BY <2>2 DEF LocalsOK, LocalsStockOK, BeforeOrder, PlaceCommand, Valid
  <2>4. row \in ItemRow
    BY <2>1, <2>3, StockSeen DEF Line, InTx
  <2>5. line.count \in 0 .. IntMax /\ it.stock >= 0 /\ it.stock <= IntMax
    <3>1. line.count \in Int /\ row.stock \in Int32
      BY <2>3, <2>4 DEF Line, ItemRow
    <3>2. it.stock = row.stock - line.count
      OBVIOUS
    <3> HIDE DEF it, row, line
    <3> QED BY <2>1, <2>3, <3>1, <3>2, IntMaxAssumption DEF Int32
  <2> HIDE DEF it
  <2>6. /\ l.it = it /\ l.cmd = loc[w].cmd /\ l.k = loc[w].k /\ l.cart = loc[w].cart
        /\ l.todo = loc[w].todo
    BY <2>2 DEF Local
  <2> HIDE DEF l
  <2>7. LocalsStockOK("reserved", l)
    BY <2>2, <2>5, <2>6 DEF LocalsStockOK, BeforeOrder
  <2>8. TablesStockOK(db') /\ TxStockOK(tx'[w])
    BY <2>1 DEF StockInv
  <2>9. \A v \in Worker \ {w} : tx'[v] = tx[v]
    BY <2>1
  <2> QED
    BY <2>1, <2>7, <2>8, <2>9, StockStep
<1> QED
  BY <1>1, <1>2

\* UpdateStock stores what the handler holds: the stock fits, so the conversion
\* is the identity.
LEMMA StockUpdate ==
  ASSUME TypeInv, StockInv, RestoredStockFits, NEW w \in Worker,
         pc[w] \in {"reserved", "restored"}, UpdateStock(w)
  PROVE  TxStockOK(tx'[w]) /\ \A v \in Worker \ {w} : tx'[v] = tx[v]
<1> DEFINE i   == loc[w].it.id
           qty == ToInt32(loc[w].it.stock)
           t   == tx[w]
           row == ItemCurrent(w, i)
           new == Changed(t.writes.item[i], row, [row EXCEPT !.stock = qty])
           u   == [t EXCEPT !.locks = @ \cup {ItemLock(i)}, !.writes.item[i] = new]
<1>1. tx' = [tx EXCEPT ![w] = u]
  BY DEF UpdateStock, UpdateItemStock
<1>2. i \in ItemId /\ t \in Transaction /\ db \in Tables
  BY DEF TypeInv, TypeOK, DatabaseTypeOK, LocalsOK, Item
<1>3. qty \in Int32 /\ qty >= 0
  <2>1. loc[w].it.stock >= 0 /\ (pc[w] = "reserved" => loc[w].it.stock <= IntMax)
    BY StockHandler DEF LocalsStockOK
  <2>2. loc[w].it.stock \in Int /\ (pc[w] = "restored" => loc[w].it.stock \in Int32)
    BY DEF RestoredStockFits, TypeInv, LocalsOK, Item
  <2>3. loc[w].it.stock \in Int32
    BY <2>1, <2>2, IntMaxAssumption DEF Int32
  <2> QED BY <2>1, <2>3, ToInt32Fits
<1>4. row \in Opt(ItemRow)
  BY <1>2 DEF ItemCurrent, Version, Transaction, Writes, Tables
<1>5. TxStockOK(t)
  BY StockHandler
<1>6. new # NULL => new.stock >= 0
  <2>1. CASE new = t.writes.item[i]
    BY <2>1, <1>2, <1>5 DEF TxStockOK
  <2>2. CASE new # t.writes.item[i]
    <3>1. new = [row EXCEPT !.stock = qty] /\ row \in ItemRow
      BY <2>2, <1>4 DEF Changed, Opt
    <3> QED BY <3>1, <1>3 DEF ItemRow
  <2> QED BY <2>1, <2>2
<1> HIDE DEF new, row, i
<1>7. /\ u.snap = t.snap /\ u.writes.item[i] = new
      /\ \A j \in ItemId \ {i} : u.writes.item[j] = t.writes.item[j]
      /\ u.writes.orderItem = t.writes.orderItem
  BY <1>2 DEF Transaction, Writes
<1>8. tx'[w] = u /\ \A v \in Worker \ {w} : tx'[v] = tx[v]
  BY <1>1 DEF TypeInv, TypeOK, DatabaseTypeOK
<1> HIDE DEF u
<1> QED
  BY <1>5, <1>6, <1>7, <1>8 DEF TxStockOK

LEMMA StockReserveUpdate ==
  ASSUME TypeInv, StockInv, RestoredStockFits, NEW w \in Worker, ReserveUpdate(w)
  PROVE  StockInv'
<1> DEFINE cmd  == loc[w].cmd
           k    == loc[w].k
           it   == loc[w].it
           oi   == [item |-> it.id, price |-> it.price, count |-> cmd.lines[k].count]
           cart == Append(loc[w].cart, oi)
           n    == IF k = Len(cmd.lines) THEN 1 ELSE k + 1
           l    == [loc[w] EXCEPT !.cart = cart, !.it = NULL, !.k = n]
           p    == IF k = Len(cmd.lines) THEN "delivery" ELSE "reserve"
<1>1. /\ pc[w] = "reserved" /\ UpdateStock(w)
      /\ loc' = [loc EXCEPT ![w] = l] /\ pc' = [pc EXCEPT ![w] = p]
      /\ UNCHANGED db
  BY DEF ReserveUpdate, Set, Goto
<1>2. loc[w] \in Local /\ LocalsStockOK("reserved", loc[w])
  BY <1>1, StockHandler DEF TypeInv, TypeOK
<1>3. oi.count \in 0 .. IntMax /\ \A m \in DOMAIN loc[w].cart : loc[w].cart[m].count \in 0 .. IntMax
  BY <1>2 DEF LocalsStockOK
<1> HIDE DEF oi
<1>4. \A m \in DOMAIN cart : cart[m].count \in 0 .. IntMax
  <2>1. loc[w].cart \in Seq(OrderItem)
    BY <1>2 DEF Local
  <2>2. ASSUME NEW m \in DOMAIN cart PROVE cart[m].count \in 0 .. IntMax
    <3>1. CASE m \in DOMAIN loc[w].cart
      <4>1. cart[m] = loc[w].cart[m]
        BY <2>1, <3>1
      <4> QED BY <4>1, <3>1, <1>3
    <3>2. CASE m \notin DOMAIN loc[w].cart
      <4>1. cart[m] = oi
        BY <2>1, <2>2, <3>2
      <4> QED BY <4>1, <1>3
    <3> QED BY <3>1, <3>2
  <2> QED BY <2>2
<1> HIDE DEF cart, n
<1>5. l.cart = cart /\ l.cmd = cmd /\ l.todo = loc[w].todo
  BY <1>2 DEF Local
<1> HIDE DEF l
<1>6. p \in {"delivery", "reserve"}
  OBVIOUS
<1> HIDE DEF p
<1>7. LocalsStockOK(p, l)
  BY <1>2, <1>4, <1>5, <1>6 DEF LocalsStockOK, BeforeOrder
<1>8. TxStockOK(tx'[w]) /\ \A v \in Worker \ {w} : tx'[v] = tx[v]
  BY <1>1, StockUpdate
<1>9. TablesStockOK(db')
  BY <1>1 DEF StockInv
<1> QED
  BY <1>1, <1>7, <1>8, <1>9, StockStep

LEMMA StockCreateOrderItem ==
  ASSUME TypeInv, StockInv, NEW w \in Worker, CreateOrderItem(w)
  PROVE  StockInv'
<1> DEFINE k    == loc[w].k
           oi   == loc[w].cart[k]
           line == [order |-> loc[w].id, pos |-> k, item |-> oi.item,
                    price |-> ToInt32(oi.price), count |-> ToInt32(oi.count)]
           l    == [loc[w] EXCEPT !.k = k + 1]
           p    == IF LastLine(w) THEN "commit" ELSE "orderItem"
           s    == tx[w].writes.orderItem \cup {line}
           u    == [tx[w] EXCEPT !.writes.orderItem = s]
<1>1. /\ pc[w] = "orderItem" /\ InsertOrderItem(w, line)
      /\ loc' = [loc EXCEPT ![w] = l] /\ pc' = [pc EXCEPT ![w] = p]
      /\ UNCHANGED db
  BY DEF CreateOrderItem, Set, Goto
<1>2. loc[w] \in Local /\ LocalsOK("orderItem", loc[w], tx[w]) /\ LocalsStockOK("orderItem", loc[w])
  BY <1>1, StockHandler DEF TypeInv, TypeOK
<1>3. oi.count \in 0 .. IntMax
  BY <1>2 DEF LocalsOK, LocalsStockOK
<1>4. line.count >= 0
  <2>1. oi.count \in Int32
    BY <1>3, IntMaxAssumption DEF Int32
  <2>2. ToInt32(oi.count) = oi.count
    BY <2>1, ToInt32Fits
  <2> QED BY <1>3, <2>2
<1>5. tx' = [tx EXCEPT ![w] = u]
  BY <1>1 DEF InsertOrderItem, TypeInv, TypeOK, DatabaseTypeOK, Transaction
<1> HIDE DEF line
<1>6. u.snap = tx[w].snap /\ u.writes.item = tx[w].writes.item /\ u.writes.orderItem = s
  BY DEF TypeInv, TypeOK, DatabaseTypeOK, Transaction, Writes
<1>7. tx'[w] = u /\ \A v \in Worker \ {w} : tx'[v] = tx[v]
  BY <1>5 DEF TypeInv, TypeOK, DatabaseTypeOK
<1> HIDE DEF u
<1>8. TxStockOK(tx'[w])
  BY <1>4, <1>6, <1>7, StockHandler DEF TxStockOK
<1>9. l.cart = loc[w].cart /\ l.todo = loc[w].todo
  BY <1>2 DEF Local
<1> HIDE DEF l
<1>10. p \in {"commit", "orderItem"}
  OBVIOUS
<1> HIDE DEF p
<1>11. LocalsStockOK(p, l)
  BY <1>2, <1>9, <1>10 DEF LocalsStockOK, BeforeOrder
<1>12. TablesStockOK(db')
  BY <1>1 DEF StockInv
<1> QED
  BY <1>1, <1>7, <1>8, <1>11, <1>12, StockStep

\* The INSERTs of the delivery and the order, and the UPDATE of a status, write
\* neither stock nor counts.
LEMMA StockOtherWrite ==
  ASSUME TypeInv, StockInv, NEW w \in Worker, NEW p, NEW l, NEW u,
         pc' = [pc EXCEPT ![w] = p], loc' = [loc EXCEPT ![w] = l],
         tx' = [tx EXCEPT ![w] = u], UNCHANGED db,
         u.snap = tx[w].snap, u.writes.item = tx[w].writes.item,
         u.writes.orderItem = tx[w].writes.orderItem,
         l.cart = loc[w].cart, l.todo = loc[w].todo, l.cmd = loc[w].cmd,
         p \notin {"reserved", "restored"}, p \in BeforeOrder => pc[w] \in BeforeOrder
  PROVE  StockInv'
<1>1. tx'[w] = u /\ \A v \in Worker \ {w} : tx'[v] = tx[v]
  BY DEF TypeInv, TypeOK, DatabaseTypeOK
<1>2. TxStockOK(tx'[w])
  BY <1>1, StockHandler DEF TxStockOK
<1>3. LocalsStockOK(p, l)
  BY StockHandler DEF LocalsStockOK
<1>4. TablesStockOK(db')
  BY DEF StockInv
<1> QED
  BY <1>1, <1>2, <1>3, <1>4, StockStep

LEMMA StockCreateDelivery ==
  ASSUME TypeInv, StockInv, NEW w \in Worker, CreateDelivery(w)
  PROVE  StockInv'
<1> DEFINE l == [loc[w] EXCEPT !.dlv = nextDelivery]
           d == tx[w].writes.delivery \cup {nextDelivery}
           u == [tx[w] EXCEPT !.writes.delivery = d]
<1>1. /\ pc[w] = "delivery" /\ pc' = [pc EXCEPT ![w] = "order"]
      /\ loc' = [loc EXCEPT ![w] = l] /\ tx' = [tx EXCEPT ![w] = u] /\ UNCHANGED db
  BY DEF CreateDelivery, InsertDelivery, Set, Goto, TypeInv, TypeOK, DatabaseTypeOK, Transaction
<1> HIDE DEF d
<1>2. /\ u.snap = tx[w].snap /\ u.writes.item = tx[w].writes.item
      /\ u.writes.orderItem = tx[w].writes.orderItem
  BY DEF TypeInv, TypeOK, DatabaseTypeOK, Transaction, Writes
<1>3. l.cart = loc[w].cart /\ l.todo = loc[w].todo /\ l.cmd = loc[w].cmd
  BY DEF TypeInv, TypeOK, Local
<1> HIDE DEF l, u
<1>4. "order" \notin {"reserved", "restored"} /\ pc[w] \in BeforeOrder
  BY <1>1 DEF BeforeOrder
<1> QED
  BY <1>1, <1>2, <1>3, <1>4, StockOtherWrite

LEMMA StockCreateOrder ==
  ASSUME TypeInv, StockInv, NEW w \in Worker, CreateOrder(w)
  PROVE  StockInv'
<1> DEFINE l == [loc[w] EXCEPT !.id = nextOrder]
<1>1. PICK row : InsertOrder(w, row)
  BY DEF CreateOrder
<1> DEFINE t == tx[w]
           u == [t EXCEPT !.locks = @ \cup {OrderLock(nextOrder)}, !.writes.orders[nextOrder] = row]
<1>2. /\ pc' = [pc EXCEPT ![w] = "orderItem"] /\ loc' = [loc EXCEPT ![w] = l] /\ UNCHANGED db
  BY DEF CreateOrder, Set, Goto
<1>3. tx' = [tx EXCEPT ![w] = u]
  BY <1>1 DEF InsertOrder
<1>4. t \in Transaction
  BY DEF TypeInv, TypeOK, DatabaseTypeOK
<1>5. /\ u.snap = t.snap /\ u.writes.item = t.writes.item
      /\ u.writes.orderItem = t.writes.orderItem
  BY <1>4 DEF Transaction, Writes
<1>6. l.cart = loc[w].cart /\ l.todo = loc[w].todo /\ l.cmd = loc[w].cmd
  BY DEF TypeInv, TypeOK, Local
<1> HIDE DEF l, u
<1>7. "orderItem" \notin {"reserved", "restored"} /\ "orderItem" \notin BeforeOrder
  BY DEF BeforeOrder
<1> QED
  BY <1>2, <1>3, <1>5, <1>6, <1>7, StockOtherWrite

LEMMA StockUpdateStatus ==
  ASSUME TypeInv, StockInv, NEW w \in Worker, UpdateStatus(w)
  PROVE  StockInv'
<1> DEFINE o   == loc[w].id
           t   == tx[w]
           row == OrderCurrent(w, o)
           new == Changed(t.writes.orders[o], row, [row EXCEPT !.status = "CANCEL"])
           u   == [t EXCEPT !.locks = @ \cup {OrderLock(o)}, !.writes.orders[o] = new]
<1>1. /\ tx' = [tx EXCEPT ![w] = u] /\ pc' = [pc EXCEPT ![w] = "commit"]
      /\ UNCHANGED <<db, loc>>
  BY DEF UpdateStatus, UpdateOrderStatus, Goto
<1>2. t \in Transaction
  BY DEF TypeInv, TypeOK, DatabaseTypeOK
<1> HIDE DEF new, row
<1>3. /\ u.snap = t.snap /\ u.writes.item = t.writes.item
      /\ u.writes.orderItem = t.writes.orderItem
  BY <1>2 DEF Transaction, Writes
<1>4. loc' = [loc EXCEPT ![w] = loc[w]]
  BY <1>1 DEF TypeInv, TypeOK
<1>5. "commit" \notin {"reserved", "restored"} /\ "commit" \notin BeforeOrder
  BY DEF BeforeOrder
<1> HIDE DEF u
<1> QED
  BY <1>1, <1>3, <1>4, <1>5, StockOtherWrite

LEMMA StockLoadOrder ==
  ASSUME TypeInv, StockInv, NEW w \in Worker, LoadOrder(w)
  PROVE  StockInv'
<1> DEFINE lines == {line \in db.orderItem : line.order = loc[w].id}
           l     == [loc[w] EXCEPT !.todo = lines]
           p     == IF lines = {} THEN "status" ELSE "restore"
<1>1. CASE Abort(w, "not_found") \/ Abort(w, "already_canceled")
  BY <1>1, StockAbort
<1>2. CASE ~(Abort(w, "not_found") \/ Abort(w, "already_canceled"))
  <2>1. /\ TakeSnapshot(w) /\ loc' = [loc EXCEPT ![w] = l]
        /\ pc' = [pc EXCEPT ![w] = p] /\ UNCHANGED db
    BY <1>2 DEF LoadOrder, LinesOf, Set, Goto
  <2>2. /\ tx'[w].snap = db /\ tx'[w].writes = tx[w].writes
        /\ \A v \in Worker \ {w} : tx'[v] = tx[v]
    BY <2>1 DEF TakeSnapshot, TypeInv, TypeOK, DatabaseTypeOK, Transaction
  <2>3. TxStockOK(tx'[w])
    BY <2>2, StockHandler DEF TxStockOK, StockInv
  <2>4. \A line \in lines : line.count >= 0
    BY DEF StockInv, TablesStockOK
  <2>5. p \in {"status", "restore"}
    OBVIOUS
  <2> HIDE DEF lines, p
  <2>6. l.todo = lines /\ l.cart = loc[w].cart
    BY DEF TypeInv, TypeOK, Local
  <2> HIDE DEF l
  <2>7. LocalsStockOK(p, l)
    BY <2>4, <2>5, <2>6, StockHandler DEF LocalsStockOK, BeforeOrder
  <2>8. TablesStockOK(db')
    BY <2>1 DEF StockInv
  <2> QED
    BY <2>1, <2>2, <2>3, <2>7, <2>8, StockStep
<1> QED
  BY <1>1, <1>2

LEMMA StockRestore ==
  ASSUME TypeInv, StockInv, NEW w \in Worker, Restore(w)
  PROVE  StockInv'
<1>1. CASE Abort(w, "not_found")
  BY <1>1, StockAbort
<1>2. CASE ~Abort(w, "not_found")
  <2>1. PICK line \in loc[w].todo : ItemSeen(w, line.item) # NULL /\
          LET row == ItemSeen(w, line.item)
          IN  Set(w, [loc[w] EXCEPT !.todo = @ \ {line},
                                    !.it = [id    |-> line.item,
                                            price |-> row.price,
                                            stock |-> AddStock(row, line.count)]])
    BY <1>2 DEF Restore
  <2> DEFINE row == ItemSeen(w, line.item)
             it  == [id |-> line.item, price |-> row.price, stock |-> AddStock(row, line.count)]
             l   == [loc[w] EXCEPT !.todo = @ \ {line}, !.it = it]
  <2>2. /\ pc[w] = "restore" /\ pc' = [pc EXCEPT ![w] = "restored"]
        /\ row # NULL /\ loc' = [loc EXCEPT ![w] = l] /\ UNCHANGED <<db, tx>>
    BY <1>2, <2>1 DEF Restore, Goto, Set
  <2>3. loc[w] \in Local /\ LocalsStockOK("restore", loc[w])
    BY <2>2, StockHandler DEF TypeInv, TypeOK
  <2>4. line \in LineRow /\ line.count >= 0
    BY <2>3 DEF Local, LocalsStockOK
  <2>5. row \in ItemRow /\ row.stock >= 0
    BY <2>2, <2>4, StockSeen DEF LineRow, InTx
  <2>6. it.stock >= 0
    BY <2>4, <2>5, IntMaxAssumption DEF AddStock, LineRow, ItemRow, Int32
  <2> HIDE DEF it
  <2>7. l.it = it /\ l.todo \subseteq loc[w].todo /\ l.cart = loc[w].cart
    BY <2>3 DEF Local
  <2> HIDE DEF l
  <2>8. LocalsStockOK("restored", l)
    BY <2>3, <2>6, <2>7 DEF LocalsStockOK, BeforeOrder
  <2>9. TablesStockOK(db') /\ TxStockOK(tx'[w]) /\ \A v \in Worker \ {w} : tx'[v] = tx[v]
    BY <2>2 DEF StockInv
  <2> QED
    BY <2>2, <2>8, <2>9, StockStep
<1> QED
  BY <1>1, <1>2

LEMMA StockRestoreUpdate ==
  ASSUME TypeInv, StockInv, RestoredStockFits, NEW w \in Worker, RestoreUpdate(w)
  PROVE  StockInv'
<1> DEFINE l == [loc[w] EXCEPT !.it = NULL]
           p == IF loc[w].todo = {} THEN "status" ELSE "restore"
<1>1. /\ pc[w] = "restored" /\ UpdateStock(w) /\ loc' = [loc EXCEPT ![w] = l]
      /\ pc' = [pc EXCEPT ![w] = p] /\ UNCHANGED db
  BY DEF RestoreUpdate, Set, Goto
<1>2. TxStockOK(tx'[w]) /\ \A v \in Worker \ {w} : tx'[v] = tx[v]
  BY <1>1, StockUpdate
<1>3. l.todo = loc[w].todo /\ l.cart = loc[w].cart
  BY DEF TypeInv, TypeOK, Local
<1>4. p \in {"status", "restore"}
  OBVIOUS
<1> HIDE DEF l, p
<1>5. LocalsStockOK(p, l)
  BY <1>3, <1>4, StockHandler DEF LocalsStockOK, BeforeOrder
<1>6. TablesStockOK(db')
  BY <1>1 DEF StockInv
<1> QED
  BY <1>1, <1>2, <1>5, <1>6, StockStep

\* A COMMIT publishes rows that were non-negative already.
LEMMA StockCommit ==
  ASSUME TypeInv, StockInv, NEW w \in Worker, Commit(w) \/ CommitUnacknowledged(w)
  PROVE  StockInv'
<1>1. /\ pc' = [pc EXCEPT ![w] = "respond"] /\ tx' = [tx EXCEPT ![w] = NoTx]
      /\ db' = Committed(w) /\ loc' = loc
  BY DEF Commit, CommitUnacknowledged, CommitTx, Goto
<1>2. /\ loc' = [loc EXCEPT ![w] = loc[w]] /\ tx'[w] = NoTx
      /\ \A v \in Worker \ {w} : tx'[v] = tx[v]
  BY <1>1 DEF TypeInv, TypeOK, DatabaseTypeOK
<1>3. db \in Tables /\ tx[w].writes \in Writes
  BY DEF TypeInv, TypeOK, DatabaseTypeOK, Transaction
<1>4. TablesStockOK(db')
  <2>1. /\ \A i \in ItemId : db'.item[i] = Version(tx[w].writes.item[i], db.item[i])
        /\ db'.orderItem = db.orderItem \cup tx[w].writes.orderItem
    BY <1>1, <1>3 DEF Committed, Overwrite, Tables
  <2>2. TablesStockOK(db) /\ TxStockOK(tx[w])
    BY DEF StockInv
  <2> QED BY <2>1, <2>2 DEF TablesStockOK, TxStockOK, Version
<1>5. LocalsStockOK("respond", loc[w])
  BY StockHandler DEF LocalsStockOK, BeforeOrder
<1>6. TxStockOK(tx'[w])
  BY <1>2, NoTxStock
<1> QED
  BY <1>1, <1>2, <1>4, <1>5, <1>6, StockStep

\* A new request, or the end of one.
LEMMA StockFresh ==
  ASSUME TypeInv, StockInv, NEW w \in Worker, NEW p, NEW l,
         pc' = [pc EXCEPT ![w] = p], loc' = [loc EXCEPT ![w] = l], UNCHANGED <<db, tx>>,
         LocalsStockOK(p, l)
  PROVE  StockInv'
<1>1. TablesStockOK(db') /\ TxStockOK(tx'[w]) /\ \A v \in Worker \ {w} : tx'[v] = tx[v]
  BY DEF StockInv
<1> QED
  BY <1>1, StockStep

LEMMA StockSubmitPlace ==
  ASSUME TypeInv, StockInv, NEW w \in Worker, NEW cmd \in Cmds, SubmitPlace(w, cmd)
  PROVE  StockInv'
<1> DEFINE l == [NoLocal EXCEPT !.op = "place", !.cmd = cmd]
           p == IF Valid(cmd) THEN "ensure" ELSE "respond"
<1>1. /\ loc' = [loc EXCEPT ![w] = l] /\ pc' = [pc EXCEPT ![w] = p] /\ UNCHANGED <<db, tx>>
  BY DEF SubmitPlace, Set, Goto, dbVars
<1>2. l.cmd = cmd /\ l.cart = << >> /\ l.todo = {}
  BY DEF NoLocal
<1>3. LocalsStockOK(p, l)
  BY <1>2 DEF LocalsStockOK, BeforeOrder
<1> HIDE DEF l, p
<1> QED
  BY <1>1, <1>3, StockFresh

LEMMA StockSubmitCancel ==
  ASSUME TypeInv, StockInv, NEW w \in Worker, NEW o \in OrderId \cup {0}, SubmitCancel(w, o)
  PROVE  StockInv'
<1> DEFINE l == [NoLocal EXCEPT !.op = "cancel", !.id = o]
           p == IF o = 0 THEN "respond" ELSE "load"
<1>1. /\ loc' = [loc EXCEPT ![w] = l] /\ pc' = [pc EXCEPT ![w] = p] /\ UNCHANGED <<db, tx>>
  BY DEF SubmitCancel, Set, Goto
<1>2. l.cart = << >> /\ l.todo = {}
  BY DEF NoLocal
<1>3. p \in {"load", "respond"}
  OBVIOUS
<1> HIDE DEF l, p
<1>4. LocalsStockOK(p, l)
  BY <1>2, <1>3 DEF LocalsStockOK, BeforeOrder
<1> QED
  BY <1>1, <1>4, StockFresh

LEMMA StockRespond ==
  ASSUME TypeInv, StockInv, NEW w \in Worker, Respond(w)
  PROVE  StockInv'
<1>1. /\ loc' = [loc EXCEPT ![w] = NoLocal] /\ pc' = [pc EXCEPT ![w] = "idle"]
      /\ UNCHANGED <<db, tx>>
  BY DEF Respond, Set, Goto
<1>2. LocalsStockOK("idle", NoLocal)
  BY NoLocalStock DEF Control, BeforeOrder
<1> QED
  BY <1>1, <1>2, StockFresh

LEMMA StockCrash ==
  ASSUME TypeInv, StockInv, Crash
  PROVE  StockInv'
<1>1. LocalsStockOK("idle", NoLocal)
  BY NoLocalStock DEF Control, BeforeOrder
<1>2. \A w \in Worker : TxStockOK(tx'[w]) /\ LocalsStockOK(pc'[w], loc'[w])
  BY <1>1, NoTxStock DEF Crash
<1>3. TablesStockOK(db')
  BY DEF Crash, StockInv
<1> QED
  BY <1>2, <1>3 DEF StockInv, TablesStockOK, TxStockOK, LocalsStockOK

\* Writes of the other contexts: the item endpoints refuse negative stock.
LEMMA StockElsewhere ==
  ASSUME StockInv, UNCHANGED <<tx, pc, loc>>, TablesStockOK(db')
  PROVE  StockInv'
<1>1. \A w \in Worker : TxStockOK(tx'[w]) /\ LocalsStockOK(pc'[w], loc'[w])
  BY DEF StockInv
<1> QED
  BY <1>1 DEF StockInv, TablesStockOK, TxStockOK, LocalsStockOK

LEMMA StockItemWrite ==
  ASSUME TypeInv, StockInv, NEW i \in ItemId, FittingWrite(i)
  PROVE  StockInv'
<1>1. PICK r \in CatalogRows : r.stock \in Int32 /\ (CreateItem(i, r) \/ ReplaceItem(i, r))
  BY DEF FittingWrite
<1> DEFINE row == [price |-> ToInt32(r.price), stock |-> ToInt32(r.stock)]
<1>2. row.stock >= 0
  <2>1. r.stock \in Nat /\ r.stock \in Int32
    BY <1>1, CatalogAssumption
  <2>2. ToInt32(r.stock) = r.stock
    BY <2>1, ToInt32Fits
  <2> QED BY <2>1, <2>2
<1>3. db' = [db EXCEPT !.item[i] = row] /\ UNCHANGED <<tx, pc, loc>>
  BY <1>1 DEF CreateItem, ReplaceItem, InsertItem, UpdateItem, handlerVars
<1> HIDE DEF row
<1>4. /\ db'.item[i] = row /\ db'.orderItem = db.orderItem
      /\ \A j \in ItemId \ {i} : db'.item[j] = db.item[j]
  BY <1>3 DEF TypeInv, TypeOK, DatabaseTypeOK, Tables
<1>5. TablesStockOK(db')
  BY <1>2, <1>4 DEF StockInv, TablesStockOK
<1> QED
  BY <1>3, <1>5, StockElsewhere

LEMMA StockRegister ==
  ASSUME TypeInv, StockInv, NEW m \in MemberId, Register(m)
  PROVE  StockInv'
<1>1. db'.item = db.item /\ db'.orderItem = db.orderItem
  BY DEF Register, InsertMember, TypeInv, TypeOK, DatabaseTypeOK, Tables
<1>2. TablesStockOK(db')
  BY <1>1 DEF StockInv, TablesStockOK
<1> QED
  BY <1>2, StockElsewhere DEF Register, handlerVars

LEMMA StockNext ==
  TypeInv /\ RestoredStockFits /\ StockInv /\ [Next]_vars
    /\ [\A i \in ItemId : CatalogWrites(i) => FittingWrite(i)]_vars => StockInv'
<1> SUFFICES ASSUME TypeInv, RestoredStockFits, StockInv, [Next]_vars,
                    [\A i \in ItemId : CatalogWrites(i) => FittingWrite(i)]_vars
             PROVE  StockInv'
  OBVIOUS
<1>1. CASE UNCHANGED vars
  <2>1. TablesStockOK(db') /\ UNCHANGED <<tx, pc, loc>>
    BY <1>1 DEF vars, StockInv
  <2> QED BY <2>1, StockElsewhere
<1>2. ASSUME NEW w \in Worker, Statement(w) PROVE StockInv'
  BY <1>2, StockEnsureExists, StockReserve, StockReserveUpdate, StockCreateDelivery,
     StockCreateOrder, StockCreateOrderItem, StockLoadOrder, StockRestore,
     StockRestoreUpdate, StockUpdateStatus, StockCommit, StockRespond DEF Statement
<1>3. ASSUME NEW w \in Worker, StatementFails(w) \/ DeadlockVictim(w) PROVE StockInv'
  BY <1>3, StockAbort DEF StatementFails, DeadlockVictim
<1>4. ASSUME NEW i \in ItemId, CatalogWrites(i) PROVE StockInv'
  BY <1>1, <1>4, StockItemWrite
<1> QED
  BY <1>1, <1>2, <1>3, <1>4, StockSubmitPlace, StockSubmitCancel, StockCommit, StockCrash,
     StockRegister DEF Next, Handlers, OtherContexts

\* Whatever requests interleave, fail or crash, stock is negative only after an
\* amount did not fit its column: one sent to an item endpoint (SentStockFits),
\* or one that a Restore computed (RestoredStockFits).  Nothing in the code excludes
\* either, and run stock_wraps shows the second.
THEOREM StockStaysNonNegative ==
  Spec /\ SentStockFits /\ []RestoredStockFits => []StockNeverNegative
<1>1. StockInv => StockNeverNegative
  BY DEF StockInv, TablesStockOK, StockNeverNegative
<1>2. TypeInv /\ RestoredStockFits /\ StockInv /\ [Next]_vars
        /\ [\A i \in ItemId : CatalogWrites(i) => FittingWrite(i)]_vars => StockInv'
  BY StockNext
<1> QED
  BY <1>1, <1>2, TypeInit, TypeNext, StockInit, PTL DEF Spec, SentStockFits
=============================================================================
