------------------------ MODULE OrderingAtomicityProofs -----------------------
(* Orders are all or nothing, and what a client was told is what the tables *)
(* hold.                                                                    *)
EXTENDS OrderingProofs

-----------------------------------------------------------------------------
(* What a handler's locals say of the way it has come, first without the    *)
(* tables: which request it serves, how far its cart is, which ids it has.  *)

Placing == BeforeOrder \cup {"orderItem"}
Canceling == {"load", "restore", "restored", "status"}

\* The cart holds a line for each line of the command reserved so far.
CartOK(p, l) ==
    /\ p \in Placing \cup {"commit"} => Valid(l.cmd)
    /\ p \in {"ensure", "reserve", "reserved"} => Len(l.cart) = l.k - 1
    /\ p \in {"delivery", "order", "orderItem", "commit"} => Len(l.cart) = Len(l.cmd.lines)
    /\ \A n \in DOMAIN l.cart :
         /\ n \in DOMAIN l.cmd.lines
         /\ l.cart[n].item = l.cmd.lines[n].item
         /\ l.cart[n].count = l.cmd.lines[n].count
         /\ l.cart[n].count \in Int32
    /\ p = "reserved" =>
         /\ l.it.id = l.cmd.lines[l.k].item
         /\ l.cmd.lines[l.k].count \in Int32
    /\ p \in {"delivery", "order"} => l.k = 1
    /\ p = "commit" => l.k = Len(l.cart) + 1

HandlerOK(p, l, r) ==
    /\ p = "idle" => l = NoLocal
    /\ p # "respond" => r = "none"
    /\ p \in Placing => l.op = "place"
    /\ p \in Canceling => l.op = "cancel"
    /\ p = "commit" => l.op \in {"place", "cancel"}
    /\ p \in BeforeOrder => l.id = 0
    /\ l.op = "cancel" /\ p # "respond" => l.id \in OrderId
    /\ l.op = "place" =>
         /\ l.cmd \in Cmds /\ l.cmd \in PlaceCommand
         /\ CartOK(p, l)
         /\ p \in {"orderItem", "commit"} => l.id \in OrderId /\ l.dlv \in DeliveryId
         /\ r \in {"bad_param", "not_found", "insufficient_stock"} => l.id = 0
    /\ r = "created" => l.op = "place"
    /\ r \in {"no_content", "already_canceled"} => l.op = "cancel" /\ l.id \in OrderId

HandlersInv == \A w \in Worker : HandlerOK(pc[w], loc[w], reply[w])

LEMMA HandlersInit == Init => HandlersInv
BY DEF Init, HandlersInv, HandlerOK, NoLocal, Placing, Canceling, BeforeOrder

\* A step of one handler.
LEMMA HandlersStep ==
  ASSUME TypeInv, HandlersInv, NEW w \in Worker, NEW p, NEW l, NEW r,
         pc' = [pc EXCEPT ![w] = p], loc' = [loc EXCEPT ![w] = l],
         reply' = [reply EXCEPT ![w] = r], HandlerOK(p, l, r)
  PROVE  HandlersInv'
<1>1. /\ pc'[w] = p /\ loc'[w] = l /\ reply'[w] = r
      /\ \A v \in Worker \ {w} : pc'[v] = pc[v] /\ loc'[v] = loc[v] /\ reply'[v] = reply[v]
  BY DEF TypeInv, TypeOK
<1>2. ASSUME NEW v \in Worker PROVE HandlerOK(pc'[v], loc'[v], reply'[v])
  <2>1. CASE v = w
    BY <2>1, <1>1
  <2>2. CASE v # w
    <3>1. pc'[v] = pc[v] /\ loc'[v] = loc[v] /\ reply'[v] = reply[v]
      BY <2>2, <1>1
    <3> QED BY <3>1 DEF HandlersInv
  <2> QED BY <2>1, <2>2
<1> QED
  BY <1>2 DEF HandlersInv

\* A step that does not answer.
LEMMA HandlersMove ==
  ASSUME TypeInv, HandlersInv, NEW w \in Worker, NEW p, NEW l,
         pc' = [pc EXCEPT ![w] = p], loc' = [loc EXCEPT ![w] = l], UNCHANGED reply,
         pc[w] # "respond", HandlerOK(p, l, "none")
  PROVE  HandlersInv'
<1>1. reply[w] = "none"
  BY DEF HandlersInv, HandlerOK
<1>2. reply' = [reply EXCEPT ![w] = "none"]
  BY <1>1 DEF TypeInv, TypeOK
<1> QED
  BY <1>2, HandlersStep

LEMMA HandlersAbort ==
  ASSUME TypeInv, HandlersInv, NEW w \in Worker, NEW e, Abort(w, e),
         e \notin {"created", "no_content"},
         e = "already_canceled" => loc[w].op = "cancel" /\ loc[w].id \in OrderId,
         e \in {"bad_param", "not_found", "insufficient_stock"} /\ loc[w].op = "place"
           => loc[w].id = 0
  PROVE  HandlersInv'
<1>1. /\ pc' = [pc EXCEPT ![w] = "respond"] /\ loc' = loc
      /\ reply' = [reply EXCEPT ![w] = e]
  BY DEF Abort, Goto
<1>2. loc' = [loc EXCEPT ![w] = loc[w]]
  BY <1>1 DEF TypeInv, TypeOK
<1>3. HandlerOK(pc[w], loc[w], reply[w])
  BY DEF HandlersInv
<1>4. HandlerOK("respond", loc[w], e)
  BY <1>3 DEF HandlerOK, CartOK, Placing, Canceling, BeforeOrder
<1> QED
  BY <1>1, <1>2, <1>4, HandlersStep

LEMMA HandlersSubmitPlace ==
  ASSUME TypeInv, HandlersInv, NEW w \in Worker, NEW cmd \in Cmds, SubmitPlace(w, cmd)
  PROVE  HandlersInv'
<1> DEFINE l == [NoLocal EXCEPT !.op = "place", !.cmd = cmd]
<1>1. /\ l.op = "place" /\ l.cmd = cmd /\ l.id = 0 /\ l.k = 1 /\ l.cart = << >>
  BY DEF NoLocal
<1>2. pc[w] = "idle" /\ loc' = [loc EXCEPT ![w] = l]
  BY DEF SubmitPlace, Set
<1>3. cmd \in PlaceCommand
  BY CmdsAssumption
<1> HIDE DEF l
<1>4. CASE Valid(cmd)
  <2>1. HandlerOK("ensure", l, "none")
    BY <1>1, <1>3, <1>4 DEF HandlerOK, CartOK, Placing, Canceling, BeforeOrder
  <2> QED BY <1>2, <1>4, <2>1, HandlersMove DEF SubmitPlace, Goto
<1>5. CASE ~Valid(cmd)
  <2>1. HandlerOK("respond", l, "bad_param")
    BY <1>1, <1>3 DEF HandlerOK, CartOK, Placing, Canceling, BeforeOrder
  <2> QED BY <1>2, <1>5, <2>1, HandlersStep DEF SubmitPlace, Goto
<1> QED
  BY <1>4, <1>5

LEMMA HandlersEnsureExists ==
  ASSUME TypeInv, HandlersInv, NEW w \in Worker, EnsureExists(w)
  PROVE  HandlersInv'
<1>1. pc[w] = "ensure" /\ HandlerOK("ensure", loc[w], reply[w])
  BY DEF EnsureExists, HandlersInv
<1>2. CASE Abort(w, "not_found")
  BY <1>1, <1>2, HandlersAbort DEF HandlerOK, BeforeOrder
<1>3. CASE ~Abort(w, "not_found")
  <2>1. /\ pc' = [pc EXCEPT ![w] = "reserve"] /\ UNCHANGED <<loc, reply>>
    BY <1>3 DEF EnsureExists, Goto
  <2>2. loc' = [loc EXCEPT ![w] = loc[w]]
    BY <2>1 DEF TypeInv, TypeOK
  <2>3. HandlerOK("reserve", loc[w], "none")
    BY <1>1 DEF HandlerOK, CartOK, Placing, Canceling, BeforeOrder
  <2> QED BY <1>1, <2>1, <2>2, <2>3, HandlersMove
<1> QED
  BY <1>2, <1>3

\* RemoveStock's check leaves only counts that fit the column.
LEMMA HandlersReserve ==
  ASSUME TypeInv, HandlersInv, NEW w \in Worker, Reserve(w)
  PROVE  HandlersInv'
<1> DEFINE line == loc[w].cmd.lines[loc[w].k]
           row  == ItemSeen(w, line.item)
           it   == [id |-> line.item, price |-> row.price, stock |-> row.stock - line.count]
           l    == [loc[w] EXCEPT !.it = it]
<1>1. pc[w] = "reserve" /\ HandlerOK("reserve", loc[w], reply[w])
  BY DEF Reserve, HandlersInv
<1>2. CASE Abort(w, "not_found") \/ Abort(w, "insufficient_stock")
  BY <1>1, <1>2, HandlersAbort DEF HandlerOK, BeforeOrder
<1>3. CASE ~(Abort(w, "not_found") \/ Abort(w, "insufficient_stock"))
  <2>1. /\ pc' = [pc EXCEPT ![w] = "reserved"] /\ row # NULL /\ row.stock >= line.count
        /\ loc' = [loc EXCEPT ![w] = l] /\ UNCHANGED reply
    BY <1>3 DEF Reserve, CanRemove, Goto, Set
  <2>2. LocalsOK("reserve", loc[w], tx[w]) /\ loc[w] \in Local
    BY <1>1 DEF TypeInv, TypeOK
  <2>3. line \in Line /\ line.count > 0
    BY <1>1, <2>2 DEF LocalsOK, HandlerOK, CartOK, Placing, BeforeOrder, PlaceCommand, Valid
  <2>4. row \in ItemRow
    BY <1>1, <2>1, <2>3, ItemSeenType DEF Line, InTx, Opt
  <2>5. line.count \in Int32 /\ it.id = line.item
    BY <2>1, <2>3, <2>4, IntMaxAssumption DEF Line, ItemRow, Int32
  <2> HIDE DEF it
  <2>6. /\ l.it = it /\ l.cmd = loc[w].cmd /\ l.k = loc[w].k /\ l.cart = loc[w].cart
        /\ l.id = loc[w].id /\ l.op = loc[w].op
    BY <2>2 DEF Local
  <2> HIDE DEF l
  <2>7. HandlerOK("reserved", l, "none")
    BY <1>1, <2>5, <2>6 DEF HandlerOK, CartOK, Placing, Canceling, BeforeOrder
  <2> QED BY <1>1, <2>1, <2>7, HandlersMove
<1> QED
  BY <1>2, <1>3

LEMMA HandlersReserveUpdate ==
  ASSUME TypeInv, HandlersInv, NEW w \in Worker, ReserveUpdate(w)
  PROVE  HandlersInv'
<1> DEFINE cmd  == loc[w].cmd
           k    == loc[w].k
           it   == loc[w].it
           last == k = Len(cmd.lines)
           oi   == [item |-> it.id, price |-> it.price, count |-> cmd.lines[k].count]
           cart == Append(loc[w].cart, oi)
           n    == IF last THEN 1 ELSE k + 1
           l    == [loc[w] EXCEPT !.cart = cart, !.it = NULL, !.k = n]
           p    == IF last THEN "delivery" ELSE "reserve"
<1>1. /\ pc[w] = "reserved" /\ loc' = [loc EXCEPT ![w] = l]
      /\ pc' = [pc EXCEPT ![w] = p] /\ UNCHANGED reply
  BY DEF ReserveUpdate, Set, Goto
<1>2. /\ HandlerOK("reserved", loc[w], reply[w])
      /\ LocalsOK("reserved", loc[w], tx[w]) /\ loc[w] \in Local
  BY <1>1 DEF HandlersInv, TypeInv, TypeOK
<1>3. /\ cmd.lines \in Seq(Line) /\ k \in 1 .. Len(cmd.lines) /\ loc[w].op = "place"
      /\ loc[w].cart \in Seq(OrderItem) /\ Len(loc[w].cart) = k - 1
  BY <1>2 DEF LocalsOK, HandlerOK, CartOK, Placing, BeforeOrder, PlaceCommand, Local
<1>4. oi.item = cmd.lines[k].item /\ oi.count = cmd.lines[k].count /\ oi.count \in Int32
  BY <1>2, <1>3 DEF HandlerOK, CartOK
<1> HIDE DEF oi
<1>5. /\ Len(cart) = k /\ DOMAIN cart = 1 .. k /\ cart[k] = oi
      /\ \A m \in 1 .. (k - 1) : m \in DOMAIN loc[w].cart /\ cart[m] = loc[w].cart[m]
  BY <1>3
<1> HIDE DEF cart
<1>6. \A m \in DOMAIN cart :
         /\ m \in DOMAIN cmd.lines
         /\ cart[m].item = cmd.lines[m].item
         /\ cart[m].count = cmd.lines[m].count
         /\ cart[m].count \in Int32
  <2>1. TAKE m \in DOMAIN cart
  <2>2. CASE m = k
    BY <2>2, <1>3, <1>4, <1>5
  <2>3. CASE m # k
    <3>1. m \in 1 .. (k - 1)
      BY <2>3, <1>3, <1>5
    <3>2. m \in DOMAIN loc[w].cart /\ cart[m] = loc[w].cart[m]
      BY <3>1, <1>5
    <3> QED BY <3>2, <1>2, <1>3 DEF HandlerOK, CartOK
  <2> QED BY <2>2, <2>3
<1>7. /\ last => n = 1 /\ Len(cart) = Len(cmd.lines)
      /\ ~last => Len(cart) = n - 1
  BY <1>3, <1>5
<1> HIDE DEF n
<1>8. l.cart = cart /\ l.k = n /\ l.cmd = cmd /\ l.id = loc[w].id /\ l.op = loc[w].op
  BY <1>2 DEF Local
<1> HIDE DEF l
<1>9. HandlerOK(p, l, "none")
  <2>1. CASE last
    <3>1. p = "delivery"
      BY <2>1
    <3> HIDE DEF last, p
    <3>2. CartOK("delivery", l)
      BY <1>2, <1>3, <1>6, <1>7, <1>8, <2>1 DEF HandlerOK, CartOK, Placing, BeforeOrder
    <3> QED BY <3>1, <3>2, <1>2, <1>3, <1>8 DEF HandlerOK, Placing, Canceling, BeforeOrder
  <2>2. CASE ~last
    <3>1. p = "reserve"
      BY <2>2
    <3> HIDE DEF last, p
    <3>2. CartOK("reserve", l)
      BY <1>2, <1>3, <1>6, <1>7, <1>8, <2>2 DEF HandlerOK, CartOK, Placing, BeforeOrder
    <3> QED BY <3>1, <3>2, <1>2, <1>3, <1>8 DEF HandlerOK, Placing, Canceling, BeforeOrder
  <2> QED BY <2>1, <2>2
<1> HIDE DEF p
<1>10. pc[w] # "respond"
  BY <1>1
<1> QED
  BY <1>1, <1>9, <1>10, HandlersMove

LEMMA HandlersCreateDelivery ==
  ASSUME TypeInv, HandlersInv, NEW w \in Worker, CreateDelivery(w)
  PROVE  HandlersInv'
<1> DEFINE l == [loc[w] EXCEPT !.dlv = nextDelivery]
<1>1. /\ pc[w] = "delivery" /\ pc' = [pc EXCEPT ![w] = "order"]
      /\ loc' = [loc EXCEPT ![w] = l] /\ UNCHANGED reply
  BY DEF CreateDelivery, Set, Goto
<1>2. HandlerOK("delivery", loc[w], reply[w])
  BY <1>1 DEF HandlersInv
<1>3. l.cart = loc[w].cart /\ l.k = loc[w].k /\ l.cmd = loc[w].cmd /\ l.id = loc[w].id
      /\ l.op = loc[w].op
  BY DEF TypeInv, TypeOK, Local
<1> HIDE DEF l
<1>4. HandlerOK("order", l, "none")
  BY <1>2, <1>3 DEF HandlerOK, CartOK, Placing, Canceling, BeforeOrder
<1> QED
  BY <1>1, <1>4, HandlersMove

LEMMA HandlersCreateOrder ==
  ASSUME TypeInv, HandlersInv, NEW w \in Worker, CreateOrder(w)
  PROVE  HandlersInv'
<1> DEFINE l == [loc[w] EXCEPT !.id = nextOrder]
<1>1. /\ pc[w] = "order" /\ pc' = [pc EXCEPT ![w] = "orderItem"]
      /\ loc' = [loc EXCEPT ![w] = l] /\ UNCHANGED reply
  BY DEF CreateOrder, Set, Goto
<1>2. HandlerOK("order", loc[w], reply[w]) /\ LocalsOK("order", loc[w], tx[w])
  BY <1>1 DEF HandlersInv, TypeInv
<1>3. nextOrder \in OrderId
  BY <1>1, IdLeft DEF BeforeOrder
<1>4. l.cart = loc[w].cart /\ l.k = loc[w].k /\ l.cmd = loc[w].cmd /\ l.id = nextOrder
      /\ l.op = loc[w].op /\ l.dlv = loc[w].dlv
  BY DEF TypeInv, TypeOK, Local
<1> HIDE DEF l
<1>5. HandlerOK("orderItem", l, "none")
  BY <1>2, <1>3, <1>4 DEF HandlerOK, LocalsOK, CartOK, Placing, Canceling, BeforeOrder
<1> QED
  BY <1>1, <1>5, HandlersMove

LEMMA HandlersCreateOrderItem ==
  ASSUME TypeInv, HandlersInv, NEW w \in Worker, CreateOrderItem(w)
  PROVE  HandlersInv'
<1> DEFINE l == [loc[w] EXCEPT !.k = loc[w].k + 1]
           p == IF LastLine(w) THEN "commit" ELSE "orderItem"
<1>1. /\ pc[w] = "orderItem" /\ pc' = [pc EXCEPT ![w] = p]
      /\ loc' = [loc EXCEPT ![w] = l] /\ UNCHANGED reply
  BY DEF CreateOrderItem, Set, Goto
<1>2. HandlerOK("orderItem", loc[w], reply[w])
  BY <1>1 DEF HandlersInv
<1>3. l.cart = loc[w].cart /\ l.k = loc[w].k + 1 /\ l.cmd = loc[w].cmd /\ l.id = loc[w].id
      /\ l.op = loc[w].op /\ l.dlv = loc[w].dlv
  BY DEF TypeInv, TypeOK, Local
<1> HIDE DEF l
<1>4. CASE LastLine(w)
  <2>1. HandlerOK("commit", l, "none")
    BY <1>2, <1>3, <1>4 DEF HandlerOK, CartOK, Placing, Canceling, BeforeOrder, LastLine
  <2> QED BY <1>1, <1>4, <2>1, HandlersMove
<1>5. CASE ~LastLine(w)
  <2>1. HandlerOK("orderItem", l, "none")
    BY <1>2, <1>3 DEF HandlerOK, CartOK, Placing, Canceling, BeforeOrder
  <2> QED BY <1>1, <1>5, <2>1, HandlersMove
<1> QED
  BY <1>4, <1>5

LEMMA HandlersSubmitCancel ==
  ASSUME TypeInv, HandlersInv, NEW w \in Worker, NEW o \in OrderId \cup {0},
         SubmitCancel(w, o)
  PROVE  HandlersInv'
<1> DEFINE l == [NoLocal EXCEPT !.op = "cancel", !.id = o]
<1>1. pc[w] = "idle" /\ loc' = [loc EXCEPT ![w] = l]
  BY DEF SubmitCancel, Set
<1>2. l.op = "cancel" /\ l.id = o
  BY DEF NoLocal
<1> HIDE DEF l
<1>3. CASE o # 0
  <2>1. pc' = [pc EXCEPT ![w] = "load"] /\ UNCHANGED reply
    BY <1>3 DEF SubmitCancel, Goto
  <2>2. HandlerOK("load", l, "none")
    BY <1>2, <1>3 DEF HandlerOK, Placing, Canceling, BeforeOrder
  <2> QED BY <1>1, <2>1, <2>2, HandlersMove
<1>4. CASE o = 0
  <2>1. pc' = [pc EXCEPT ![w] = "respond"] /\ reply' = [reply EXCEPT ![w] = "bad_param"]
    BY <1>4 DEF SubmitCancel, Goto
  <2>2. HandlerOK("respond", l, "bad_param")
    BY <1>2 DEF HandlerOK, Placing, Canceling, BeforeOrder
  <2> QED BY <1>1, <2>1, <2>2, HandlersStep
<1> QED
  BY <1>3, <1>4

\* The steps of a cancellation.
LEMMA HandlersCancelStep ==
  ASSUME TypeInv, HandlersInv, NEW w \in Worker, NEW p, NEW l,
         pc[w] \in Canceling, p \in Canceling \cup {"commit"},
         pc' = [pc EXCEPT ![w] = p], loc' = [loc EXCEPT ![w] = l], UNCHANGED reply,
         l.op = loc[w].op, l.id = loc[w].id
  PROVE  HandlersInv'
<1>1. HandlerOK(pc[w], loc[w], reply[w])
  BY DEF HandlersInv
<1>2. l.op = "cancel" /\ l.id \in OrderId
  BY <1>1 DEF HandlerOK, Canceling
<1>3. HandlerOK(p, l, "none")
  BY <1>2 DEF HandlerOK, Placing, Canceling, BeforeOrder
<1> QED
  BY <1>3, HandlersMove DEF Canceling

LEMMA HandlersLoadOrder ==
  ASSUME TypeInv, HandlersInv, NEW w \in Worker, LoadOrder(w)
  PROVE  HandlersInv'
<1> DEFINE lines == LinesOf(loc[w].id)
           l     == [loc[w] EXCEPT !.todo = lines]
           p     == IF lines = {} THEN "status" ELSE "restore"
<1>1. pc[w] = "load" /\ loc[w].op = "cancel" /\ loc[w].id \in OrderId
  BY DEF LoadOrder, HandlersInv, HandlerOK, Canceling
<1>2. CASE Abort(w, "not_found") \/ Abort(w, "already_canceled")
  BY <1>1, <1>2, HandlersAbort
<1>3. CASE ~(Abort(w, "not_found") \/ Abort(w, "already_canceled"))
  <2>1. /\ loc' = [loc EXCEPT ![w] = l] /\ pc' = [pc EXCEPT ![w] = p] /\ UNCHANGED reply
    BY <1>3 DEF LoadOrder, Set, Goto
  <2>2. l.op = loc[w].op /\ l.id = loc[w].id
    BY DEF TypeInv, TypeOK, Local
  <2>3. pc[w] \in Canceling /\ p \in Canceling \cup {"commit"}
    BY <1>1 DEF Canceling
  <2> HIDE DEF l, p
  <2> QED BY <2>1, <2>2, <2>3, HandlersCancelStep
<1> QED
  BY <1>2, <1>3

LEMMA HandlersRestore ==
  ASSUME TypeInv, HandlersInv, NEW w \in Worker, Restore(w)
  PROVE  HandlersInv'
<1>1. pc[w] = "restore" /\ loc[w].op = "cancel"
  BY DEF Restore, HandlersInv, HandlerOK, Canceling
<1>2. CASE Abort(w, "not_found")
  BY <1>1, <1>2, HandlersAbort
<1>3. CASE ~Abort(w, "not_found")
  <2>1. PICK todo, it : loc' = [loc EXCEPT ![w] = [loc[w] EXCEPT !.todo = todo, !.it = it]]
    BY <1>3 DEF Restore, Set
  <2> DEFINE l == [loc[w] EXCEPT !.todo = todo, !.it = it]
  <2>2. l.op = loc[w].op /\ l.id = loc[w].id
    BY DEF TypeInv, TypeOK, Local
  <2>3. pc' = [pc EXCEPT ![w] = "restored"] /\ UNCHANGED reply
    BY <1>3 DEF Restore, Goto
  <2>4. loc' = [loc EXCEPT ![w] = l]
    BY <2>1
  <2> HIDE DEF l
  <2>5. pc[w] \in Canceling /\ "restored" \in Canceling \cup {"commit"}
    BY <1>1 DEF Canceling
  <2> QED BY <2>2, <2>3, <2>4, <2>5, HandlersCancelStep
<1> QED
  BY <1>2, <1>3

LEMMA HandlersRestoreUpdate ==
  ASSUME TypeInv, HandlersInv, NEW w \in Worker, RestoreUpdate(w)
  PROVE  HandlersInv'
<1> DEFINE l == [loc[w] EXCEPT !.it = NULL]
<1>1. PICK p \in {"status", "restore"} :
        /\ pc[w] = "restored" /\ loc' = [loc EXCEPT ![w] = l]
        /\ pc' = [pc EXCEPT ![w] = p] /\ UNCHANGED reply
  BY DEF RestoreUpdate, Set, Goto
<1>2. l.op = loc[w].op /\ l.id = loc[w].id
  BY DEF TypeInv, TypeOK, Local
<1> HIDE DEF l
<1>3. pc[w] \in Canceling /\ p \in Canceling \cup {"commit"}
  BY <1>1 DEF Canceling
<1> QED
  BY <1>1, <1>2, <1>3, HandlersCancelStep

LEMMA HandlersUpdateStatus ==
  ASSUME TypeInv, HandlersInv, NEW w \in Worker, UpdateStatus(w)
  PROVE  HandlersInv'
<1>1. pc[w] = "status" /\ pc' = [pc EXCEPT ![w] = "commit"] /\ UNCHANGED <<loc, reply>>
  BY DEF UpdateStatus, Goto
<1>2. loc' = [loc EXCEPT ![w] = loc[w]]
  BY <1>1 DEF TypeInv, TypeOK
<1>3. pc[w] \in Canceling /\ "commit" \in Canceling \cup {"commit"}
  BY <1>1 DEF Canceling
<1> QED
  BY <1>1, <1>2, <1>3, HandlersCancelStep

LEMMA HandlersCommit ==
  ASSUME TypeInv, HandlersInv, NEW w \in Worker, Commit(w) \/ CommitUnacknowledged(w)
  PROVE  HandlersInv'
<1>1. PICK r \in {Success(w), "internal"} :
        /\ pc[w] = "commit" /\ pc' = [pc EXCEPT ![w] = "respond"]
        /\ reply' = [reply EXCEPT ![w] = r] /\ loc' = loc
  BY DEF Commit, CommitUnacknowledged, Goto
<1>2. loc' = [loc EXCEPT ![w] = loc[w]]
  BY <1>1 DEF TypeInv, TypeOK
<1>3. HandlerOK("commit", loc[w], reply[w])
  BY <1>1 DEF HandlersInv
<1>4. HandlerOK("respond", loc[w], r)
  BY <1>1, <1>3 DEF HandlerOK, CartOK, Placing, Canceling, BeforeOrder, Success
<1> QED
  BY <1>1, <1>2, <1>4, HandlersStep

LEMMA HandlersRespond ==
  ASSUME TypeInv, HandlersInv, NEW w \in Worker, Respond(w)
  PROVE  HandlersInv'
<1>1. /\ pc' = [pc EXCEPT ![w] = "idle"] /\ loc' = [loc EXCEPT ![w] = NoLocal]
      /\ reply' = [reply EXCEPT ![w] = "none"]
  BY DEF Respond, Set, Goto
<1>2. HandlerOK("idle", NoLocal, "none")
  BY DEF HandlerOK, NoLocal, Placing, Canceling, BeforeOrder
<1> QED
  BY <1>1, <1>2, HandlersStep

LEMMA HandlersCrash ==
  ASSUME TypeInv, HandlersInv, Crash
  PROVE  HandlersInv'
BY DEF Crash, HandlersInv, HandlerOK, NoLocal, Placing, Canceling, BeforeOrder

LEMMA HandlersNext == TypeInv /\ HandlersInv /\ [Next]_vars => HandlersInv'
<1> SUFFICES ASSUME TypeInv, HandlersInv, [Next]_vars PROVE HandlersInv'
  OBVIOUS
<1>1. CASE UNCHANGED vars
  BY <1>1 DEF vars, HandlersInv
<1>2. ASSUME NEW w \in Worker, Statement(w) PROVE HandlersInv'
  BY <1>2, HandlersEnsureExists, HandlersReserve, HandlersReserveUpdate,
     HandlersCreateDelivery, HandlersCreateOrder, HandlersCreateOrderItem,
     HandlersLoadOrder, HandlersRestore, HandlersRestoreUpdate, HandlersUpdateStatus,
     HandlersCommit, HandlersRespond DEF Statement
<1>3. ASSUME NEW w \in Worker, StatementFails(w) \/ DeadlockVictim(w) PROVE HandlersInv'
  BY <1>3, HandlersAbort DEF StatementFails, DeadlockVictim
<1>4. CASE OtherContexts
  <2>1. UNCHANGED handlerVars
    BY <1>4 DEF OtherContexts, Register, CatalogWrites, CreateItem, ReplaceItem
  <2> QED BY <2>1 DEF handlerVars, HandlersInv
<1> QED
  BY <1>1, <1>2, <1>3, <1>4, HandlersSubmitPlace, HandlersSubmitCancel, HandlersCommit,
     HandlersCrash DEF Next, Handlers

-----------------------------------------------------------------------------
(* The inductive invariant behind NoPartialOrder and AnswerMatchesDatabase: *)
(* an open transaction holds exactly the part of the order its handler has  *)
(* got to, or the cancellation of a committed order; ids given out are not  *)
(* shared, and no row that is committed has one that is still in a          *)
(* handler's hands.                                                         *)

LinesIn(d, o) == {line \in d.orderItem : line.order = o}

\* Fulfils, in the tables d.
FulfilsIn(d, o, cmd) ==
    /\ d.orders[o].member = cmd.member
    /\ Cardinality(LinesIn(d, o)) = Len(cmd.lines)
    /\ \A n \in DOMAIN cmd.lines : \E l \in LinesIn(d, o) :
         l.pos = n /\ l.item = cmd.lines[n].item /\ l.count = cmd.lines[n].count

Asked(d, o) == \E cmd \in Cmds : Valid(cmd) /\ FulfilsIn(d, o, cmd)

\* The row of the nth line of a handler's cart.
RowOf(l, n) ==
    [order |-> l.id, pos |-> n, item |-> l.cart[n].item,
     price |-> l.cart[n].price, count |-> l.cart[n].count]

RecordedIn(d, l) ==
    /\ l.id # 0
    /\ d.orders[l.id] # NULL
    /\ d.orders[l.id].member = l.cmd.member
    /\ d.orders[l.id].delivery = l.dlv
    /\ LinesIn(d, l.id) = {RowOf(l, n) : n \in DOMAIN l.cart}
    /\ [n \in DOMAIN l.cart |-> [item |-> l.cart[n].item, count |-> l.cart[n].count]]
         = l.cmd.lines

\* The handler's transaction has inserted its order, its delivery.
Inserted(p, l) == l.op = "place" /\ p \in {"orderItem", "commit"}
Delivering(p, l) == l.op = "place" /\ p \in {"order", "orderItem", "commit"}

\* What the transaction t of a handler has written.
WritesOK(p, l, t) ==
    /\ t.writes.delivery = IF Delivering(p, l) THEN {l.dlv} ELSE {}
    /\ t.writes.orderItem = IF Inserted(p, l) THEN {RowOf(l, n) : n \in 1 .. (l.k - 1)} ELSE {}
    /\ Inserted(p, l) =>
         t.writes.orders[l.id] =
           [member |-> l.cmd.member, delivery |-> l.dlv, status |-> "ORDER"]
    /\ \A o \in OrderId : t.writes.orders[o] # NULL =>
         /\ o = l.id
         /\ \/ Inserted(p, l)
            \/ l.op = "cancel" /\ p = "commit"

\* A handler that cancels an order, and the order's row.
CancelOK(p, l, t, d) ==
    /\ l.op = "cancel" /\ p \in {"restore", "restored", "status", "commit"} =>
         d.orders[l.id] # NULL
    /\ l.op = "cancel" /\ p = "commit" =>
         IF t.writes.orders[l.id] = NULL
         THEN d.orders[l.id].status = "CANCEL"
         ELSE t.writes.orders[l.id] = [d.orders[l.id] EXCEPT !.status = "CANCEL"]

\* The ids a handler was given, when n and m are the next of each kind.
IdsOK(p, l, d, n, m) ==
    /\ l.op = "place" /\ l.id # 0 =>
         /\ l.id < n
         /\ p # "respond" => d.orders[l.id] = NULL
         /\ d.orders[l.id] = NULL \/ RecordedIn(d, l)
    /\ Delivering(p, l) => l.dlv < m /\ l.dlv \notin d.delivery

AnswerOK(l, r, d) ==
    /\ r = "created" => RecordedIn(d, l)
    /\ r \in {"no_content", "already_canceled"} =>
         d.orders[l.id] # NULL /\ d.orders[l.id].status = "CANCEL"

\* Two handlers' orders and deliveries are not the same.
Apart(p, l, q, k) ==
    /\ l.op = "place" /\ k.op = "place" /\ l.id # 0 => l.id # k.id
    /\ Delivering(p, l) /\ Delivering(q, k) => l.dlv # k.dlv

TablesWhole(d, m) ==
    /\ \A o \in OrderId : d.orders[o] # NULL =>
         /\ d.orders[o].delivery \in d.delivery
         /\ Asked(d, o)
         /\ LinesIn(d, o) # {}
         /\ {l.pos : l \in LinesIn(d, o)} = 1 .. Cardinality(LinesIn(d, o))
         /\ \A k, l \in LinesIn(d, o) : k.pos = l.pos => k = l
    /\ \A l \in d.orderItem : d.orders[l.order] # NULL
    /\ \A x \in d.delivery :
         /\ x < m
         /\ \E o \in OrderId : d.orders[o] # NULL /\ d.orders[o].delivery = x
    /\ \A o, q \in OrderId :
         d.orders[o] # NULL /\ d.orders[q] # NULL /\ d.orders[o].delivery = d.orders[q].delivery
           => o = q

AtomInv ==
    /\ TablesWhole(db, nextDelivery)
    /\ \A w \in Worker :
         /\ WritesOK(pc[w], loc[w], tx[w])
         /\ CancelOK(pc[w], loc[w], tx[w], db)
         /\ IdsOK(pc[w], loc[w], db, nextOrder, nextDelivery)
         /\ AnswerOK(loc[w], reply[w], db)
    /\ \A v, w \in Worker : v # w => Apart(pc[v], loc[v], pc[w], loc[w])

LEMMA AtomHandler ==
  ASSUME AtomInv, NEW w \in Worker
  PROVE  /\ WritesOK(pc[w], loc[w], tx[w])
         /\ CancelOK(pc[w], loc[w], tx[w], db)
         /\ IdsOK(pc[w], loc[w], db, nextOrder, nextDelivery)
         /\ AnswerOK(loc[w], reply[w], db)
         /\ \A v \in Worker \ {w} : Apart(pc[w], loc[w], pc[v], loc[v])
BY DEF AtomInv

LEMMA NoTxWrites ==
  /\ NoTx.writes.delivery = {} /\ NoTx.writes.orderItem = {}
  /\ \A o \in OrderId : NoTx.writes.orders[o] = NULL
BY DEF NoTx, NoWrites

\* Ids that were given out stay below the next ones.
LEMMA IdsGrow ==
  ASSUME NEW p, NEW l \in Local, NEW d, NEW n1 \in Nat, NEW m1 \in Nat,
         NEW n2 \in Nat, NEW m2 \in Nat, n1 <= n2, m1 <= m2, IdsOK(p, l, d, n1, m1)
  PROVE  IdsOK(p, l, d, n2, m2)
<1>1. l.id \in Nat /\ l.dlv \in Nat
  BY MaxOrderAssumption DEF Local, OrderId, DeliveryId
<1> QED
  BY <1>1 DEF IdsOK

\* A step of one handler that commits nothing.
LEMMA AtomStep ==
  ASSUME TypeInv, AtomInv, NEW w \in Worker, NEW p, NEW l, NEW t, NEW r,
         pc' = [pc EXCEPT ![w] = p], loc' = [loc EXCEPT ![w] = l],
         tx' = [tx EXCEPT ![w] = t], reply' = [reply EXCEPT ![w] = r],
         UNCHANGED db, nextOrder' \in Nat, nextDelivery' \in Nat,
         nextOrder <= nextOrder', nextDelivery <= nextDelivery',
         WritesOK(p, l, t), CancelOK(p, l, t, db),
         IdsOK(p, l, db, nextOrder', nextDelivery'), AnswerOK(l, r, db),
         \A v \in Worker \ {w} : Apart(p, l, pc[v], loc[v])
  PROVE  AtomInv'
<1>1. /\ pc'[w] = p /\ loc'[w] = l /\ tx'[w] = t /\ reply'[w] = r
      /\ \A v \in Worker \ {w} :
           pc'[v] = pc[v] /\ loc'[v] = loc[v] /\ tx'[v] = tx[v] /\ reply'[v] = reply[v]
  BY DEF TypeInv, TypeOK, DatabaseTypeOK
<1>2. nextOrder \in Nat /\ nextDelivery \in Nat
  BY DEF TypeInv, TypeOK, DatabaseTypeOK
<1>3. ASSUME NEW v \in Worker
      PROVE  /\ WritesOK(pc'[v], loc'[v], tx'[v])
             /\ CancelOK(pc'[v], loc'[v], tx'[v], db')
             /\ IdsOK(pc'[v], loc'[v], db', nextOrder', nextDelivery')
             /\ AnswerOK(loc'[v], reply'[v], db')
  <2>1. CASE v = w
    BY <2>1, <1>1
  <2>2. CASE v # w
    <3>1. pc'[v] = pc[v] /\ loc'[v] = loc[v] /\ tx'[v] = tx[v] /\ reply'[v] = reply[v]
      BY <2>2, <1>1
    <3>2. IdsOK(pc[v], loc[v], db, nextOrder', nextDelivery')
      BY AtomHandler, IdsGrow, <1>2 DEF TypeInv, TypeOK
    <3> QED BY <3>1, <3>2, AtomHandler
  <2> QED BY <2>1, <2>2
<1>4. ASSUME NEW u \in Worker, NEW v \in Worker, u # v
      PROVE  Apart(pc'[u], loc'[u], pc'[v], loc'[v])
  <2>1. CASE u # w /\ v # w
    BY <2>1, <1>1, <1>4 DEF AtomInv
  <2>2. CASE u = w
    BY <2>2, <1>1, <1>4
  <2>3. CASE v = w
    BY <2>3, <1>1, <1>4 DEF Apart
  <2> QED BY <2>1, <2>2, <2>3
<1>5. TablesWhole(db', nextDelivery')
  <2>1. \A x \in db.delivery : x < nextDelivery => x < nextDelivery'
    BY <1>2, MaxOrderAssumption DEF TypeInv, TypeOK, DatabaseTypeOK, Tables, DeliveryId
  <2> QED BY <2>1 DEF AtomInv, TablesWhole
<1> QED
  BY <1>3, <1>4, <1>5 DEF AtomInv

\* Do with an error: nothing of the order is left.
LEMMA AtomAbort ==
  ASSUME TypeInv, AtomInv, NEW w \in Worker, NEW e, Abort(w, e),
         e \notin {"created", "no_content"},
         e = "already_canceled" =>
           db.orders[loc[w].id] # NULL /\ db.orders[loc[w].id].status = "CANCEL"
  PROVE  AtomInv'
<1>1. /\ pc' = [pc EXCEPT ![w] = "respond"] /\ tx' = [tx EXCEPT ![w] = NoTx]
      /\ reply' = [reply EXCEPT ![w] = e]
      /\ UNCHANGED <<db, nextOrder, nextDelivery, loc>>
  BY DEF Abort, Goto, RollbackTx
<1>2. loc' = [loc EXCEPT ![w] = loc[w]]
  BY <1>1 DEF TypeInv, TypeOK
<1>3. WritesOK("respond", loc[w], NoTx) /\ CancelOK("respond", loc[w], NoTx, db)
  BY NoTxWrites DEF WritesOK, CancelOK, Inserted, Delivering
<1>4. IdsOK("respond", loc[w], db, nextOrder', nextDelivery')
  BY <1>1, AtomHandler DEF IdsOK, Delivering
<1>5. AnswerOK(loc[w], e, db)
  BY DEF AnswerOK
<1>6. \A v \in Worker \ {w} : Apart("respond", loc[w], pc[v], loc[v])
  BY AtomHandler DEF Apart, Delivering
<1>7. /\ nextOrder' \in Nat /\ nextDelivery' \in Nat
      /\ nextOrder <= nextOrder' /\ nextDelivery <= nextDelivery'
  BY <1>1 DEF TypeInv, TypeOK, DatabaseTypeOK
<1> QED
  BY <1>1, <1>2, <1>3, <1>4, <1>5, <1>6, <1>7, AtomStep

\* A step before anything of the order is written.
LEMMA AtomMove ==
  ASSUME TypeInv, HandlersInv, AtomInv, NEW w \in Worker, NEW p, NEW l, NEW t,
         pc' = [pc EXCEPT ![w] = p], loc' = [loc EXCEPT ![w] = l],
         tx' = [tx EXCEPT ![w] = t],
         UNCHANGED <<db, nextOrder, nextDelivery, reply>>,
         pc[w] \notin {"order", "orderItem", "commit", "respond"},
         p \notin {"order", "orderItem", "commit", "respond"},
         l.op = "place" => l.id = 0,
         t.writes.delivery = tx[w].writes.delivery,
         t.writes.orderItem = tx[w].writes.orderItem,
         t.writes.orders = tx[w].writes.orders,
         l.op = "cancel" /\ p \in {"restore", "restored", "status"} => db.orders[l.id] # NULL
  PROVE  AtomInv'
<1>1. reply[w] = "none"
  BY DEF HandlersInv, HandlerOK
<1>2. reply' = [reply EXCEPT ![w] = "none"]
  BY <1>1 DEF TypeInv, TypeOK
<1>3. WritesOK(p, l, t) /\ CancelOK(p, l, t, db)
  <2>1. WritesOK(pc[w], loc[w], tx[w])
    BY AtomHandler
  <2>2. /\ ~Delivering(pc[w], loc[w]) /\ ~Inserted(pc[w], loc[w])
        /\ ~Delivering(p, l) /\ ~Inserted(p, l) /\ p # "commit" /\ pc[w] # "commit"
    BY DEF Inserted, Delivering
  <2>3. /\ t.writes.delivery = {} /\ t.writes.orderItem = {}
        /\ \A o \in OrderId : t.writes.orders[o] = NULL
    BY <2>1, <2>2 DEF WritesOK
  <2> QED BY <2>2, <2>3 DEF WritesOK, CancelOK
<1>4. IdsOK(p, l, db, nextOrder', nextDelivery') /\ AnswerOK(l, "none", db)
  BY DEF IdsOK, AnswerOK, Delivering
<1>5. \A v \in Worker \ {w} : Apart(p, l, pc[v], loc[v])
  BY DEF Apart, Delivering
<1>6. /\ nextOrder' \in Nat /\ nextDelivery' \in Nat
      /\ nextOrder <= nextOrder' /\ nextDelivery <= nextDelivery'
  BY DEF TypeInv, TypeOK, DatabaseTypeOK
<1> QED
  BY <1>2, <1>3, <1>4, <1>5, <1>6, AtomStep

\* A new request, or the answer to one: nothing is written yet, or any more.
LEMMA AtomFresh ==
  ASSUME TypeInv, LockInv, AtomInv, NEW w \in Worker, NEW p \in {"idle", "ensure", "load", "respond"},
         NEW l, NEW r \in {"none", "bad_param"}, pc[w] \notin InTx,
         pc' = [pc EXCEPT ![w] = p], loc' = [loc EXCEPT ![w] = l],
         reply' = [reply EXCEPT ![w] = r],
         UNCHANGED <<db, nextOrder, nextDelivery, tx>>,
         l.op = "place" => l.id = 0
  PROVE  AtomInv'
<1>1. tx[w] = NoTx
  BY DEF LockInv, NoLeakedTransaction
<1>2. tx' = [tx EXCEPT ![w] = NoTx]
  BY <1>1 DEF TypeInv, TypeOK, DatabaseTypeOK
<1>3. WritesOK(p, l, NoTx) /\ CancelOK(p, l, NoTx, db)
  BY NoTxWrites DEF WritesOK, CancelOK, Inserted, Delivering
<1>4. IdsOK(p, l, db, nextOrder', nextDelivery') /\ AnswerOK(l, r, db)
  BY DEF IdsOK, AnswerOK, Delivering
<1>5. \A v \in Worker \ {w} : Apart(p, l, pc[v], loc[v])
  BY DEF Apart, Delivering
<1>6. /\ nextOrder' \in Nat /\ nextDelivery' \in Nat
      /\ nextOrder <= nextOrder' /\ nextDelivery <= nextDelivery'
  BY DEF TypeInv, TypeOK, DatabaseTypeOK
<1> QED
  BY <1>2, <1>3, <1>4, <1>5, <1>6, AtomStep

LEMMA AtomSubmitPlace ==
  ASSUME TypeInv, LockInv, HandlersInv, AtomInv, NEW w \in Worker, NEW cmd \in Cmds,
         SubmitPlace(w, cmd)
  PROVE  AtomInv'
<1> DEFINE l == [NoLocal EXCEPT !.op = "place", !.cmd = cmd]
<1>1. /\ pc[w] = "idle" /\ loc' = [loc EXCEPT ![w] = l]
      /\ UNCHANGED <<db, nextOrder, nextDelivery, tx>>
  BY DEF SubmitPlace, Set, dbVars
<1>2. l.id = 0
  BY DEF NoLocal
<1> HIDE DEF l
<1>3. pc[w] \notin InTx
  BY <1>1 DEF InTx
<1>4. CASE Valid(cmd)
  <2>1. pc' = [pc EXCEPT ![w] = "ensure"] /\ UNCHANGED reply
    BY <1>4 DEF SubmitPlace, Goto
  <2>2. reply[w] = "none"
    BY <1>1 DEF HandlersInv, HandlerOK
  <2>3. reply' = [reply EXCEPT ![w] = "none"]
    BY <2>1, <2>2 DEF TypeInv, TypeOK
  <2> QED BY <1>1, <1>2, <1>3, <2>1, <2>3, AtomFresh
<1>5. CASE ~Valid(cmd)
  <2>1. /\ pc' = [pc EXCEPT ![w] = "respond"]
        /\ reply' = [reply EXCEPT ![w] = "bad_param"]
    BY <1>5 DEF SubmitPlace, Goto
  <2> QED BY <1>1, <1>2, <1>3, <2>1, AtomFresh
<1> QED
  BY <1>4, <1>5

LEMMA AtomSubmitCancel ==
  ASSUME TypeInv, LockInv, HandlersInv, AtomInv, NEW w \in Worker,
         NEW o \in OrderId \cup {0}, SubmitCancel(w, o)
  PROVE  AtomInv'
<1> DEFINE l == [NoLocal EXCEPT !.op = "cancel", !.id = o]
           p == IF o = 0 THEN "respond" ELSE "load"
           r == IF o = 0 THEN "bad_param" ELSE "none"
<1>1. /\ pc[w] = "idle" /\ loc' = [loc EXCEPT ![w] = l] /\ pc' = [pc EXCEPT ![w] = p]
      /\ UNCHANGED <<db, nextOrder, nextDelivery, tx>>
  BY DEF SubmitCancel, Set, Goto
<1>2. l.op = "cancel"
  BY DEF NoLocal
<1> HIDE DEF l
<1>3. reply[w] = "none" /\ pc[w] \notin InTx
  BY <1>1 DEF HandlersInv, HandlerOK, InTx
<1>4. reply' = [reply EXCEPT ![w] = r]
  BY <1>3 DEF SubmitCancel, TypeInv, TypeOK
<1>5. p \in {"load", "respond"} /\ r \in {"none", "bad_param"}
  OBVIOUS
<1> HIDE DEF p, r
<1> QED
  BY <1>1, <1>2, <1>3, <1>4, <1>5, AtomFresh

LEMMA AtomRespond ==
  ASSUME TypeInv, LockInv, AtomInv, NEW w \in Worker, Respond(w)
  PROVE  AtomInv'
<1>1. /\ pc[w] = "respond" /\ pc' = [pc EXCEPT ![w] = "idle"]
      /\ loc' = [loc EXCEPT ![w] = NoLocal] /\ reply' = [reply EXCEPT ![w] = "none"]
      /\ UNCHANGED <<db, nextOrder, nextDelivery, tx>>
  BY DEF Respond, Set, Goto
<1>2. NoLocal.id = 0 /\ pc[w] \notin InTx
  BY <1>1 DEF NoLocal, InTx
<1> QED
  BY <1>1, <1>2, AtomFresh

LEMMA AtomEnsureExists ==
  ASSUME TypeInv, HandlersInv, AtomInv, NEW w \in Worker, EnsureExists(w)
  PROVE  AtomInv'
<1>1. CASE Abort(w, "not_found")
  BY <1>1, AtomAbort
<1>2. CASE ~Abort(w, "not_found")
  <2> DEFINE t == [tx[w] EXCEPT !.snap = db]
  <2>1. /\ pc[w] = "ensure" /\ tx' = [tx EXCEPT ![w] = t] /\ pc' = [pc EXCEPT ![w] = "reserve"]
        /\ UNCHANGED <<db, nextOrder, nextDelivery, loc, reply>>
    BY <1>2 DEF EnsureExists, TakeSnapshot, Goto
  <2>2. loc' = [loc EXCEPT ![w] = loc[w]]
    BY <2>1 DEF TypeInv, TypeOK
  <2>3. t.writes = tx[w].writes
    BY DEF TypeInv, TypeOK, DatabaseTypeOK, Transaction
  <2>4. loc[w].id = 0 /\ loc[w].op = "place"
    BY <2>1 DEF HandlersInv, HandlerOK, BeforeOrder, Placing
  <2> HIDE DEF t
  <2> QED BY <2>1, <2>2, <2>3, <2>4, AtomMove
<1> QED
  BY <1>1, <1>2

LEMMA AtomReserve ==
  ASSUME TypeInv, HandlersInv, AtomInv, NEW w \in Worker, Reserve(w)
  PROVE  AtomInv'
<1>1. CASE Abort(w, "not_found") \/ Abort(w, "insufficient_stock")
  BY <1>1, AtomAbort
<1>2. CASE ~(Abort(w, "not_found") \/ Abort(w, "insufficient_stock"))
  <2>1. PICK it : loc' = [loc EXCEPT ![w] = [loc[w] EXCEPT !.it = it]]
    BY <1>2 DEF Reserve, Set
  <2> DEFINE l == [loc[w] EXCEPT !.it = it]
  <2>2. /\ pc[w] = "reserve" /\ pc' = [pc EXCEPT ![w] = "reserved"]
        /\ UNCHANGED <<db, nextOrder, nextDelivery, tx, reply>>
    BY <1>2 DEF Reserve, Goto
  <2>3. tx' = [tx EXCEPT ![w] = tx[w]]
    BY <2>2 DEF TypeInv, TypeOK, DatabaseTypeOK
  <2>4. l.id = 0 /\ l.op = "place"
    BY <2>2 DEF HandlersInv, HandlerOK, BeforeOrder, Placing, TypeInv, TypeOK, Local
  <2>5. loc' = [loc EXCEPT ![w] = l]
    BY <2>1
  <2> HIDE DEF l
  <2> QED BY <2>2, <2>3, <2>4, <2>5, AtomMove
<1> QED
  BY <1>1, <1>2

\* UpdateStock writes an item's version only.
LEMMA AtomUpdateStock ==
  ASSUME TypeInv, NEW w \in Worker, pc[w] \in {"reserved", "restored"}, UpdateStock(w)
  PROVE  \E t : /\ tx' = [tx EXCEPT ![w] = t]
                /\ t.writes.delivery = tx[w].writes.delivery
                /\ t.writes.orderItem = tx[w].writes.orderItem
                /\ t.writes.orders = tx[w].writes.orders
<1> DEFINE i   == loc[w].it.id
           t   == tx[w]
           row == ItemCurrent(w, i)
           new == Changed(t.writes.item[i], row,
                          [row EXCEPT !.stock = ToInt32(loc[w].it.stock)])
           u   == [t EXCEPT !.locks = @ \cup {ItemLock(i)}, !.writes.item[i] = new]
<1>1. tx' = [tx EXCEPT ![w] = u]
  BY DEF UpdateStock, UpdateItemStock
<1>2. t \in Transaction
  BY DEF TypeInv, TypeOK, DatabaseTypeOK
<1> HIDE DEF new, row, i
<1>3. /\ u.writes.delivery = t.writes.delivery /\ u.writes.orderItem = t.writes.orderItem
      /\ u.writes.orders = t.writes.orders
  BY <1>2 DEF Transaction, Writes
<1> HIDE DEF u
<1> QED
  BY <1>1, <1>3

LEMMA AtomReserveUpdate ==
  ASSUME TypeInv, HandlersInv, AtomInv, NEW w \in Worker, ReserveUpdate(w)
  PROVE  AtomInv'
<1>1. PICK cart, n : loc' = [loc EXCEPT ![w] = [loc[w] EXCEPT !.cart = cart, !.it = NULL, !.k = n]]
  BY DEF ReserveUpdate, Set
<1> DEFINE l == [loc[w] EXCEPT !.cart = cart, !.it = NULL, !.k = n]
<1>2. PICK p \in {"delivery", "reserve"} :
        /\ pc[w] = "reserved" /\ pc' = [pc EXCEPT ![w] = p] /\ UpdateStock(w)
        /\ UNCHANGED <<db, nextOrder, nextDelivery, reply>>
  BY DEF ReserveUpdate, Goto
<1>3. PICK t : /\ tx' = [tx EXCEPT ![w] = t]
               /\ t.writes.delivery = tx[w].writes.delivery
               /\ t.writes.orderItem = tx[w].writes.orderItem
               /\ t.writes.orders = tx[w].writes.orders
  BY <1>2, AtomUpdateStock
<1>4. l.id = 0 /\ l.op = "place"
  BY <1>2 DEF HandlersInv, HandlerOK, BeforeOrder, Placing, TypeInv, TypeOK, Local
<1>5. loc' = [loc EXCEPT ![w] = l]
  BY <1>1
<1> HIDE DEF l
<1>6. /\ pc[w] \notin {"order", "orderItem", "commit", "respond"}
      /\ p \notin {"order", "orderItem", "commit", "respond"}
  BY <1>2
<1> QED
  BY <1>2, <1>3, <1>4, <1>5, <1>6, AtomMove

LEMMA AtomLoadOrder ==
  ASSUME TypeInv, HandlersInv, AtomInv, NEW w \in Worker, LoadOrder(w)
  PROVE  AtomInv'
<1> DEFINE lines == LinesOf(loc[w].id)
           l     == [loc[w] EXCEPT !.todo = lines]
           p     == IF lines = {} THEN "status" ELSE "restore"
           t     == [tx[w] EXCEPT !.snap = db]
<1>1. pc[w] = "load" /\ loc[w].op = "cancel" /\ loc[w].id \in OrderId
  BY DEF LoadOrder, HandlersInv, HandlerOK, Canceling
<1>2. CASE Abort(w, "not_found")
  BY <1>2, AtomAbort
<1>3. CASE /\ Abort(w, "already_canceled") /\ db.orders[loc[w].id] # NULL
           /\ db.orders[loc[w].id].status # "ORDER"
  <2>1. db.orders[loc[w].id].status = "CANCEL"
    BY <1>1, <1>3 DEF TypeInv, TypeOK, DatabaseTypeOK, Tables, Opt, OrderRow, OrderStatus
  <2> QED BY <1>3, <2>1, AtomAbort
<1>4. CASE /\ ~Abort(w, "not_found")
           /\ ~(/\ Abort(w, "already_canceled") /\ db.orders[loc[w].id] # NULL
                /\ db.orders[loc[w].id].status # "ORDER")
  <2>1. /\ db.orders[loc[w].id] # NULL
        /\ loc' = [loc EXCEPT ![w] = l] /\ pc' = [pc EXCEPT ![w] = p]
        /\ tx' = [tx EXCEPT ![w] = t]
        /\ UNCHANGED <<db, nextOrder, nextDelivery, reply>>
    BY <1>4 DEF LoadOrder, CanCancel, Set, Goto, TakeSnapshot
  <2>2. l.op = "cancel" /\ l.id = loc[w].id /\ t.writes = tx[w].writes
    BY <1>1 DEF TypeInv, TypeOK, Local, DatabaseTypeOK, Transaction
  <2>3. /\ pc[w] \notin {"order", "orderItem", "commit", "respond"}
        /\ p \notin {"order", "orderItem", "commit", "respond"}
    BY <1>1
  <2> HIDE DEF l, p, t
  <2> QED BY <2>1, <2>2, <2>3, AtomMove
<1> QED
  BY <1>2, <1>3, <1>4

LEMMA AtomRestore ==
  ASSUME TypeInv, HandlersInv, AtomInv, NEW w \in Worker, Restore(w)
  PROVE  AtomInv'
<1>1. CASE Abort(w, "not_found")
  BY <1>1, AtomAbort
<1>2. CASE ~Abort(w, "not_found")
  <2>1. PICK todo, it : loc' = [loc EXCEPT ![w] = [loc[w] EXCEPT !.todo = todo, !.it = it]]
    BY <1>2 DEF Restore, Set
  <2> DEFINE l == [loc[w] EXCEPT !.todo = todo, !.it = it]
  <2>2. /\ pc[w] = "restore" /\ pc' = [pc EXCEPT ![w] = "restored"]
        /\ UNCHANGED <<db, nextOrder, nextDelivery, tx, reply>>
    BY <1>2 DEF Restore, Goto
  <2>3. tx' = [tx EXCEPT ![w] = tx[w]]
    BY <2>2 DEF TypeInv, TypeOK, DatabaseTypeOK
  <2>4. l.id = loc[w].id /\ l.op = "cancel"
    BY <2>2 DEF HandlersInv, HandlerOK, Canceling, TypeInv, TypeOK, Local
  <2>5. loc' = [loc EXCEPT ![w] = l]
    BY <2>1
  <2>6. db.orders[loc[w].id] # NULL
    BY <2>2, AtomHandler DEF CancelOK, HandlersInv, HandlerOK, Canceling
  <2> HIDE DEF l
  <2> QED BY <2>2, <2>3, <2>4, <2>5, <2>6, AtomMove
<1> QED
  BY <1>1, <1>2

LEMMA AtomRestoreUpdate ==
  ASSUME TypeInv, HandlersInv, AtomInv, NEW w \in Worker, RestoreUpdate(w)
  PROVE  AtomInv'
<1> DEFINE l == [loc[w] EXCEPT !.it = NULL]
<1>1. PICK p \in {"status", "restore"} :
        /\ pc[w] = "restored" /\ pc' = [pc EXCEPT ![w] = p] /\ UpdateStock(w)
        /\ loc' = [loc EXCEPT ![w] = l]
        /\ UNCHANGED <<db, nextOrder, nextDelivery, reply>>
  BY DEF RestoreUpdate, Goto, Set
<1>2. PICK t : /\ tx' = [tx EXCEPT ![w] = t]
               /\ t.writes.delivery = tx[w].writes.delivery
               /\ t.writes.orderItem = tx[w].writes.orderItem
               /\ t.writes.orders = tx[w].writes.orders
  BY <1>1, AtomUpdateStock
<1>3. l.id = loc[w].id /\ l.op = "cancel"
  BY <1>1 DEF HandlersInv, HandlerOK, Canceling, TypeInv, TypeOK, Local
<1>4. db.orders[loc[w].id] # NULL
  BY <1>1, AtomHandler DEF CancelOK, HandlersInv, HandlerOK, Canceling
<1> HIDE DEF l
<1>5. /\ pc[w] \notin {"order", "orderItem", "commit", "respond"}
      /\ p \notin {"order", "orderItem", "commit", "respond"}
  BY <1>1
<1> QED
  BY <1>1, <1>2, <1>3, <1>4, <1>5, AtomMove

\* The INSERT of the delivery: its id is new.
LEMMA AtomCreateDelivery ==
  ASSUME TypeInv, HandlersInv, AtomInv, NEW w \in Worker, CreateDelivery(w)
  PROVE  AtomInv'
<1> DEFINE l == [loc[w] EXCEPT !.dlv = nextDelivery]
           x == tx[w].writes.delivery \cup {nextDelivery}
           t == [tx[w] EXCEPT !.writes.delivery = x]
<1>1. /\ pc[w] = "delivery" /\ pc' = [pc EXCEPT ![w] = "order"]
      /\ loc' = [loc EXCEPT ![w] = l] /\ tx' = [tx EXCEPT ![w] = t]
      /\ nextDelivery' = nextDelivery + 1 /\ UNCHANGED <<db, nextOrder, reply>>
  BY DEF CreateDelivery, InsertDelivery, Set, Goto, TypeInv, TypeOK, DatabaseTypeOK, Transaction
<1>2. HandlerOK("delivery", loc[w], reply[w])
  BY <1>1 DEF HandlersInv
<1>3. reply' = [reply EXCEPT ![w] = "none"]
  BY <1>1, <1>2 DEF HandlerOK, TypeInv, TypeOK
<1>4. l.op = "place" /\ l.id = 0 /\ l.dlv = nextDelivery
  BY <1>2 DEF HandlerOK, Placing, BeforeOrder, TypeInv, TypeOK, Local
<1> HIDE DEF l, x
<1>5. /\ t.writes.delivery = x /\ t.writes.orderItem = tx[w].writes.orderItem
      /\ t.writes.orders = tx[w].writes.orders
  BY DEF TypeInv, TypeOK, DatabaseTypeOK, Transaction, Writes
<1> HIDE DEF t
<1>6. /\ tx[w].writes.delivery = {} /\ tx[w].writes.orderItem = {}
      /\ \A o \in OrderId : tx[w].writes.orders[o] = NULL
  BY <1>1, AtomHandler DEF WritesOK, Inserted, Delivering
<1>7. x = {l.dlv}
  BY <1>4, <1>6 DEF x
<1>8. WritesOK("order", l, t) /\ CancelOK("order", l, t, db)
  BY <1>4, <1>5, <1>6, <1>7 DEF WritesOK, CancelOK, Inserted, Delivering
<1>9. nextOrder \in Nat /\ nextDelivery \in Nat
  BY DEF TypeInv, TypeOK, DatabaseTypeOK
<1>10. nextDelivery \notin db.delivery
  BY <1>9 DEF AtomInv, TablesWhole
<1>11. IdsOK("order", l, db, nextOrder', nextDelivery') /\ AnswerOK(l, "none", db)
  BY <1>1, <1>4, <1>9, <1>10 DEF IdsOK, AnswerOK
<1>12. \A v \in Worker \ {w} : Apart("order", l, pc[v], loc[v])
  <2>1. TAKE v \in Worker \ {w}
  <2>2. Delivering(pc[v], loc[v]) => loc[v].dlv < nextDelivery
    BY AtomHandler DEF IdsOK
  <2> QED BY <1>4, <1>9, <2>2 DEF Apart
<1>13. /\ nextOrder' \in Nat /\ nextDelivery' \in Nat
       /\ nextOrder <= nextOrder' /\ nextDelivery <= nextDelivery'
  BY <1>1, <1>9
<1> QED
  BY <1>1, <1>3, <1>8, <1>11, <1>12, <1>13, AtomStep

\* The INSERT of the order: its id is new, and no row has it.
LEMMA AtomCreateOrder ==
  ASSUME TypeInv, LockInv, HandlersInv, AtomInv, NEW w \in Worker, CreateOrder(w)
  PROVE  AtomInv'
<1> DEFINE o   == nextOrder
           l   == [loc[w] EXCEPT !.id = o]
           row == [member |-> loc[w].cmd.member, delivery |-> loc[w].dlv, status |-> "ORDER"]
           t   == tx[w]
           u   == [t EXCEPT !.locks = @ \cup {OrderLock(o)}, !.writes.orders[o] = row]
<1>1. /\ pc[w] = "order" /\ pc' = [pc EXCEPT ![w] = "orderItem"]
      /\ loc' = [loc EXCEPT ![w] = l] /\ tx' = [tx EXCEPT ![w] = u]
      /\ nextOrder' = o + 1 /\ UNCHANGED <<db, nextDelivery, reply>>
  BY DEF CreateOrder, InsertOrder, Set, Goto
<1>2. HandlerOK("order", loc[w], reply[w])
  BY <1>1 DEF HandlersInv
<1>3. reply' = [reply EXCEPT ![w] = "none"]
  BY <1>1, <1>2 DEF HandlerOK, TypeInv, TypeOK
<1>4. o \in OrderId /\ o \in Nat /\ o # 0 /\ nextDelivery \in Nat
  BY <1>1, IdLeft DEF BeforeOrder, TypeInv, TypeOK, DatabaseTypeOK
<1>5. /\ l.op = "place" /\ l.id = o /\ l.dlv = loc[w].dlv /\ l.cmd = loc[w].cmd
      /\ l.cart = loc[w].cart /\ l.k = 1
  BY <1>2 DEF HandlerOK, CartOK, Placing, BeforeOrder, TypeInv, TypeOK, Local
<1> HIDE DEF l
<1>6. /\ u.writes.delivery = t.writes.delivery /\ u.writes.orderItem = t.writes.orderItem
      /\ u.writes.orders[o] = row
      /\ \A q \in OrderId \ {o} : u.writes.orders[q] = t.writes.orders[q]
  <2> HIDE DEF row
  <2> QED BY <1>4 DEF TypeInv, TypeOK, DatabaseTypeOK, Transaction, Writes
<1> HIDE DEF u
<1>7. loc[w].op = "place"
  BY <1>2 DEF HandlerOK, Placing, BeforeOrder
<1>8. /\ t.writes.delivery = {loc[w].dlv} /\ t.writes.orderItem = {}
      /\ \A q \in OrderId : t.writes.orders[q] = NULL
  BY <1>1, <1>7, AtomHandler DEF WritesOK, Inserted, Delivering
<1>9. WritesOK("orderItem", l, u)
  <2>1. {RowOf(l, n) : n \in 1 .. (l.k - 1)} = {}
    BY <1>5
  <2> QED BY <1>5, <1>6, <1>8, <2>1 DEF WritesOK, Inserted, Delivering
<1>10. CancelOK("orderItem", l, u, db)
  BY <1>5 DEF CancelOK
<1>11. db.orders[o] = NULL
  BY <1>4 DEF LockInv
<1>12. loc[w].dlv < nextDelivery /\ loc[w].dlv \notin db.delivery
  BY <1>1, <1>7, AtomHandler DEF IdsOK, Delivering
<1>13. IdsOK("orderItem", l, db, nextOrder', nextDelivery') /\ AnswerOK(l, "none", db)
  BY <1>1, <1>4, <1>5, <1>11, <1>12 DEF IdsOK, AnswerOK
<1>14. \A v \in Worker \ {w} : Apart("orderItem", l, pc[v], loc[v])
  <2>1. TAKE v \in Worker \ {w}
  <2>2. loc[v].op = "place" /\ loc[v].id # 0 => loc[v].id < o
    BY AtomHandler DEF IdsOK
  <2>3. Apart("order", loc[w], pc[v], loc[v])
    BY <1>1, AtomHandler
  <2> QED BY <1>4, <1>5, <1>7, <2>2, <2>3 DEF Apart, Delivering
<1>15. /\ nextOrder' \in Nat /\ nextDelivery' \in Nat
       /\ nextOrder <= nextOrder' /\ nextDelivery <= nextDelivery'
  BY <1>1, <1>4
<1> HIDE DEF o
<1> QED
  BY <1>1, <1>3, <1>9, <1>10, <1>13, <1>14, <1>15, AtomStep

\* The INSERT of a line stores it as the cart has it: what is converted fits.
LEMMA AtomCreateOrderItem ==
  ASSUME TypeInv, HandlersInv, AtomInv, NEW w \in Worker, CreateOrderItem(w)
  PROVE  AtomInv'
<1> DEFINE k    == loc[w].k
           oi   == loc[w].cart[k]
           line == [order |-> loc[w].id, pos |-> k, item |-> oi.item,
                    price |-> ToInt32(oi.price), count |-> ToInt32(oi.count)]
           l    == [loc[w] EXCEPT !.k = k + 1]
           s    == tx[w].writes.orderItem \cup {line}
           t    == [tx[w] EXCEPT !.writes.orderItem = s]
<1>1. PICK p \in {"orderItem", "commit"} :
        /\ pc[w] = "orderItem" /\ pc' = [pc EXCEPT ![w] = p] /\ InsertOrderItem(w, line)
        /\ loc' = [loc EXCEPT ![w] = l] /\ UNCHANGED <<db, nextOrder, nextDelivery, reply>>
  BY DEF CreateOrderItem, Set, Goto
<1>2. HandlerOK("orderItem", loc[w], reply[w]) /\ LocalsOK("orderItem", loc[w], tx[w])
      /\ loc[w] \in Local
  BY <1>1 DEF HandlersInv, TypeInv, TypeOK
<1>3. reply' = [reply EXCEPT ![w] = "none"]
  BY <1>1, <1>2 DEF HandlerOK, TypeInv, TypeOK
<1>4. k \in 1 .. Len(loc[w].cart) /\ loc[w].op = "place"
  BY <1>2 DEF LocalsOK, HandlerOK, Placing, Local
<1>5. line = RowOf(loc[w], k)
  <2>1. k \in DOMAIN loc[w].cart /\ loc[w].cart \in Seq(OrderItem)
    BY <1>2, <1>4 DEF LocalsOK, Local
  <2>2. oi.price \in Int32
    <3>1. oi \in OrderItem
      BY <2>1
    <3> HIDE DEF oi
    <3> QED BY <3>1 DEF OrderItem
  <2>3. oi.count \in Int32
    <3>1. CartOK("orderItem", loc[w])
      BY <1>2, <1>4 DEF HandlerOK
    <3> QED BY <2>1, <3>1 DEF CartOK
  <2> QED BY <2>2, <2>3, ToInt32Fits DEF RowOf
<1>6. tx' = [tx EXCEPT ![w] = t]
  BY <1>1 DEF InsertOrderItem, TypeInv, TypeOK, DatabaseTypeOK, Transaction
<1> HIDE DEF line
<1>7. /\ l.op = "place" /\ l.id = loc[w].id /\ l.dlv = loc[w].dlv /\ l.cmd = loc[w].cmd
      /\ l.cart = loc[w].cart /\ l.k = k + 1
  BY <1>2, <1>4 DEF Local
<1> HIDE DEF l, s
<1>8. /\ t.writes.delivery = tx[w].writes.delivery /\ t.writes.orderItem = s
      /\ t.writes.orders = tx[w].writes.orders
  BY DEF TypeInv, TypeOK, DatabaseTypeOK, Transaction, Writes
<1> HIDE DEF t
<1>9. WritesOK("orderItem", loc[w], tx[w]) /\ Inserted("orderItem", loc[w])
      /\ Delivering("orderItem", loc[w])
  BY <1>1, <1>4, AtomHandler DEF Inserted, Delivering
<1>10. WritesOK(p, l, t)
  <2>1. Inserted(p, l) /\ Delivering(p, l)
    BY <1>1, <1>7 DEF Inserted, Delivering
  <2>2. s = {RowOf(l, n) : n \in 1 .. (l.k - 1)}
    <3>1. \A n : RowOf(l, n) = RowOf(loc[w], n)
      BY <1>7 DEF RowOf
    <3>2. tx[w].writes.orderItem = {RowOf(loc[w], n) : n \in 1 .. (k - 1)}
      BY <1>9 DEF WritesOK
    <3>3. 1 .. (l.k - 1) = (1 .. (k - 1)) \cup {k}
      BY <1>4, <1>7
    <3> HIDE DEF k
    <3>4. s = {RowOf(loc[w], n) : n \in (1 .. (k - 1)) \cup {k}}
      BY <3>2, <1>5 DEF s
    <3> QED BY <3>1, <3>3, <3>4
  <2> QED BY <1>7, <1>8, <1>9, <2>1, <2>2 DEF WritesOK
<1>11. CancelOK(p, l, t, db)
  BY <1>7 DEF CancelOK
<1>12. IdsOK("orderItem", loc[w], db, nextOrder, nextDelivery)
  BY <1>1, AtomHandler
<1>13. IdsOK(p, l, db, nextOrder', nextDelivery') /\ AnswerOK(l, "none", db)
  <2>1. loc[w].id \in OrderId /\ loc[w].id # 0
    BY <1>2, MaxOrderAssumption DEF LocalsOK, OrderId
  <2>2. loc[w].id < nextOrder /\ db.orders[loc[w].id] = NULL
        /\ loc[w].dlv < nextDelivery /\ loc[w].dlv \notin db.delivery
    BY <2>1, <1>4, <1>9, <1>12 DEF IdsOK
  <2> QED BY <1>1, <1>7, <2>2 DEF IdsOK, AnswerOK
<1>14. \A v \in Worker \ {w} : Apart(p, l, pc[v], loc[v])
  <2>1. TAKE v \in Worker \ {w}
  <2>2. Apart("orderItem", loc[w], pc[v], loc[v])
    BY <1>1, AtomHandler
  <2> QED BY <1>4, <1>7, <1>9, <2>2 DEF Apart
<1>15. /\ nextOrder' \in Nat /\ nextDelivery' \in Nat
       /\ nextOrder <= nextOrder' /\ nextDelivery <= nextDelivery'
  BY <1>1 DEF TypeInv, TypeOK, DatabaseTypeOK
<1> QED
  BY <1>1, <1>3, <1>6, <1>10, <1>11, <1>13, <1>14, <1>15, AtomStep

LEMMA AtomUpdateStatus ==
  ASSUME TypeInv, HandlersInv, AtomInv, NEW w \in Worker, UpdateStatus(w)
  PROVE  AtomInv'
<1> DEFINE o   == loc[w].id
           t   == tx[w]
           row == OrderCurrent(w, o)
           new == Changed(t.writes.orders[o], row, [row EXCEPT !.status = "CANCEL"])
           u   == [t EXCEPT !.locks = @ \cup {OrderLock(o)}, !.writes.orders[o] = new]
<1>1. /\ pc[w] = "status" /\ tx' = [tx EXCEPT ![w] = u]
      /\ pc' = [pc EXCEPT ![w] = "commit"]
      /\ UNCHANGED <<db, nextOrder, nextDelivery, loc, reply>>
  BY DEF UpdateStatus, UpdateOrderStatus, Goto
<1>2. HandlerOK("status", loc[w], reply[w])
  BY <1>1 DEF HandlersInv
<1>3. /\ reply' = [reply EXCEPT ![w] = "none"] /\ loc' = [loc EXCEPT ![w] = loc[w]]
      /\ loc[w].op = "cancel" /\ o \in OrderId
  BY <1>1, <1>2 DEF HandlerOK, Canceling, TypeInv, TypeOK
<1>4. /\ t.writes.delivery = {} /\ t.writes.orderItem = {}
      /\ \A q \in OrderId : t.writes.orders[q] = NULL
  BY <1>1, AtomHandler DEF WritesOK, Inserted, Delivering
<1>5. row = db.orders[o] /\ row # NULL
  BY <1>1, <1>3, <1>4, AtomHandler DEF OrderCurrent, Version, CancelOK
<1>6. row \in OrderRow
  BY <1>3, <1>5 DEF TypeInv, TypeOK, DatabaseTypeOK, Tables, Opt
<1>7. IF new = NULL THEN row.status = "CANCEL" ELSE new = [row EXCEPT !.status = "CANCEL"]
  <2>1. [row EXCEPT !.status = "CANCEL"] \in OrderRow
    BY <1>6 DEF OrderRow, OrderStatus
  <2>2. [row EXCEPT !.status = "CANCEL"] # NULL
    BY <2>1, NullAssumption
  <2>3. row.status = "CANCEL" <=> [row EXCEPT !.status = "CANCEL"] = row
    BY <1>6 DEF OrderRow
  <2> QED BY <1>3, <1>4, <1>5, <2>2, <2>3 DEF Changed
<1> HIDE DEF new, row
<1>8. /\ u.writes.delivery = t.writes.delivery /\ u.writes.orderItem = t.writes.orderItem
      /\ u.writes.orders[o] = new
      /\ \A q \in OrderId \ {o} : u.writes.orders[q] = t.writes.orders[q]
  BY <1>3 DEF TypeInv, TypeOK, DatabaseTypeOK, Transaction, Writes
<1> HIDE DEF u
<1>9. WritesOK("commit", loc[w], u)
  BY <1>3, <1>4, <1>8 DEF WritesOK, Inserted, Delivering
<1>10. CancelOK("commit", loc[w], u, db)
  BY <1>3, <1>5, <1>7, <1>8 DEF CancelOK
<1>11. IdsOK("commit", loc[w], db, nextOrder', nextDelivery') /\ AnswerOK(loc[w], "none", db)
  BY <1>3 DEF IdsOK, AnswerOK, Delivering
<1>12. \A v \in Worker \ {w} : Apart("commit", loc[w], pc[v], loc[v])
  BY <1>3 DEF Apart, Delivering
<1>13. /\ nextOrder' \in Nat /\ nextDelivery' \in Nat
       /\ nextOrder <= nextOrder' /\ nextDelivery <= nextDelivery'
  BY <1>1 DEF TypeInv, TypeOK, DatabaseTypeOK
<1> QED
  BY <1>1, <1>3, <1>9, <1>10, <1>11, <1>12, <1>13, AtomStep

-----------------------------------------------------------------------------
(* What a COMMIT does to the tables *)

\* Of an order that is in the tables d, the tables e still have everything; a
\* canceled order stays canceled.
OrdersKept(d, e) ==
    /\ d.delivery \subseteq e.delivery
    /\ \A o \in OrderId : d.orders[o] # NULL =>
         /\ e.orders[o] # NULL
         /\ e.orders[o].member = d.orders[o].member
         /\ e.orders[o].delivery = d.orders[o].delivery
         /\ d.orders[o].status = "CANCEL" => e.orders[o].status = "CANCEL"
         /\ LinesIn(e, o) = LinesIn(d, o)

LEMMA AskedKept ==
  ASSUME NEW d, NEW e, NEW o \in OrderId, OrdersKept(d, e), d.orders[o] # NULL, Asked(d, o)
  PROVE  Asked(e, o)
<1>1. LinesIn(e, o) = LinesIn(d, o) /\ e.orders[o].member = d.orders[o].member
  BY DEF OrdersKept
<1> QED
  BY <1>1 DEF Asked, FulfilsIn

LEMMA CommittedTables ==
  ASSUME TypeInv, NEW w \in Worker
  PROVE  /\ Committed(w).delivery = db.delivery \cup tx[w].writes.delivery
         /\ Committed(w).orderItem = db.orderItem \cup tx[w].writes.orderItem
         /\ \A o \in OrderId :
              Committed(w).orders[o] = Version(tx[w].writes.orders[o], db.orders[o])
BY DEF TypeInv, TypeOK, DatabaseTypeOK, Tables, Committed, Overwrite

\* Place commits its order, delivery and lines together.
LEMMA CommittedPlace ==
  ASSUME TypeInv, HandlersInv, AtomInv, NEW w \in Worker,
         pc[w] = "commit", loc[w].op = "place"
  PROVE  /\ loc[w].id \in OrderId /\ db.orders[loc[w].id] = NULL
         /\ loc[w].dlv < nextDelivery /\ loc[w].dlv \notin db.delivery
         /\ Committed(w).delivery = db.delivery \cup {loc[w].dlv}
         /\ Committed(w).orderItem =
              db.orderItem \cup {RowOf(loc[w], n) : n \in DOMAIN loc[w].cart}
         /\ Committed(w).orders[loc[w].id] =
              [member |-> loc[w].cmd.member, delivery |-> loc[w].dlv, status |-> "ORDER"]
         /\ Committed(w).orders[loc[w].id] # NULL
         /\ \A o \in OrderId \ {loc[w].id} : Committed(w).orders[o] = db.orders[o]
<1> DEFINE l   == loc[w]
           row == [member |-> l.cmd.member, delivery |-> l.dlv, status |-> "ORDER"]
<1>1. HandlerOK("commit", l, reply[w]) /\ l \in Local
  BY DEF HandlersInv, TypeInv, TypeOK
<1>2. /\ l.id \in OrderId /\ l.dlv \in DeliveryId /\ l.cmd \in PlaceCommand
      /\ CartOK("commit", l)
  BY <1>1 DEF HandlerOK
<1>3. l.id # 0
  BY <1>2, MaxOrderAssumption DEF OrderId
<1>4. Inserted("commit", l) /\ Delivering("commit", l)
  BY DEF Inserted, Delivering
<1>5. WritesOK("commit", l, tx[w])
  BY AtomHandler
<1>6. row \in OrderRow /\ row # NULL
  <2>1. row \in OrderRow
    BY <1>2 DEF OrderRow, PlaceCommand, OrderStatus
  <2> HIDE DEF row
  <2> QED BY <2>1, NullAssumption
<1>7. /\ tx[w].writes.delivery = {l.dlv} /\ tx[w].writes.orders[l.id] = row
      /\ \A o \in OrderId \ {l.id} : tx[w].writes.orders[o] = NULL
  BY <1>4, <1>5 DEF WritesOK
<1>8. tx[w].writes.orderItem = {RowOf(l, n) : n \in DOMAIN l.cart}
  <2>1. l.cart \in Seq(OrderItem) /\ l.k = Len(l.cart) + 1
    BY <1>1, <1>2 DEF Local, CartOK
  <2>2. DOMAIN l.cart = 1 .. (l.k - 1)
    BY <2>1
  <2> QED BY <1>4, <1>5, <2>2 DEF WritesOK
<1>9. db.orders[l.id] = NULL /\ l.dlv < nextDelivery /\ l.dlv \notin db.delivery
  BY <1>3, <1>4, AtomHandler DEF IdsOK
<1> HIDE DEF row
<1>10. Committed(w).orders[l.id] = row
  BY <1>2, <1>6, <1>7, CommittedTables DEF Version
<1>11. \A o \in OrderId \ {l.id} : Committed(w).orders[o] = db.orders[o]
  BY <1>7, CommittedTables DEF Version
<1> QED
  BY <1>2, <1>6, <1>7, <1>8, <1>9, <1>10, <1>11, CommittedTables DEF row

\* Cancel commits the order's status and nothing else of it.
LEMMA CommittedCancel ==
  ASSUME TypeInv, HandlersInv, AtomInv, NEW w \in Worker,
         pc[w] = "commit", loc[w].op = "cancel"
  PROVE  /\ loc[w].id \in OrderId /\ db.orders[loc[w].id] # NULL
         /\ Committed(w).delivery = db.delivery
         /\ Committed(w).orderItem = db.orderItem
         /\ Committed(w).orders[loc[w].id] = [db.orders[loc[w].id] EXCEPT !.status = "CANCEL"]
         /\ Committed(w).orders[loc[w].id] # NULL
         /\ \A o \in OrderId \ {loc[w].id} : Committed(w).orders[o] = db.orders[o]
<1> DEFINE l   == loc[w]
           row == db.orders[l.id]
           new == [row EXCEPT !.status = "CANCEL"]
           ver == tx[w].writes.orders[l.id]
<1>1. l.id \in OrderId
  BY DEF HandlersInv, HandlerOK
<1>2. WritesOK("commit", l, tx[w]) /\ CancelOK("commit", l, tx[w], db)
  BY AtomHandler
<1>3. row # NULL /\ row \in OrderRow
  BY <1>1, <1>2 DEF CancelOK, TypeInv, TypeOK, DatabaseTypeOK, Tables, Opt
<1>4. new \in OrderRow
  BY <1>3 DEF OrderRow, OrderStatus
<1>5. row.status = "CANCEL" => row = new
  BY <1>3 DEF OrderRow
<1> HIDE DEF new
<1>6. new # NULL
  BY <1>4, NullAssumption
<1>7. IF ver = NULL THEN row.status = "CANCEL" ELSE ver = new
  BY <1>2 DEF CancelOK, new
<1>8. Committed(w).orders[l.id] = new
  BY <1>1, <1>5, <1>7, CommittedTables DEF Version
<1>9. /\ tx[w].writes.delivery = {} /\ tx[w].writes.orderItem = {}
      /\ \A o \in OrderId \ {l.id} : tx[w].writes.orders[o] = NULL
  BY <1>2 DEF WritesOK, Inserted, Delivering
<1>10. \A o \in OrderId \ {l.id} : Committed(w).orders[o] = db.orders[o]
  BY <1>9, CommittedTables DEF Version
<1>11. Committed(w).delivery = db.delivery /\ Committed(w).orderItem = db.orderItem
  BY <1>9, CommittedTables
<1>12. Committed(w).orders[l.id] # NULL
  BY <1>6, <1>8
<1> QED
  BY <1>1, <1>3, <1>8, <1>10, <1>11, <1>12 DEF new

\* The rows of a cart: as many as its lines, numbered from 1.
LEMMA CartRows ==
  ASSUME NEW l \in Local
  PROVE  LET rows == {RowOf(l, n) : n \in DOMAIN l.cart} IN
         /\ \A line \in rows : line.order = l.id
         /\ IsFiniteSet(rows) /\ Cardinality(rows) = Len(l.cart)
         /\ {line.pos : line \in rows} = 1 .. Cardinality(rows)
         /\ \A j, k \in rows : j.pos = k.pos => j = k
<1> DEFINE N    == Len(l.cart)
           rows == {RowOf(l, n) : n \in DOMAIN l.cart}
           f    == [n \in 1 .. N |-> RowOf(l, n)]
<1>1. N \in Nat /\ DOMAIN l.cart = 1 .. N
  <2>1. l.cart \in Seq(OrderItem)
    BY DEF Local
  <2> QED BY <2>1
<1>2. \A n : RowOf(l, n).order = l.id /\ RowOf(l, n).pos = n
  BY DEF RowOf
<1>3. f \in Surjection(1 .. N, rows) /\ f \in Injection(1 .. N, rows)
  <2>1. f \in [1 .. N -> rows] /\ \A r \in rows : \E n \in 1 .. N : f[n] = r
    BY <1>1
  <2>2. \A m, n \in 1 .. N : f[m] = f[n] => m = n
    BY <1>2
  <2> HIDE DEF f, rows
  <2> QED BY <2>1, <2>2 DEF Surjection, Injection, IsInjective
<1>4. IsFiniteSet(1 .. N) /\ Cardinality(1 .. N) = N
  BY <1>1, FS_Interval
<1>5. IsFiniteSet(rows) /\ Cardinality(rows) = N
  <2> HIDE DEF f, rows
  <2> QED BY <1>3, <1>4, FS_Surjection
<1>6. {line.pos : line \in rows} = 1 .. N
  BY <1>1, <1>2
<1>7. /\ \A line \in rows : line.order = l.id
      /\ \A j, k \in rows : j.pos = k.pos => j = k
  BY <1>2
<1> QED
  BY <1>5, <1>6, <1>7

\* A committed line belongs to a committed order.
LEMMA NoLinesWithoutOrder ==
  ASSUME TypeInv, AtomInv, NEW o \in OrderId, db.orders[o] = NULL
  PROVE  LinesIn(db, o) = {}
BY DEF AtomInv, TablesWhole, LinesIn

LEMMA CommitKeepsOrders ==
  ASSUME TypeInv, HandlersInv, AtomInv, NEW w \in Worker, pc[w] = "commit"
  PROVE  OrdersKept(db, Committed(w))
<1> DEFINE l == loc[w]
           e == Committed(w)
<1>1. l.op \in {"place", "cancel"}
  BY DEF HandlersInv, HandlerOK
<1>2. \A o \in OrderId : db.orders[o] # NULL => db.orders[o] \in OrderRow
  BY DEF TypeInv, TypeOK, DatabaseTypeOK, Tables, Opt
<1>3. CASE l.op = "place"
  <2>1. /\ db.orders[l.id] = NULL /\ e.delivery = db.delivery \cup {l.dlv}
        /\ e.orderItem = db.orderItem \cup {RowOf(l, n) : n \in DOMAIN l.cart}
        /\ \A o \in OrderId \ {l.id} : e.orders[o] = db.orders[o]
    BY <1>3, CommittedPlace
  <2>2. ASSUME NEW o \in OrderId, db.orders[o] # NULL PROVE LinesIn(e, o) = LinesIn(db, o)
    <3>1. o # l.id
      BY <2>1, <2>2
    <3>2. \A line \in {RowOf(l, n) : n \in DOMAIN l.cart} : line.order = l.id
      BY DEF RowOf
    <3> HIDE DEF e
    <3> QED BY <2>1, <3>1, <3>2 DEF LinesIn
  <2> HIDE DEF e
  <2>3. db.delivery \subseteq e.delivery
    BY <2>1
  <2>4. \A o \in OrderId : db.orders[o] # NULL => e.orders[o] = db.orders[o]
    BY <2>1
  <2> QED BY <2>2, <2>3, <2>4 DEF OrdersKept, e
<1>4. CASE l.op = "cancel"
  <2>1. /\ l.id \in OrderId /\ e.delivery = db.delivery /\ e.orderItem = db.orderItem
        /\ db.orders[l.id] # NULL
        /\ e.orders[l.id] = [db.orders[l.id] EXCEPT !.status = "CANCEL"]
        /\ e.orders[l.id] # NULL
        /\ \A o \in OrderId \ {l.id} : e.orders[o] = db.orders[o]
    BY <1>4, CommittedCancel
  <2>2. ASSUME NEW o \in OrderId, db.orders[o] # NULL
        PROVE  /\ e.orders[o] # NULL
               /\ e.orders[o].member = db.orders[o].member
               /\ e.orders[o].delivery = db.orders[o].delivery
               /\ db.orders[o].status = "CANCEL" => e.orders[o].status = "CANCEL"
    <3> HIDE DEF e
    <3>1. CASE o = l.id
      BY <3>1, <2>1, <2>2, <1>2 DEF OrderRow
    <3>2. CASE o # l.id
      BY <3>2, <2>1, <2>2
    <3> QED BY <3>1, <3>2
  <2>3. \A o \in OrderId : LinesIn(e, o) = LinesIn(db, o)
    BY <2>1 DEF LinesIn
  <2>4. db.delivery \subseteq e.delivery
    BY <2>1
  <2> HIDE DEF e
  <2> QED BY <2>2, <2>3, <2>4 DEF OrdersKept, e
<1> QED
  BY <1>1, <1>3, <1>4

LEMMA RecordedKept ==
  ASSUME NEW d, NEW e, NEW l, l.id \in OrderId, OrdersKept(d, e), RecordedIn(d, l)
  PROVE  RecordedIn(e, l)
BY DEF OrdersKept, RecordedIn

\* What the other handlers' invariant says, over tables another one commits.
LEMMA OthersKept ==
  ASSUME NEW p, NEW l \in Local, NEW t, NEW r, NEW d, NEW e, NEW n, NEW m,
         d \in Tables, e \in Tables, OrdersKept(d, e), HandlerOK(p, l, r),
         CancelOK(p, l, t, d), IdsOK(p, l, d, n, m), AnswerOK(l, r, d),
         l.op = "place" /\ l.id # 0 /\ d.orders[l.id] = NULL => e.orders[l.id] = NULL,
         Delivering(p, l) => l.dlv \notin e.delivery
  PROVE  CancelOK(p, l, t, e) /\ IdsOK(p, l, e, n, m) /\ AnswerOK(l, r, e)
<1>1. l.op = "cancel" /\ p # "respond" => l.id \in OrderId
  BY DEF HandlerOK
<1>2. \A o \in OrderId : d.orders[o] # NULL => d.orders[o] \in OrderRow
  BY DEF Tables, Opt
<1>3. \A o \in OrderId : e.orders[o] # NULL => e.orders[o] \in OrderRow
  BY DEF Tables, Opt
<1>4. l.id # 0 => l.id \in OrderId
  BY DEF Local
<1>5. CancelOK(p, l, t, e)
  <2>1. ASSUME l.op = "cancel", p \in {"restore", "restored", "status", "commit"}
        PROVE  d.orders[l.id] # NULL /\ e.orders[l.id] # NULL
    BY <1>1, <2>1 DEF CancelOK, OrdersKept
  <2>2. ASSUME l.op = "cancel", p = "commit"
        PROVE  IF t.writes.orders[l.id] = NULL
               THEN e.orders[l.id].status = "CANCEL"
               ELSE t.writes.orders[l.id] = [e.orders[l.id] EXCEPT !.status = "CANCEL"]
    <3>1. d.orders[l.id] # NULL /\ e.orders[l.id] # NULL
      BY <2>1, <2>2
    <3>2. CASE t.writes.orders[l.id] = NULL
      BY <1>1, <2>2, <3>1, <3>2 DEF CancelOK, OrdersKept
    <3>3. CASE t.writes.orders[l.id] # NULL
      <4>1. t.writes.orders[l.id] = [d.orders[l.id] EXCEPT !.status = "CANCEL"]
        BY <2>2, <3>3 DEF CancelOK
      <4>2. /\ d.orders[l.id] \in OrderRow /\ e.orders[l.id] \in OrderRow
            /\ e.orders[l.id].member = d.orders[l.id].member
            /\ e.orders[l.id].delivery = d.orders[l.id].delivery
        BY <1>1, <1>2, <1>3, <2>2, <3>1 DEF OrdersKept
      <4>3. [d.orders[l.id] EXCEPT !.status = "CANCEL"]
              = [e.orders[l.id] EXCEPT !.status = "CANCEL"]
        BY <4>2 DEF OrderRow
      <4> QED BY <3>3, <4>1, <4>3
    <3> QED BY <3>2, <3>3
  <2> QED BY <2>1, <2>2 DEF CancelOK
<1>6. IdsOK(p, l, e, n, m)
  <2>1. l.op = "place" /\ l.id # 0 /\ RecordedIn(d, l) => RecordedIn(e, l)
    BY <1>4, RecordedKept
  <2> QED BY <2>1 DEF IdsOK
<1>7. AnswerOK(l, r, e)
  <2>1. r = "created" => RecordedIn(e, l)
    <3>1. r = "created" => RecordedIn(d, l)
      BY DEF AnswerOK
    <3>2. RecordedIn(d, l) => l.id # 0
      BY DEF RecordedIn
    <3> QED BY <1>4, <3>1, <3>2, RecordedKept
  <2>2. r \in {"no_content", "already_canceled"} => l.id \in OrderId
    BY DEF HandlerOK
  <2> QED BY <2>1, <2>2 DEF AnswerOK, OrdersKept
<1> QED
  BY <1>5, <1>6, <1>7

\* The order Place commits is the one it answers with.
LEMMA CommitRecords ==
  ASSUME TypeInv, HandlersInv, AtomInv, NEW w \in Worker,
         pc[w] = "commit", loc[w].op = "place"
  PROVE  /\ RecordedIn(Committed(w), loc[w])
         /\ LinesIn(Committed(w), loc[w].id) = {RowOf(loc[w], n) : n \in DOMAIN loc[w].cart}
         /\ DOMAIN loc[w].cart # {}
         /\ Asked(Committed(w), loc[w].id)
<1> DEFINE l    == loc[w]
           e    == Committed(w)
           rows == {RowOf(l, n) : n \in DOMAIN l.cart}
<1>1. l.cmd \in Cmds /\ l.cmd \in PlaceCommand /\ CartOK("commit", l) /\ l \in Local
  BY DEF HandlersInv, HandlerOK, TypeInv, TypeOK
<1>2. /\ l.id \in OrderId /\ db.orders[l.id] = NULL
      /\ e.orderItem = db.orderItem \cup rows
      /\ e.orders[l.id] =
           [member |-> l.cmd.member, delivery |-> l.dlv, status |-> "ORDER"]
      /\ e.orders[l.id] # NULL
  BY CommittedPlace
<1>3. LinesIn(e, l.id) = rows
  <2>1. LinesIn(db, l.id) = {}
    BY <1>2, NoLinesWithoutOrder
  <2>2. \A line \in rows : line.order = l.id
    BY DEF RowOf
  <2> HIDE DEF e, rows
  <2> QED BY <1>2, <2>1, <2>2 DEF LinesIn
<1>4. /\ l.cart \in Seq(OrderItem) /\ l.cmd.lines \in Seq(Line)
      /\ Len(l.cart) = Len(l.cmd.lines) /\ l.cmd.lines # << >>
  BY <1>1 DEF Local, PlaceCommand, CartOK, Valid
<1>5. DOMAIN l.cart = DOMAIN l.cmd.lines /\ DOMAIN l.cart # {}
  <2>1. Len(l.cmd.lines) \in Nat \ {0}
    BY <1>4
  <2>2. DOMAIN l.cart = 1 .. Len(l.cmd.lines) /\ DOMAIN l.cmd.lines = 1 .. Len(l.cmd.lines)
    BY <1>4
  <2>3. 1 \in 1 .. Len(l.cmd.lines)
    BY <2>1
  <2> QED BY <2>2, <2>3
<1>6. \A n \in DOMAIN l.cart :
        [item |-> l.cart[n].item, count |-> l.cart[n].count] = l.cmd.lines[n]
  <2>1. TAKE n \in DOMAIN l.cart
  <2>2. l.cmd.lines[n] \in Line
    BY <1>4, <1>5
  <2>3. l.cart[n].item = l.cmd.lines[n].item /\ l.cart[n].count = l.cmd.lines[n].count
    BY <1>1 DEF CartOK
  <2> QED BY <2>2, <2>3 DEF Line
<1>7. [n \in DOMAIN l.cart |-> [item |-> l.cart[n].item, count |-> l.cart[n].count]]
        = l.cmd.lines
  <2> DEFINE f == [n \in DOMAIN l.cart |->
                     [item |-> l.cart[n].item, count |-> l.cart[n].count]]
  <2>1. l.cmd.lines = [n \in DOMAIN l.cmd.lines |-> l.cmd.lines[n]]
    BY <1>4
  <2>2. f = [n \in DOMAIN l.cart |-> l.cmd.lines[n]]
    BY <1>6
  <2> QED BY <1>5, <2>1, <2>2
<1>8. l.id # 0
  BY <1>2, MaxOrderAssumption DEF OrderId
<1>9. FulfilsIn(e, l.id, l.cmd)
  <2>1. e.orders[l.id].member = l.cmd.member
    BY <1>2
  <2>2. Cardinality(LinesIn(e, l.id)) = Len(l.cmd.lines)
    BY <1>1, <1>3, <1>4, CartRows
  <2>3. ASSUME NEW n \in DOMAIN l.cmd.lines
        PROVE  \E line \in LinesIn(e, l.id) :
                 /\ line.pos = n /\ line.item = l.cmd.lines[n].item
                 /\ line.count = l.cmd.lines[n].count
    <3>1. RowOf(l, n) \in LinesIn(e, l.id)
      BY <1>3, <1>5, <2>3
    <3>2. l.cart[n].item = l.cmd.lines[n].item /\ l.cart[n].count = l.cmd.lines[n].count
      BY <1>1, <1>5, <2>3 DEF CartOK
    <3>3. /\ RowOf(l, n).pos = n /\ RowOf(l, n).item = l.cart[n].item
          /\ RowOf(l, n).count = l.cart[n].count
      BY DEF RowOf
    <3> QED BY <3>1, <3>2, <3>3
  <2> QED BY <2>1, <2>2, <2>3 DEF FulfilsIn
<1>10. Asked(e, l.id)
  BY <1>1, <1>9 DEF Asked, CartOK
<1> QED
  BY <1>2, <1>3, <1>5, <1>7, <1>8, <1>10 DEF RecordedIn

LEMMA CommitKeepsTables ==
  ASSUME TypeInv, HandlersInv, AtomInv, NEW w \in Worker, pc[w] = "commit"
  PROVE  TablesWhole(Committed(w), nextDelivery)
<1> DEFINE l == loc[w]
           e == Committed(w)
<1>1. l.op \in {"place", "cancel"} /\ l \in Local
  BY DEF HandlersInv, HandlerOK, TypeInv, TypeOK
<1>2. TablesWhole(db, nextDelivery) /\ OrdersKept(db, e)
  BY CommitKeepsOrders DEF AtomInv
<1>3. CASE l.op = "place"
  <2> DEFINE rows == {RowOf(l, n) : n \in DOMAIN l.cart}
  <2>1. /\ l.id \in OrderId /\ db.orders[l.id] = NULL
        /\ l.dlv < nextDelivery /\ l.dlv \notin db.delivery
        /\ e.delivery = db.delivery \cup {l.dlv}
        /\ e.orderItem = db.orderItem \cup rows
        /\ e.orders[l.id] # NULL
        /\ \A o \in OrderId \ {l.id} : e.orders[o] = db.orders[o]
    BY <1>3, CommittedPlace
  <2>2. e.orders[l.id].delivery = l.dlv
    BY <1>3, CommitRecords DEF RecordedIn
  <2>3. LinesIn(e, l.id) = rows /\ rows # {} /\ Asked(e, l.id)
    BY <1>3, CommitRecords
  <2>4. /\ \A line \in rows : line.order = l.id
        /\ {line.pos : line \in rows} = 1 .. Cardinality(rows)
        /\ \A j, k \in rows : j.pos = k.pos => j = k
    BY <1>1, CartRows
  <2> HIDE DEF e, rows
  <2>5. ASSUME NEW o \in OrderId, e.orders[o] # NULL
        PROVE  /\ e.orders[o].delivery \in e.delivery
               /\ Asked(e, o)
               /\ LinesIn(e, o) # {}
               /\ {k.pos : k \in LinesIn(e, o)} = 1 .. Cardinality(LinesIn(e, o))
               /\ \A j, k \in LinesIn(e, o) : j.pos = k.pos => j = k
    <3>1. CASE o = l.id
      BY <2>1, <2>3, <2>4, <2>2, <3>1
    <3>2. CASE o # l.id
      <4>1. db.orders[o] # NULL /\ e.orders[o] = db.orders[o]
        BY <2>1, <2>5, <3>2
      <4>2. LinesIn(e, o) = LinesIn(db, o) /\ Asked(e, o)
        BY <1>2, <4>1, AskedKept DEF OrdersKept, TablesWhole
      <4> QED BY <1>2, <2>1, <4>1, <4>2 DEF TablesWhole
    <3> QED BY <3>1, <3>2
  <2>6. ASSUME NEW line \in e.orderItem PROVE e.orders[line.order] # NULL
    <3>1. CASE line \in rows
      BY <2>1, <2>4, <3>1
    <3>2. CASE line \in db.orderItem
      <4>1. line.order \in OrderId
        BY <3>2 DEF TypeInv, TypeOK, DatabaseTypeOK, Tables, LineRow
      <4>2. db.orders[line.order] # NULL
        BY <1>2, <3>2 DEF TablesWhole
      <4> QED BY <1>2, <4>1, <4>2 DEF OrdersKept
    <3> QED BY <2>1, <3>1, <3>2
  <2>7. ASSUME NEW x \in e.delivery
        PROVE  /\ x < nextDelivery
               /\ \E o \in OrderId : e.orders[o] # NULL /\ e.orders[o].delivery = x
    <3>1. CASE x = l.dlv
      BY <2>1, <2>2, <3>1
    <3>2. CASE x \in db.delivery
      <4>1. PICK o \in OrderId : db.orders[o] # NULL /\ db.orders[o].delivery = x
        BY <1>2, <3>2 DEF TablesWhole
      <4>2. e.orders[o] # NULL /\ e.orders[o].delivery = x
        BY <1>2, <4>1 DEF OrdersKept
      <4> QED BY <1>2, <3>2, <4>2 DEF TablesWhole
    <3> QED BY <2>1, <3>1, <3>2
  <2>8. ASSUME NEW o \in OrderId, NEW q \in OrderId, e.orders[o] # NULL, e.orders[q] # NULL,
               e.orders[o].delivery = e.orders[q].delivery
        PROVE  o = q
    <3>1. \A k \in OrderId \ {l.id} :
            e.orders[k] # NULL => db.orders[k] # NULL /\ e.orders[k].delivery # l.dlv
      BY <1>2, <2>1 DEF TablesWhole
    <3>2. CASE o # l.id /\ q # l.id
      BY <1>2, <2>1, <2>8, <3>2 DEF TablesWhole
    <3>3. CASE o = l.id \/ q = l.id
      BY <2>1, <2>8, <2>2, <3>1, <3>3
    <3> QED BY <3>2, <3>3
  <2> QED BY <2>5, <2>6, <2>7, <2>8 DEF TablesWhole, e
<1>4. CASE l.op = "cancel"
  <2>1. /\ l.id \in OrderId /\ e.delivery = db.delivery /\ e.orderItem = db.orderItem
        /\ db.orders[l.id] # NULL
        /\ \A o \in OrderId \ {l.id} : e.orders[o] = db.orders[o]
    BY <1>4, CommittedCancel
  <2> HIDE DEF e
  <2>2. \A o \in OrderId : e.orders[o] # NULL <=> db.orders[o] # NULL
    BY <1>2, <2>1 DEF OrdersKept
  <2>3. \A o \in OrderId : db.orders[o] # NULL => e.orders[o].delivery = db.orders[o].delivery
    BY <1>2 DEF OrdersKept
  <2>4. \A o \in OrderId : LinesIn(e, o) = LinesIn(db, o)
    BY <2>1 DEF LinesIn
  <2>5. \A line \in db.orderItem : line.order \in OrderId
    BY DEF TypeInv, TypeOK, DatabaseTypeOK, Tables, LineRow
  <2>6. \A o \in OrderId : db.orders[o] # NULL => Asked(e, o)
    BY <1>2, AskedKept DEF TablesWhole
  <2> QED BY <1>2, <2>1, <2>2, <2>3, <2>4, <2>5, <2>6 DEF TablesWhole, e
<1> QED
  BY <1>1, <1>3, <1>4

\* The COMMIT, acknowledged or not.
LEMMA AtomCommit ==
  ASSUME TypeInv, HandlersInv, AtomInv, NEW w \in Worker,
         Commit(w) \/ CommitUnacknowledged(w)
  PROVE  AtomInv'
<1>1. PICK r \in {Success(w), "internal"} :
        /\ pc[w] = "commit" /\ CommitTx(w) /\ pc' = [pc EXCEPT ![w] = "respond"]
        /\ reply' = [reply EXCEPT ![w] = r] /\ UNCHANGED <<nextOrder, nextDelivery, loc>>
  BY DEF Commit, CommitUnacknowledged, Goto
<1>2. /\ db' = Committed(w) /\ tx' = [tx EXCEPT ![w] = NoTx]
  BY <1>1 DEF CommitTx
<1>3. /\ pc'[w] = "respond" /\ tx'[w] = NoTx /\ reply'[w] = r /\ loc' = loc
      /\ \A v \in Worker \ {w} :
           pc'[v] = pc[v] /\ tx'[v] = tx[v] /\ reply'[v] = reply[v]
  BY <1>1, <1>2 DEF TypeInv, TypeOK, DatabaseTypeOK
<1>4. /\ OrdersKept(db, db') /\ TablesWhole(db', nextDelivery')
      /\ db \in Tables /\ db' \in Tables
  BY <1>1, <1>2, CommitKeepsOrders, CommitKeepsTables, CommittedType DEF TypeInv, TypeOK, DatabaseTypeOK
<1>5. loc[w].op \in {"place", "cancel"} /\ loc[w] \in Local
  BY <1>1 DEF HandlersInv, HandlerOK, TypeInv, TypeOK
<1>6. /\ WritesOK("respond", loc[w], NoTx) /\ CancelOK("respond", loc[w], NoTx, db')
      /\ IdsOK("respond", loc[w], db', nextOrder', nextDelivery') /\ AnswerOK(loc[w], r, db')
  <2>1. WritesOK("respond", loc[w], NoTx) /\ CancelOK("respond", loc[w], NoTx, db')
    BY NoTxWrites DEF WritesOK, CancelOK, Inserted, Delivering
  <2>2. CASE loc[w].op = "place"
    <3>1. RecordedIn(db', loc[w])
      BY <1>1, <1>2, <2>2, CommitRecords
    <3>2. r \in {"created", "internal"}
      BY <2>2 DEF Success
    <3>3. IdsOK("commit", loc[w], db, nextOrder, nextDelivery)
      BY <1>1, AtomHandler
    <3> QED BY <1>1, <2>1, <2>2, <3>1, <3>2, <3>3 DEF IdsOK, AnswerOK, Delivering
  <2>3. CASE loc[w].op = "cancel"
    <3>1. r \in {"no_content", "internal"}
      BY <2>3 DEF Success
    <3>2. /\ loc[w].id \in OrderId /\ db'.orders[loc[w].id] # NULL
          /\ db'.orders[loc[w].id] = [db.orders[loc[w].id] EXCEPT !.status = "CANCEL"]
          /\ db.orders[loc[w].id] # NULL
      BY <1>1, <1>2, <2>3, CommittedCancel
    <3>3. db'.orders[loc[w].id].status = "CANCEL"
      <4>1. db.orders[loc[w].id] \in OrderRow
        BY <1>4, <3>2 DEF Tables, Opt
      <4> QED BY <3>2, <4>1 DEF OrderRow
    <3> QED BY <2>1, <2>3, <3>1, <3>2, <3>3 DEF IdsOK, AnswerOK, Delivering
  <2> QED BY <1>5, <2>2, <2>3
<1>7. ASSUME NEW v \in Worker, v # w
      PROVE  /\ WritesOK(pc[v], loc[v], tx[v])
             /\ CancelOK(pc[v], loc[v], tx[v], db')
             /\ IdsOK(pc[v], loc[v], db', nextOrder, nextDelivery)
             /\ AnswerOK(loc[v], reply[v], db')
  <2>1. Apart("commit", loc[w], pc[v], loc[v]) /\ Apart(pc[v], loc[v], "commit", loc[w])
    BY <1>1, <1>7, AtomHandler
  <2>2. HandlerOK(pc[v], loc[v], reply[v]) /\ loc[v] \in Local
    BY DEF HandlersInv, TypeInv, TypeOK
  <2>3. loc[v].op = "place" /\ loc[v].id # 0 /\ db.orders[loc[v].id] = NULL
          => db'.orders[loc[v].id] = NULL
    <3>1. loc[v].id # 0 => loc[v].id \in OrderId
      BY <2>2 DEF Local
    <3>2. CASE loc[w].op = "place"
      <4>1. /\ loc[w].id \in OrderId
            /\ \A o \in OrderId \ {loc[w].id} : db'.orders[o] = db.orders[o]
        BY <1>1, <1>2, <3>2, CommittedPlace
      <4>2. loc[w].id # 0
        BY <4>1, MaxOrderAssumption DEF OrderId
      <4> QED BY <2>1, <3>1, <3>2, <4>1, <4>2 DEF Apart
    <3>3. CASE loc[w].op = "cancel"
      <4>1. /\ db.orders[loc[w].id] # NULL
            /\ \A o \in OrderId \ {loc[w].id} : db'.orders[o] = db.orders[o]
        BY <1>1, <1>2, <3>3, CommittedCancel
      <4> QED BY <3>1, <4>1
    <3> QED BY <1>5, <3>2, <3>3
  <2>4. Delivering(pc[v], loc[v]) => loc[v].dlv \notin db'.delivery
    <3>1. Delivering(pc[v], loc[v]) => loc[v].dlv \notin db.delivery
      BY AtomHandler DEF IdsOK
    <3>2. CASE loc[w].op = "place"
      <4>1. Delivering("commit", loc[w])
        BY <3>2 DEF Delivering
      <4>2. db'.delivery = db.delivery \cup {loc[w].dlv}
        BY <1>1, <1>2, <3>2, CommittedPlace
      <4> QED BY <2>1, <3>1, <4>1, <4>2 DEF Apart
    <3>3. CASE loc[w].op = "cancel"
      <4>1. db'.delivery = db.delivery
        BY <1>1, <1>2, <3>3, CommittedCancel
      <4> QED BY <3>1, <4>1
    <3> QED BY <1>5, <3>2, <3>3
  <2>5. WritesOK(pc[v], loc[v], tx[v]) /\ CancelOK(pc[v], loc[v], tx[v], db)
        /\ IdsOK(pc[v], loc[v], db, nextOrder, nextDelivery) /\ AnswerOK(loc[v], reply[v], db)
    BY AtomHandler
  <2> QED BY <1>4, <2>2, <2>3, <2>4, <2>5, OthersKept
<1>8. ASSUME NEW u \in Worker, NEW v \in Worker, u # v
      PROVE  Apart(pc'[u], loc[u], pc'[v], loc[v])
  <2>1. Apart(pc[u], loc[u], pc[v], loc[v])
    BY <1>8, AtomHandler
  <2>2. \A q \in {u, v} : Delivering(pc'[q], loc[q]) => Delivering(pc[q], loc[q])
    BY <1>3 DEF Delivering
  <2> QED BY <2>1, <2>2 DEF Apart
<1> QED
  BY <1>1, <1>3, <1>4, <1>6, <1>7, <1>8 DEF AtomInv

LEMMA AtomCrash ==
  ASSUME TypeInv, AtomInv, Crash
  PROVE  AtomInv'
<1>1. /\ UNCHANGED <<db, nextOrder, nextDelivery>>
      /\ \A w \in Worker : /\ pc'[w] = "idle" /\ loc'[w] = NoLocal
                            /\ tx'[w] = NoTx /\ reply'[w] = "none"
  BY DEF Crash
<1>2. /\ WritesOK("idle", NoLocal, NoTx) /\ CancelOK("idle", NoLocal, NoTx, db)
      /\ IdsOK("idle", NoLocal, db, nextOrder, nextDelivery)
      /\ AnswerOK(NoLocal, "none", db)
      /\ Apart("idle", NoLocal, "idle", NoLocal)
  BY NoTxWrites DEF WritesOK, CancelOK, IdsOK, AnswerOK, Apart, Inserted, Delivering, NoLocal
<1> QED
  BY <1>1, <1>2 DEF AtomInv

\* The other contexts leave the tables of orders alone.
LEMMA AtomOtherContexts ==
  ASSUME TypeInv, HandlersInv, AtomInv, OtherContexts
  PROVE  OrdersKept(db, db') /\ AtomInv'
<1>1. /\ UNCHANGED <<nextOrder, nextDelivery, tx, pc, loc, reply>>
      /\ db'.orders = db.orders /\ db'.orderItem = db.orderItem
      /\ db'.delivery = db.delivery
  BY DEF OtherContexts, Register, CatalogWrites, CreateItem, ReplaceItem, handlerVars,
         InsertMember, InsertItem, UpdateItem, TypeInv, TypeOK, DatabaseTypeOK, Tables
<1>2. \A o : LinesIn(db', o) = LinesIn(db, o)
  BY <1>1 DEF LinesIn
<1>3. OrdersKept(db, db')
  BY <1>1, <1>2 DEF OrdersKept
<1>4. TablesWhole(db', nextDelivery')
  <2>1. \A o \in OrderId : db.orders[o] # NULL => Asked(db', o)
    BY <1>3, AskedKept DEF AtomInv, TablesWhole
  <2> QED BY <1>1, <1>2, <2>1 DEF AtomInv, TablesWhole
<1>5. ASSUME NEW w \in Worker
      PROVE  /\ CancelOK(pc[w], loc[w], tx[w], db')
             /\ IdsOK(pc[w], loc[w], db', nextOrder, nextDelivery)
             /\ AnswerOK(loc[w], reply[w], db')
  <2>1. \A l : RecordedIn(db, l) => RecordedIn(db', l)
    BY <1>1, <1>2 DEF RecordedIn
  <2>2. /\ CancelOK(pc[w], loc[w], tx[w], db)
        /\ IdsOK(pc[w], loc[w], db, nextOrder, nextDelivery)
        /\ AnswerOK(loc[w], reply[w], db)
    BY AtomHandler
  <2> QED BY <1>1, <2>1, <2>2 DEF CancelOK, IdsOK, AnswerOK
<1> QED
  BY <1>1, <1>3, <1>4, <1>5, AtomHandler DEF AtomInv

LEMMA AtomInit == Init => AtomInv
<1> SUFFICES ASSUME Init PROVE AtomInv
  OBVIOUS
<1>1. /\ WritesOK("idle", NoLocal, NoTx) /\ CancelOK("idle", NoLocal, NoTx, db)
      /\ IdsOK("idle", NoLocal, db, nextOrder, nextDelivery)
      /\ AnswerOK(NoLocal, "none", db)
      /\ Apart("idle", NoLocal, "idle", NoLocal)
  BY NoTxWrites DEF WritesOK, CancelOK, IdsOK, AnswerOK, Apart, Inserted, Delivering, NoLocal
<1>2. TablesWhole(db, nextDelivery)
  BY DEF Init, EmptyTables, TablesWhole
<1> QED
  BY <1>1, <1>2 DEF Init, AtomInv

LEMMA AtomNext == TypeInv /\ LockInv /\ HandlersInv /\ AtomInv /\ [Next]_vars => AtomInv'
<1> SUFFICES ASSUME TypeInv, LockInv, HandlersInv, AtomInv, [Next]_vars PROVE AtomInv'
  OBVIOUS
<1>1. CASE UNCHANGED vars
  BY <1>1 DEF vars, AtomInv
<1>2. ASSUME NEW w \in Worker, Statement(w) PROVE AtomInv'
  BY <1>2, AtomEnsureExists, AtomReserve, AtomReserveUpdate, AtomCreateDelivery,
     AtomCreateOrder, AtomCreateOrderItem, AtomLoadOrder, AtomRestore, AtomRestoreUpdate,
     AtomUpdateStatus, AtomCommit, AtomRespond DEF Statement
<1>3. ASSUME NEW w \in Worker, StatementFails(w) \/ DeadlockVictim(w) PROVE AtomInv'
  BY <1>3, AtomAbort DEF StatementFails, DeadlockVictim
<1> QED
  BY <1>1, <1>2, <1>3, AtomSubmitPlace, AtomSubmitCancel, AtomCommit, AtomOtherContexts,
     AtomCrash DEF Next, Handlers

LEMMA OrdersKeptNext ==
  TypeInv /\ HandlersInv /\ AtomInv /\ [Next]_vars => OrdersKept(db, db')
<1> SUFFICES ASSUME TypeInv, HandlersInv, AtomInv, [Next]_vars PROVE OrdersKept(db, db')
  OBVIOUS
<1>1. CASE UNCHANGED db
  BY <1>1 DEF OrdersKept
<1>2. ASSUME NEW w \in Worker, Commit(w) \/ CommitUnacknowledged(w)
      PROVE  OrdersKept(db, db')
  <2>1. pc[w] = "commit" /\ db' = Committed(w)
    BY <1>2 DEF Commit, CommitUnacknowledged, CommitTx
  <2> QED BY <2>1, CommitKeepsOrders
<1>3. ASSUME NEW w \in Worker, Statement(w), ~Commit(w) PROVE UNCHANGED db
  BY <1>3 DEF Statement, EnsureExists, Reserve, ReserveUpdate, CreateDelivery, CreateOrder,
     CreateOrderItem, LoadOrder, Restore, RestoreUpdate, UpdateStatus, Respond, Abort
<1>4. ASSUME NEW w \in Worker,
             \/ \E cmd \in Cmds : SubmitPlace(w, cmd)
             \/ \E o \in OrderId \cup {0} : SubmitCancel(w, o)
             \/ StatementFails(w) \/ DeadlockVictim(w)
      PROVE  UNCHANGED db
  BY <1>4 DEF SubmitPlace, SubmitCancel, StatementFails, DeadlockVictim, Abort, dbVars
<1>5. CASE Crash \/ UNCHANGED vars
  BY <1>1, <1>5 DEF Crash, vars
<1> QED
  BY <1>1, <1>2, <1>3, <1>4, <1>5, AtomOtherContexts DEF Next, Handlers

-----------------------------------------------------------------------------

LEMMA AtomAlways == Spec => [](TypeInv /\ LockInv /\ HandlersInv /\ AtomInv)
<1> DEFINE Inv == TypeInv /\ LockInv /\ HandlersInv /\ AtomInv
<1>1. Init => Inv
  BY TypeInit, LockInit, HandlersInit, AtomInit
<1>2. Inv /\ [Next]_vars => Inv'
  BY TypeNext, LockNext, HandlersNext, AtomNext
<1> HIDE DEF Inv
<1>3. Spec => []Inv
  BY <1>1, <1>2, PTL DEF Spec
<1> QED
  BY <1>3 DEF Inv

\* The tables are as NoPartialOrder says.
LEMMA WholeTables == TypeInv /\ AtomInv => NoPartialOrder
<1> SUFFICES ASSUME TypeInv, AtomInv PROVE NoPartialOrder
  OBVIOUS
<1>1. TablesWhole(db, nextDelivery)
  BY DEF AtomInv
<1>2. \A o : LinesOf(o) = LinesIn(db, o)
  BY DEF LinesOf, LinesIn
<1>3. ASSUME NEW d \in db.delivery
      PROVE  Cardinality({o \in OrderId : db.orders[o] # NULL /\ db.orders[o].delivery = d}) = 1
  <2>1. PICK q \in OrderId : db.orders[q] # NULL /\ db.orders[q].delivery = d
    BY <1>1 DEF TablesWhole
  <2>2. {o \in OrderId : db.orders[o] # NULL /\ db.orders[o].delivery = d} = {q}
    BY <1>1, <2>1 DEF TablesWhole
  <2> QED BY <2>2, FS_Singleton
<1>4. ASSUME NEW o \in OrderId, db.orders[o] # NULL
      PROVE  \E cmd \in Cmds : Valid(cmd) /\ Fulfils(o, cmd)
  <2>1. PICK cmd \in Cmds : Valid(cmd) /\ FulfilsIn(db, o, cmd)
    BY <1>1, <1>4 DEF TablesWhole, Asked
  <2> QED BY <1>2, <2>1 DEF FulfilsIn, Fulfils
<1> QED
  BY <1>1, <1>3, <1>4 DEF TablesWhole, NoPartialOrder

\* The answers are as AnswerMatchesDatabase says.
LEMMA TrueAnswers == TypeInv /\ HandlersInv /\ AtomInv => AnswerMatchesDatabase
<1> SUFFICES ASSUME TypeInv, HandlersInv, AtomInv, NEW w \in Worker
             PROVE  /\ reply[w] = "created" => Recorded(w)
                    /\ (/\ loc[w].op = "place"
                        /\ reply[w] \in {"bad_param", "not_found", "insufficient_stock"})
                         => loc[w].id = 0
                    /\ (loc[w].op = "place" /\ loc[w].id # 0)
                         => Recorded(w) \/ db.orders[loc[w].id] = NULL
                    /\ reply[w] \in {"no_content", "already_canceled"}
                         => db.orders[loc[w].id].status = "CANCEL"
  BY DEF AnswerMatchesDatabase
<1>1. RecordedIn(db, loc[w]) => Recorded(w)
  BY DEF RecordedIn, Recorded, RowOf, LinesOf, LinesIn
<1>2. AnswerOK(loc[w], reply[w], db) /\ IdsOK(pc[w], loc[w], db, nextOrder, nextDelivery)
  BY AtomHandler
<1>3. HandlerOK(pc[w], loc[w], reply[w])
  BY DEF HandlersInv
<1> QED
  BY <1>1, <1>2, <1>3 DEF AnswerOK, IdsOK, HandlerOK

\* Place is all in one transaction: whatever fails, crashes, deadlocks or is
\* not acknowledged, an order is in the tables with its delivery and with each
\* line of a request and no other, or nothing of it is.
THEOREM OrdersAllOrNothing == Spec => []NoPartialOrder
<1>1. TypeInv /\ LockInv /\ HandlersInv /\ AtomInv => NoPartialOrder
  BY WholeTables
<1> QED
  BY <1>1, AtomAlways, PTL

\* What a handler is about to answer is what the tables hold, and stays so
\* until it is written: a 201 shows an order that is there as shown, another
\* answer to Place but a 500 leaves none, a 204 and "already canceled" are of a
\* canceled order.
THEOREM AnswersTrue == Spec => []AnswerMatchesDatabase
<1>1. TypeInv /\ LockInv /\ HandlersInv /\ AtomInv => AnswerMatchesDatabase
  BY TrueAnswers
<1> QED
  BY <1>1, AtomAlways, PTL

\* No step of any request, and no other context, takes an order, a delivery or
\* a line out of the tables again, changes whose it is, or makes a canceled
\* order valid again: repo.Create and repo.UpdateStatus are all there is.
THEOREM OrdersLast == Spec => [][OrdersKept(db, db')]_vars
<1>1. /\ TypeInv /\ LockInv /\ HandlersInv /\ AtomInv
      /\ [Next]_vars
      => [OrdersKept(db, db')]_vars
  BY OrdersKeptNext
<1> QED
  BY <1>1, AtomAlways, PTL DEF Spec

=============================================================================
