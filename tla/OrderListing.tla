---------------------------- MODULE OrderListing ----------------------------
(***************************************************************************)
(* GET /members/{id}/orders beside Ordering.  FindByMember runs outside    *)
(* any transaction: the orders, their lines and their deliveries are three *)
(* queries on the pool, each of which sees what is committed when it runs. *)
(*                                                                         *)
(* One reader asks again and again; it keeps what it was told last.        *)
(***************************************************************************)
EXTENDS Ordering

VARIABLE reader

listingVars == <<db, nextOrder, nextDelivery, tx, pc, loc, reply, submitted, reader>>

\* domain.Order, without its lines and delivery.
ListedOrder == [id : OrderId, member : MemberId, status : OrderStatus, delivery : DeliveryId]

Reader ==
    [place      : {"idle", "items", "deliveries", "answer"},
     member     : Opt(MemberId),
     orders     : SUBSET ListedOrder,   \* orders
     lines      : SUBSET LineRow,       \* items
     deliveries : SUBSET DeliveryId,    \* deliveries
     told       : SUBSET ListedOrder]   \* the orders of the last answer per member

IdleReader(told) ==
    [place |-> "idle", member |-> NULL, orders |-> {}, lines |-> {},
     deliveries |-> {}, told |-> told]

ListingInit == Init /\ reader = IdleReader({})

OrdersOf_OnlyOpen(m) ==
    {[id |-> o, member |-> m, status |-> db.orders[o].status,
      delivery |-> db.orders[o].delivery] :
        o \in {p \in OrderId : db.orders[p] # NULL /\ db.orders[p].member = m
                                /\ db.orders[p].status = "ORDER"}}

\* ListOrdersByMember; toOrder.
OrdersOf(m) ==
    {[id |-> o, member |-> m, status |-> db.orders[o].status,
      delivery |-> db.orders[o].delivery] :
        o \in {p \in OrderId : db.orders[p] # NULL /\ db.orders[p].member = m}}

ListOrders(m) ==
    /\ reader.place = "idle"
    /\ reader' = [reader EXCEPT
                    !.place = IF OrdersOf(m) = {} THEN "answer" ELSE "items",
                    !.member = m,
                    !.orders = OrdersOf(m)]

\* The orders a batch query asks for: all that were listed.
Batch_FirstOnly(orders) == {CHOOSE o \in orders : \A p \in orders : o.id <= p.id}
Batch(orders) == orders

\* itemsByOrders: the lines of all of them in one query.
LoadItems ==
    /\ reader.place = "items"
    /\ reader' = [reader EXCEPT
                    !.place = "deliveries",
                    !.lines = UNION {LinesOf(o.id) : o \in Batch(reader.orders)}]

\* deliveriesByIDs.
LoadDeliveries ==
    /\ reader.place = "deliveries"
    /\ reader' = [reader EXCEPT
                    !.place = "answer",
                    !.deliveries = db.delivery \cap {o.delivery : o \in reader.orders}]

\* The answer reaches the client.
AnswerListing ==
    /\ reader.place = "answer"
    /\ reader' = IdleReader({o \in reader.told : o.member # reader.member}
                              \cup reader.orders)

\* A query fails, or the process dies: no list.
ListingFails ==
    /\ reader.place # "idle"
    /\ reader' = IdleReader(reader.told)

Listing ==
    \/ \E m \in MemberId : ListOrders(m)
    \/ LoadItems \/ LoadDeliveries \/ AnswerListing \/ ListingFails

ListingNext ==
    \/ (Handlers \/ OtherContexts) /\ UNCHANGED reader
    \/ Crash /\ reader' = IdleReader(reader.told)
    \/ Listing /\ UNCHANGED vars

ListingSpec == ListingInit /\ [][ListingNext]_listingVars
-----------------------------------------------------------------------------
(* Properties *)

ListingTypeOK == TypeOK /\ reader \in Reader

\* Although three queries see three moments, every order in an answer comes
\* with all its lines and its delivery, as they are stored: they are committed
\* with the order and never change.
ListedOrdersAreWhole ==
    reader.place = "answer" =>
      \A o \in reader.orders :
        /\ db.orders[o.id] # NULL
        /\ o.delivery = db.orders[o.id].delivery
        /\ o.delivery \in reader.deliveries
        /\ {l \in reader.lines : l.order = o.id} = LinesOf(o.id)
        /\ LinesOf(o.id) # {}

\* What a client was told stays true: an order once listed is listed again, and
\* one listed as canceled stays canceled, across failures and crashes.
ListingsAdvance ==
    [][\A o \in reader.told : \E n \in reader'.told :
         /\ n.id = o.id /\ n.member = o.member /\ n.delivery = o.delivery
         /\ o.status = "CANCEL" => n.status = "CANCEL"]_listingVars
=============================================================================
