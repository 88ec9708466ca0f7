------------------------- MODULE OrderingRefinement -------------------------
(***************************************************************************)
(* The transactions of Ordering implement the acts of OrderBook: the order *)
(* book is the committed tables, an act is a COMMIT, and everything before *)
(* it, or that ends in a rollback, is invisible.                           *)
(***************************************************************************)
EXTENDS Ordering

\* A committed order with its lines in the order they were inserted.
BookEntry(o) ==
    IF db.orders[o] = NULL THEN NULL
    ELSE [member |-> db.orders[o].member,
          status |-> db.orders[o].status,
          lines  |-> [n \in 1 .. Cardinality(LinesOf(o)) |->
                        LET l == CHOOSE l \in LinesOf(o) : l.pos = n
                        IN  [item |-> l.item, price |-> l.price, count |-> l.count]]]

ASSUME NullEntryAssumption ==
    NULL \notin [member : MemberId, status : OrderStatus,
                 lines : Seq([item : ItemId, price : Int32, count : Int32])]

CatalogItem == {[price |-> ToInt32(r.price), stock |-> ToInt32(r.stock)] : r \in CatalogRows}

Book ==
    INSTANCE OrderBook WITH
        Item <- ItemId, Order <- OrderId, Cmd <- Cmds, Row <- CatalogItem,
        Price <- {row.price : row \in CatalogItem}, Exact <- FALSE,
        item <- db.item, book <- [o \in OrderId |-> BookEntry(o)]

ExactBook ==
    INSTANCE OrderBook WITH
        Item <- ItemId, Order <- OrderId, Cmd <- Cmds, Row <- CatalogItem,
        Price <- {row.price : row \in CatalogItem}, Exact <- TRUE,
        item <- db.item, book <- [o \in OrderId |-> BookEntry(o)]

\* Any interleaving of requests keeps the promises about orders.
ImplementsOrderBook == Book!Spec

\* No item is replaced, and no other transaction runs, between a
\* transaction's first SELECT and its end.
Undisturbed ==
    (\E i \in ItemId : CatalogWrites(i)) => \A w \in Worker : pc[w] \notin InTx

SerialSpec == Init /\ [][Next /\ Undisturbed]_vars

\* One transaction at a time keeps the promises about stock as well: Reserve
\* and Restore move exact quantities, prices are those of the catalog, and a
\* canceled order stays canceled, whatever fails or crashes.
ImplementsExactOrderBook == ExactBook!Spec
=============================================================================
