----------------------------- MODULE OrderBook ------------------------------
(***************************************************************************)
(* What the ordering context promises its clients, with no transactions,   *)
(* statements or failures in sight: an order is placed whole or not at     *)
(* all, its lines are those of a request and never change, it is only ever *)
(* canceled, and neither act touches items it does not name, a price, or   *)
(* drives stock below zero.                                                *)
(*                                                                         *)
(* Exact says how much of the stock arithmetic is promised: if TRUE, an    *)
(* act moves exactly its quantities, at today's prices, and an order is    *)
(* canceled once; if FALSE, the stock of the items it names may end up     *)
(* anywhere from zero up and an order may be canceled again.               *)
(***************************************************************************)
EXTENDS Integers, Sequences, FiniteSetsExt

CONSTANTS Item, Order, Cmd, Row, Price, Exact, NULL

VARIABLES
    item,   \* the shelf: price and stock of each item
    book    \* the orders

TypeOK ==
    /\ \A i \in Item : item[i] # NULL => item[i].stock >= 0
    /\ \A o \in Order : book[o] # NULL => book[o].status \in {"ORDER", "CANCEL"}

Init ==
    /\ item = [i \in Item |-> NULL]
    /\ book = [o \in Order |-> NULL]

ItemsOf(lines) == {lines[n].item : n \in DOMAIN lines}

Quantity(lines, i) ==
    MapThenSumSet(LAMBDA n : lines[n].count, {n \in DOMAIN lines : lines[n].item = i})

\* Stock after the lines leave the shelf (sign = -1) or return to it (1).
Move(lines, sign) ==
    /\ DOMAIN item' = Item
    /\ \A i \in Item \ ItemsOf(lines) : item'[i] = item[i]
    /\ \A i \in ItemsOf(lines) :
         /\ item[i] # NULL
         /\ item'[i] = [item[i] EXCEPT !.stock = item'[i].stock]
         /\ item'[i].stock >= 0
         /\ Exact => item'[i].stock = item[i].stock + sign * Quantity(lines, i)

Place(o) ==
    /\ book[o] = NULL
    /\ book'[o] # NULL
    /\ \E cmd \in Cmd : \E price \in [DOMAIN cmd.lines -> Price] :
         /\ cmd.lines # << >>
         /\ \A n \in DOMAIN cmd.lines : cmd.lines[n].count > 0
         /\ Move(cmd.lines, -1)
         /\ Exact => \A n \in DOMAIN cmd.lines : price[n] = item[cmd.lines[n].item].price
         /\ book' = [book EXCEPT ![o] =
                       [member |-> cmd.member,
                        status |-> "ORDER",
                        lines  |-> [n \in DOMAIN cmd.lines |->
                                      [item  |-> cmd.lines[n].item,
                                       price |-> price[n],
                                       count |-> cmd.lines[n].count]]]]

Cancel(o) ==
    /\ book[o] # NULL
    /\ Exact => book[o].status = "ORDER"
    /\ book' = [book EXCEPT ![o].status = "CANCEL"]
    /\ Move(book[o].lines, 1)

\* The item endpoints create an item or replace its row.
Stock(i) ==
    /\ \E row \in Row : item' = [item EXCEPT ![i] = row]
    /\ UNCHANGED book

Next ==
    \/ \E o \in Order : Place(o) \/ Cancel(o)
    \/ \E i \in Item : Stock(i)

Spec == Init /\ [][Next]_<<item, book>>
=============================================================================
