----------------------------- MODULE ItemTables -----------------------------
(***************************************************************************)
(* What whoever writes items does to the tables, seen from the pool: one   *)
(* statement at a time, in any order.  Catalog implements it; ItemSearch   *)
(* reads beside it.                                                        *)
(***************************************************************************)
EXTENDS Columns, FiniteSets

CONSTANTS
    Category,  \* the seeded categories
    Rows,      \* the rows that are written
    MaxItem,   \* bound: item ids ever allocated
    NULL

ASSUME MaxItemAssumption == MaxItem \in Nat

ItemId == 1 .. MaxItem

\* The columns of an item the module tells apart; a PUT sets all of them.
ItemRow == [price : Int32, stock : Int32]

ASSUME RowsAssumption == Rows \subseteq ItemRow /\ NULL \notin Rows

VARIABLES
    item,          \* table item
    nextItem,      \* its AUTO_INCREMENT
    categoryItem   \* table category_item: <<category, item>>

itemTables == <<item, nextItem, categoryItem>>

Items == {i \in ItemId : item[i] # NULL}

TablesInit ==
    /\ item = [i \in ItemId |-> NULL]
    /\ nextItem = 1
    /\ categoryItem = {}

\* INSERT INTO item
InsertRow(row) ==
    /\ nextItem \in ItemId
    /\ item' = [item EXCEPT ![nextItem] = row]
    /\ nextItem' = nextItem + 1
    /\ UNCHANGED categoryItem

\* UPDATE item
ReplaceRow(i, row) ==
    /\ item' = [item EXCEPT ![i] = row]
    /\ UNCHANGED <<nextItem, categoryItem>>

\* DELETE FROM category_item
Unlink(i) ==
    /\ categoryItem' = {ci \in categoryItem : ci[2] # i}
    /\ UNCHANGED <<item, nextItem>>

\* INSERT INTO category_item
Link(c, i) ==
    /\ <<c, i>> \notin categoryItem
    /\ categoryItem' = categoryItem \cup {<<c, i>>}
    /\ UNCHANGED <<item, nextItem>>

WriteItem ==
    \/ \E row \in Rows : InsertRow(row) \/ \E i \in Items : ReplaceRow(i, row)
    \/ \E i \in Items : Unlink(i) \/ \E c \in Category : Link(c, i)

TablesSpec == TablesInit /\ [][WriteItem]_itemTables
=============================================================================
