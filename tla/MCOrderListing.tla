--------------------------- MODULE MCOrderListing ---------------------------
(* OrderListing on a small instance: orders of one and of two lines. *)
EXTENDS OrderListing

CONSTANTS i1, i2, m1, m2, w1

MCCmds == {[member |-> m1, lines |-> <<[item |-> i1, count |-> 1]>>],
           [member |-> m1, lines |-> <<[item |-> i1, count |-> 1],
                                       [item |-> i2, count |-> 1]>>],
           [member |-> m2, lines |-> <<[item |-> i1, count |-> 1]>>]}

MCCatalogRows == {[price |-> 1, stock |-> 2]}
=============================================================================
