------------------------------ MODULE MCCatalog -----------------------------
(* Catalog on a small instance. *)
EXTENDS Catalog, TLC

CONSTANTS c1, c2, c3, w1, w2

B(price, categories) ==
    [wellFormed |-> TRUE, price |-> price, stock |-> 0, categories |-> categories]

\* An item with a category; one whose price is beyond the column and whose
\* second category does not exist; one the service refuses.
MCBodies == {B(1, <<c1>>), B(IntMax + 1, <<c2, c3>>), B(-1, << >>)}

\* A malformed row and an item whose price is cut when it is stored.
MCFiles == {<<Malformed, B(IntMax + 1, <<c1>>)>>}

\* For the runs of the importer alone: a row the service refuses and one whose
\* category does not exist.
FailingFiles == {<<B(-1, << >>), B(1, <<c3>>)>>}

Symmetry == Permutations(Worker)
=============================================================================
