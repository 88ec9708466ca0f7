----------------------------- MODULE MCOrdering -----------------------------
(* Ordering on small instances. *)
EXTENDS OrderingRefinement, TLC

CONSTANTS i1, i2, m1, w1, w2

PlaceOf(lines) == [member |-> m1, lines |-> lines]
L(i, n) == [item |-> i, count |-> n]

\* An order that repeats an item beside one of two items, each for all there
\* is of i1; cancels restore the lines of the second in either order, so lock
\* cycles form.  Neither is the beginning of the other.
MCCmds == {PlaceOf(<<L(i1, 1), L(i1, 1)>>), PlaceOf(<<L(i2, 1), L(i1, 2)>>)}

MCCatalogRows == {[price |-> 1, stock |-> 2]}

\* Two items in opposite orders, and enough of both for one order.
OppositeCmds == {PlaceOf(<<L(i1, 1), L(i2, 1)>>), PlaceOf(<<L(i2, 1), L(i1, 1)>>)}

ScarceCatalogRows == {[price |-> 1, stock |-> 1]}

\* For one worker: repeated items, more units than the shelf holds, and a
\* refused count.
SerialCmds == {PlaceOf(<<L(i1, 1), L(i1, 1)>>),
               PlaceOf(<<L(i2, 1), L(i1, 2)>>),
               PlaceOf(<<L(i1, 1), L(i2, 1), L(i1, 1)>>),
               PlaceOf(<<L(i1, 0)>>)}

SerialCatalogRows == {[price |-> 1, stock |-> 3], [price |-> 2, stock |-> 4]}

\* The catalog rests while requests are served: a bound for the liveness run.
\* An item write holds no lock between two steps, so no request waits for one.
CatalogRests ==
    (\E i \in ItemId : CatalogWrites(i)) => \A w \in Worker : pc[w] = "idle"

FairRestingSpec == Init /\ [][Next /\ CatalogRests]_vars /\ Fairness

Symmetry == Permutations(Worker)
=============================================================================
