---------------------------- MODULE MCItemSearch ----------------------------
(* ItemSearch on a small instance. *)
EXTENDS ItemSearch, TLC

CONSTANT c1

MCRows == {[price |-> 1, stock |-> 0], [price |-> 2, stock |-> 0]}

All == [category |-> NULL, minPrice |-> NULL, maxPrice |-> NULL,
        sort |-> "newest", limit |-> 0, offset |-> 0]

\* Both ages, both prices, every filter; windows that need to be normalized.
MCRequests ==
    {All,
     [All EXCEPT !.sort = "oldest", !.limit = MaxItemLimit + 1],
     [All EXCEPT !.category = c1, !.offset = -1],
     [All EXCEPT !.minPrice = 2, !.sort = "price_asc", !.limit = 2],
     [All EXCEPT !.maxPrice = 1, !.sort = "price_desc"],
     [All EXCEPT !.sort = "price_asc", !.offset = 1]}

\* Bound: a walk the properties say nothing more about is not followed.
Claimed == walk.place # "idle" => walk.steady \/ WalkByAge
=============================================================================
