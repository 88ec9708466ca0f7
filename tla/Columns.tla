------------------------------ MODULE Columns -------------------------------
(* Amounts are 64-bit ints in Go and INT columns in the tables. *)
EXTENDS Integers

CONSTANT IntMax    \* the largest value an INT column holds (2^31 - 1)

ASSUME IntMaxAssumption == IntMax \in Nat

Int32 == (-(IntMax + 1)) .. IntMax

\* Go's int32(n) of a 64-bit int: the repositories convert every amount so.
ToInt32(n) ==
    IF n \in Int32 THEN n
    ELSE ((n + IntMax + 1) % (2 * (IntMax + 1))) - (IntMax + 1)
=============================================================================
