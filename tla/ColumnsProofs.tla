---------------------------- MODULE ColumnsProofs ----------------------------
(* What the conversion of an amount to its column gives, for any column     *)
(* width.                                                                   *)
EXTENDS Columns, TLAPS

\* The conversion to an INT column always gives a value the column holds.
LEMMA ToInt32Type == \A n \in Int : ToInt32(n) \in Int32
<1>1. SUFFICES ASSUME NEW n \in Int, n \notin Int32
               PROVE  ToInt32(n) \in Int32
  BY DEF ToInt32
<1> DEFINE m == 2 * (IntMax + 1)
<1>2. m \in Nat \ {0}
  BY IntMaxAssumption
<1>3. (n + IntMax + 1) % m \in 0 .. (m - 1)
  BY <1>2, IntMaxAssumption
<1>4. QED
  BY <1>1, <1>3, IntMaxAssumption DEF ToInt32, Int32

\* It changes nothing that fits.
LEMMA ToInt32Fits == \A n \in Int32 : ToInt32(n) = n
  BY DEF ToInt32
=============================================================================
