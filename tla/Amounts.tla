------------------------------- MODULE Amounts -------------------------------
(***************************************************************************)
(* Sums of amounts over finite sets, as the limits of this system compare  *)
(* them with a cap.  A sum counts units, one element per unit, where a     *)
(* fold would do as well: that is how LimitProofs reasons about it.        *)
(***************************************************************************)
EXTENDS Naturals, FiniteSets

(* amount[x] units of each x of S; <<x, k>> is the k-th of them.           *)
UnitsOf(amount, S) == UNION {{x} \X (1 .. amount[x]) : x \in S}

SumOver(amount, S) == Cardinality(UnitsOf(amount, S))
=============================================================================
