------------------------------ MODULE MCAiBudget ------------------------------
(* Values for AiBudget: a request of one project that is sent twice (the   *)
(* runs a1 and a2 of "r1", alike in everything else) next to a request of  *)
(* a second project (a3).                                                  *)
EXTENDS AiBudget, TLC

CONSTANTS p1, p2, o1, o2, a1, a2, a3

Mixed == [a \in Attempts |-> IF a = a3 THEN p2 ELSE p1]
Requests == [a \in Attempts |-> IF a = a3 THEN "r2" ELSE "r1"]
Runs == [a \in Attempts |-> a]
Bounds == [a \in Attempts |-> IF a = a3 THEN 4 ELSE 2]
AllHome == [p \in Projects |-> o1]
Retries == Permutations({a1, a2})

Modest == [cap |-> 5, perCall |-> 4, currency |-> "EUR", rate |-> 2,
           expires |-> 3, warning |-> 50]
DearDollars == [cap |-> 4, perCall |-> 4, currency |-> "USD", rate |-> 3,
                expires |-> 2, warning |-> 50]
TwoPolicies == {Modest, DearDollars}
=============================================================================
