--------------------------- MODULE MCAutoUpgrade ---------------------------
(***************************************************************************)
(* One usage month, one scheduler and one other function. Two plans leave  *)
(* room for one attempt, three for one that shadows another.               *)
(* Reclaim = 0: a claim can be taken over while the function that holds it *)
(* still runs, which the code's ten minutes exclude.                       *)
(***************************************************************************)
EXTENDS AutoUpgrade

=============================================================================
