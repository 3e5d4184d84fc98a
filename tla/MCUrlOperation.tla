--------------------------- MODULE MCUrlOperation ---------------------------
(* Two managers and two functions at a time, two workspaces. *)
EXTENDS UrlOperation, TLC

Everyone == [w \in Workspaces |-> Managers]

Interchangeable == Permutations(Managers) \cup Permutations(Requests)
                     \cup Permutations(Workspaces)
=============================================================================
