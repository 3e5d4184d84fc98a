--------------------------- MODULE MCIdempotency ---------------------------
(* Three requests under one key: two with the same body, one with another. *)
EXTENDS Idempotency

CONSTANTS r1, r2, r3, bodyA, bodyB

MCRequests == {r1, r2, r3}
MCHashes == {bodyA, bodyB}
MCHashOf == [r \in MCRequests |-> IF r = r3 THEN bodyB ELSE bodyA]
MCResponseRetentions == {1, Retention}
=============================================================================
