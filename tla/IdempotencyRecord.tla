-------------------------- MODULE IdempotencyRecord --------------------------
(***************************************************************************)
(* One row of the table ApiIdempotencyRecord, and what the statements of   *)
(* PrismaApiIdempotencyStore (src/lib/api-idempotency.ts) do to it.  Rows  *)
(* of different (scope, keyHash) pairs never touch each other, so a client *)
(* module keeps one row and calls these operators on it.                   *)
(***************************************************************************)
EXTENDS Naturals

CONSTANTS
    Hashes,     \* hashes of request bodies sent under the key
    Owners,     \* owner tokens of claims
    Responses,  \* responses a claim can store
    NoRecord,   \* the row does not exist
    NoOne       \* SQL NULL in ownerToken, responseStatus, ...

Statuses == {"PROCESSING", "DISPATCHED", "COMPLETED"}

Records == [status: Statuses, hash: Hashes, owner: Owners \cup {NoOne},
            response: Responses \cup {NoOne},
            expiresAt: Nat, leaseExpiresAt: Nat]

(* The shape of a stored row: an owner until it is completed, a response   *)
(* from then on.                                                           *)
WellFormed(rec) ==
    /\ rec \in Records
    /\ rec.status = "COMPLETED" <=> rec.owner = NoOne
    /\ rec.status = "COMPLETED" <=> rec.response # NoOne

(* Mutant: the takeover branch does not wait for the lease.                *)
ClaimableDuringLease(rec, hash, now) ==
    rec # NoRecord =>
        \/ rec.status # "DISPATCHED" /\ rec.expiresAt <= now
        \/ rec.status = "PROCESSING" /\ rec.hash = hash

(* Mutant: no takeover at all, an abandoned claim blocks until it expires. *)
ClaimableOnlyExpired(rec, hash, now) ==
    rec # NoRecord => rec.status # "DISPATCHED" /\ rec.expiresAt <= now

(* Mutant: DISPATCHED rows expire like the others.                         *)
ClaimableDispatched(rec, hash, now) ==
    rec # NoRecord =>
        \/ rec.expiresAt <= now
        \/ /\ rec.status = "PROCESSING"
           /\ rec.hash = hash
           /\ rec.leaseExpiresAt <= now

(* claim(): INSERT ... ON CONFLICT DO UPDATE ... WHERE takes the row.      *)
Claimable(rec, hash, now) ==
    rec # NoRecord =>
        \/ /\ rec.status # "DISPATCHED"
           /\ rec.expiresAt <= now
        \/ /\ rec.status = "PROCESSING"
           /\ rec.hash = hash
           /\ rec.leaseExpiresAt <= now

ClaimedRecord(hash, owner, expiresAt, leaseExpiresAt) ==
    [status |-> "PROCESSING", hash |-> hash, owner |-> owner,
     response |-> NoOne, expiresAt |-> expiresAt,
     leaseExpiresAt |-> leaseExpiresAt]

(* What a reader that did not get the row makes of it.                     *)
Conflicting(rec, hash) == rec # NoRecord /\ rec.hash # hash

(* Mutant: the stored answer is returned without comparing bodies.         *)
AnsweredAnyBody(rec, hash) == rec # NoRecord /\ rec.status = "COMPLETED"

Answered(rec, hash) ==
    rec # NoRecord /\ rec.hash = hash /\ rec.status = "COMPLETED"

InProgress(rec, hash) ==
    rec # NoRecord /\ rec.hash = hash /\ rec.status # "COMPLETED"

(* The WHERE of complete(): the claim is still this owner's.               *)
Completable(rec, owner) ==
    /\ rec # NoRecord
    /\ rec.status \in {"PROCESSING", "DISPATCHED"}
    /\ rec.owner = owner

CompletedRecord(rec, response, expiresAt) ==
    [rec EXCEPT !.status = "COMPLETED", !.owner = NoOne,
                !.response = response, !.expiresAt = expiresAt]

(* Mutant: release() without the status in its WHERE.                      *)
ReleasedAnyStatus(rec, owner) ==
    IF rec # NoRecord /\ rec.owner = owner THEN NoRecord ELSE rec

(* release(): DELETE of a PROCESSING row of this owner, or no row at all.  *)
ReleasedRecord(rec, owner) ==
    IF rec # NoRecord /\ rec.status = "PROCESSING" /\ rec.owner = owner
    THEN NoRecord
    ELSE rec

(* Mutant: the cron deletes by the lease's end.                            *)
PrunableAfterLease(rec, now) ==
    rec # NoRecord /\ rec.status # "DISPATCHED" /\ rec.leaseExpiresAt <= now

(* deleteExpired(): the WHERE of the cron's DELETE.                        *)
Prunable(rec, now) ==
    /\ rec # NoRecord
    /\ rec.status # "DISPATCHED"
    /\ rec.expiresAt <= now
=============================================================================
