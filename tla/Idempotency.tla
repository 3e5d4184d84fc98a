---------------------------- MODULE Idempotency ----------------------------
(***************************************************************************)
(* executeIdempotently (src/lib/api-idempotency.ts) over the PostgreSQL    *)
(* store: the requests that arrive under one (scope, key) pair race for    *)
(* its row, the winner runs the pipeline, the others poll for its answer.  *)
(* Every await of the code is a place where other requests, the cron that  *)
(* prunes expired rows, and the clock can step in.                         *)
(*                                                                         *)
(* A response is named by the request whose execution produced it.  A      *)
(* request acquires the row at most once (executing ends the loop), so its *)
(* identity also stands for the owner token of the acquiring iteration.    *)
(***************************************************************************)
EXTENDS Naturals

CONSTANTS
    Requests,           \* HTTP requests carrying the key
    Hashes,             \* hashes of their bodies
    HashOf,             \* HashOf[r]: hash of the body of request r
    Lease,              \* processingLeaseMs
    Retention,          \* retentionMs
    ResponseRetentions, \* what responseRetentionMs(response) can be
    MaxDuration,        \* maxDuration of the serverless function
    MaxTime,            \* bound: the clock stops there
    NoRecord, NoOne

ASSUME HashAssumption == HashOf \in [Requests -> Hashes]

ASSUME TimingAssumption ==
    /\ Lease \in Nat \ {0}
    /\ Retention \in Nat
    /\ Lease <= Retention
    /\ ResponseRetentions \subseteq 1..Retention
    /\ MaxDuration \in Nat
    /\ MaxTime \in Nat

INSTANCE IdempotencyRecord WITH Owners <- Requests, Responses <- Requests

ASSUME NullAssumption ==
    /\ NoRecord \notin Records
    /\ NoRecord \notin [by: Requests, until: Nat]
    /\ NoOne \notin Requests

VARIABLES
    clock,    \* Date.now()
    rec,      \* the row
    pc,       \* where each request is in the loop
    now,      \* its variable `now`, read before the claim it is used in
    until,    \* leaseExpiresAt of the claim it waits for
    doneAt,   \* its completedAt
    deadline, \* when the platform ends its function
    answer    \* what it returned to its caller

vars == <<clock, rec, pc, now, until, doneAt, deadline, answer>>

Places == {"idle", "claim", "read", "wait", "execute", "complete", "release",
           "done", "dead"}
Live(r) == pc[r] \notin {"idle", "done", "dead"}
Working(r) == pc[r] \in {"execute", "complete"}

Answers == [kind: {"none", "executed", "replayed", "conflict", "error"},
            by: Requests \cup {NoOne}]
NoAnswer == [kind |-> "none", by |-> NoOne]

Init ==
    /\ clock = 0
    /\ rec = NoRecord
    /\ pc = [r \in Requests |-> "idle"]
    /\ now = [r \in Requests |-> 0]
    /\ until = [r \in Requests |-> 0]
    /\ doneAt = [r \in Requests |-> 0]
    /\ deadline = [r \in Requests |-> 0]
    /\ answer = [r \in Requests |-> NoAnswer]

Goto(r, place) == pc' = [pc EXCEPT ![r] = place]

Return(r, kind, by) ==
    /\ Goto(r, "done")
    /\ answer' = [answer EXCEPT ![r] = [kind |-> kind, by |-> by]]

-----------------------------------------------------------------------------
(* The call: `now = new Date()` is fixed before the claim runs.            *)
Receive(r) ==
    /\ pc[r] = "idle"
    /\ Goto(r, "claim")
    /\ now' = [now EXCEPT ![r] = clock]
    /\ deadline' = [deadline EXCEPT ![r] = clock + MaxDuration]
    /\ UNCHANGED <<clock, rec, until, doneAt, answer>>

(* claim(): the upsert, one SQL statement.                                 *)
Acquire(r) ==
    /\ pc[r] = "claim"
    /\ Claimable(rec, HashOf[r], now[r])
    /\ rec' = ClaimedRecord(HashOf[r], r, now[r] + Retention, now[r] + Lease)
    /\ Goto(r, "execute")
    /\ UNCHANGED <<clock, now, until, doneAt, deadline, answer>>

LoseClaim(r) ==
    /\ pc[r] = "claim"
    /\ ~Claimable(rec, HashOf[r], now[r])
    /\ Goto(r, "read")
    /\ UNCHANGED <<clock, rec, now, until, doneAt, deadline, answer>>

(* claim(): readRecord, a second statement, after a lost upsert.           *)
ReadAfterLostClaim(r) ==
    /\ pc[r] = "read"
    /\ \/ /\ rec = NoRecord
          /\ Goto(r, "claim")
          /\ UNCHANGED <<until, answer>>
       \/ /\ Conflicting(rec, HashOf[r])
          /\ Return(r, "conflict", NoOne)
          /\ UNCHANGED until
       \/ /\ Answered(rec, HashOf[r])
          /\ Return(r, "replayed", rec.response)
          /\ UNCHANGED until
       \/ /\ InProgress(rec, HashOf[r])
          /\ Goto(r, "wait")
          /\ until' = [until EXCEPT ![r] = rec.leaseExpiresAt]
          /\ UNCHANGED answer
    /\ UNCHANGED <<clock, rec, now, doneAt, deadline>>

(* The loop's next iteration: `now = new Date(); continue`.                *)
Retry(r) ==
    /\ Goto(r, "claim")
    /\ now' = [now EXCEPT ![r] = clock]
    /\ UNCHANGED answer

(* waitForCompletion(): a poll that ends the wait.  One that finds the     *)
(* claim still running changes nothing and is not a step.                  *)
Poll(r) ==
    /\ pc[r] = "wait"
    /\ \/ /\ clock < until[r] /\ rec # NoRecord =>
                InProgress(rec, HashOf[r]) /\ rec.leaseExpiresAt <= clock
          /\ Retry(r)
       \/ /\ clock < until[r]
          /\ Conflicting(rec, HashOf[r])
          /\ Return(r, "conflict", NoOne)
          /\ UNCHANGED now
       \/ /\ clock < until[r]
          /\ Answered(rec, HashOf[r])
          /\ Return(r, "replayed", rec.response)
          /\ UNCHANGED now
    /\ UNCHANGED <<clock, rec, until, doneAt, deadline>>

(* `await execute()` returned: completedAt is taken before complete().     *)
ExecuteReturns(r) ==
    /\ pc[r] = "execute"
    /\ Goto(r, "complete")
    /\ doneAt' = [doneAt EXCEPT ![r] = clock]
    /\ UNCHANGED <<clock, rec, now, until, deadline, answer>>

ExecuteThrows(r) ==
    /\ pc[r] = "execute"
    /\ Goto(r, "release")
    /\ UNCHANGED <<clock, rec, now, until, doneAt, deadline, answer>>

(* complete(): the conditional UPDATE.  Its acknowledgement may be lost,   *)
(* and then the caller treats it as failed.                                *)
Complete(r) ==
    /\ pc[r] = "complete"
    /\ Completable(rec, r)
    /\ \E k \in ResponseRetentions :
         rec' = CompletedRecord(rec, r, doneAt[r] + k)
    /\ \/ Return(r, "executed", r)
       \/ /\ Goto(r, "release")
          /\ UNCHANGED answer
    /\ UNCHANGED <<clock, now, until, doneAt, deadline>>

(* The UPDATE matched no row ("lease is no longer owned") or failed.       *)
CompleteFails(r) ==
    /\ pc[r] = "complete"
    /\ Goto(r, "release")
    /\ UNCHANGED <<clock, rec, now, until, doneAt, deadline, answer>>

(* catch: release(), whose own failure is swallowed, then rethrow.         *)
Release(r) ==
    /\ pc[r] = "release"
    /\ rec' \in {ReleasedRecord(rec, r), rec}
    /\ Return(r, "error", NoOne)
    /\ UNCHANGED <<clock, now, until, doneAt, deadline>>

(* The function dies: a crash, or the platform's limit.                    *)
Die(r) ==
    /\ Live(r)
    /\ Goto(r, "dead")
    /\ UNCHANGED <<clock, rec, now, until, doneAt, deadline, answer>>

(* pruneExpiredApiIdempotencyRecords, from the webhook cron.               *)
Prune ==
    /\ Prunable(rec, clock)
    /\ rec' = NoRecord
    /\ UNCHANGED <<clock, pc, now, until, doneAt, deadline, answer>>

(* Time passes; no function runs past its deadline.                        *)
Tick ==
    /\ clock < MaxTime
    /\ \A r \in Requests : Live(r) => clock < deadline[r]
    /\ clock' = clock + 1
    /\ UNCHANGED <<rec, pc, now, until, doneAt, deadline, answer>>

Step(r) ==
    \/ Acquire(r) \/ LoseClaim(r) \/ ReadAfterLostClaim(r) \/ Poll(r)
    \/ ExecuteReturns(r) \/ ExecuteThrows(r)
    \/ Complete(r) \/ CompleteFails(r) \/ Release(r)

Next ==
    \/ \E r \in Requests : Receive(r) \/ Step(r) \/ Die(r)
    \/ Prune
    \/ Tick

Spec == Init /\ [][Next]_vars

(* A live function keeps running and the clock advances; requests need not *)
(* arrive, functions need not die and the cron need not run.               *)
Fairness == WF_vars(Tick) /\ \A r \in Requests : WF_vars(Step(r))

FairSpec == Spec /\ Fairness

-----------------------------------------------------------------------------
TypeOK ==
    /\ clock \in Nat
    /\ rec # NoRecord => WellFormed(rec)
    /\ pc \in [Requests -> Places]
    /\ now \in [Requests -> Nat]
    /\ until \in [Requests -> Nat]
    /\ doneAt \in [Requests -> Nat]
    /\ deadline \in [Requests -> Nat]
    /\ answer \in [Requests -> Answers]

Leased(r) == Working(r) /\ clock < now[r] + Lease

(* The pipeline is run by one request at a time for as long as leases      *)
(* last: two requests can both be inside execute() only when the earlier   *)
(* one has outlived its lease (takeover in the upsert's WHERE).            *)
ExclusiveWhileLeased ==
    \A r, s \in Requests : Leased(r) /\ Leased(s) => r = s

(* With functions killed before a lease can run out (maxDuration of the    *)
(* route below processingLeaseMs), never two requests execute at once.     *)
AtMostOneExecution ==
    MaxDuration < Lease =>
        \A r, s \in Requests : Working(r) /\ Working(s) => r = s

(* A replay returns a response that was produced by a request with the     *)
(* same body, whatever was claimed, expired, pruned or taken over between  *)
(* the lost upsert and the read.                                           *)
ReplayMatchesBody ==
    \A r \in Requests : answer[r].kind = "replayed" =>
        /\ answer[r].by \in Requests
        /\ HashOf[answer[r].by] = HashOf[r]

(* A stored response is final until it expires: no stale owner's complete, *)
(* no release and no takeover replaces or removes it earlier.              *)
AnswerIsFinal ==
    [][ (rec # NoRecord /\ rec.status = "COMPLETED" /\ rec' # rec)
          => rec.expiresAt <= clock ]_vars

(* Every request that enters the loop leaves it, even when the owner it    *)
(* waits for dies: at worst it takes the lease over.  The exception is the *)
(* model's own horizon: a lease that ends after the clock's last value.    *)
HorizonReached(r) == pc[r] = "wait" /\ until[r] > MaxTime
EventuallyAnswered ==
    \A r \in Requests : Live(r) ~> (~Live(r) \/ HorizonReached(r))

-----------------------------------------------------------------------------
(* What callers are promised: see AnswerRegister.                          *)
Published ==
    IF rec # NoRecord /\ rec.status = "COMPLETED"
    THEN [by |-> rec.response, until |-> rec.expiresAt]
    ELSE NoRecord

Register == INSTANCE AnswerRegister WITH current <- Published, None <- NoRecord

ImplementsRegister == Register!Spec
=============================================================================
