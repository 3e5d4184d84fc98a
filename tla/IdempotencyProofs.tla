------------------------- MODULE IdempotencyProofs -------------------------
(***************************************************************************)
(* Theorems about Idempotency for every set of requests, every assignment  *)
(* of bodies and every timing that satisfies TimingAssumption.             *)
(***************************************************************************)
EXTENDS Idempotency, TLAPS

(* A row that is being processed carries the claim of a request that has   *)
(* left the claiming part of the loop.                                     *)
RowOfItsOwner ==
    rec # NoRecord =>
        /\ rec.status # "DISPATCHED"
        /\ rec.status = "PROCESSING" =>
              /\ rec.owner \in Requests
              /\ pc[rec.owner] \notin {"idle", "claim", "read", "wait"}
              /\ HashOf[rec.owner] = rec.hash
              /\ rec.leaseExpiresAt = now[rec.owner] + Lease
              /\ rec.expiresAt = now[rec.owner] + Retention
        /\ rec.status = "COMPLETED" =>
              /\ rec.response \in Requests
              /\ HashOf[rec.response] = rec.hash

(* `now` is a past reading of the clock.                                   *)
ReadingsArePast == \A r \in Requests : now[r] <= clock

(* A claim whose lease still runs is the one in the row.                   *)
LeaseOwnsRow ==
    \A r \in Requests : Leased(r) =>
        /\ rec # NoRecord
        /\ rec.status = "PROCESSING"
        /\ rec.owner = r

WithinDeadline ==
    \A r \in Requests : Live(r) =>
        /\ clock <= deadline[r]
        /\ deadline[r] <= now[r] + MaxDuration

OnlyTheDoneAreAnswered ==
    \A r \in Requests : pc[r] # "done" => answer[r].kind = "none"

Inv ==
    /\ TypeOK
    /\ RowOfItsOwner
    /\ ReadingsArePast
    /\ LeaseOwnsRow
    /\ WithinDeadline
    /\ ReplayMatchesBody
    /\ OnlyTheDoneAreAnswered

-----------------------------------------------------------------------------
LEMMA TypeInit == Init => TypeOK
  BY TimingAssumption DEF Init, TypeOK, Places, Answers, NoAnswer

(* The fields of a row that exists.                                        *)
LEMMA RowFields ==
  ASSUME TypeOK, rec # NoRecord
  PROVE  /\ rec \in Records
         /\ rec.status \in Statuses /\ rec.hash \in Hashes
         /\ rec.owner \in Requests \cup {NoOne}
         /\ rec.response \in Requests \cup {NoOne}
         /\ rec.expiresAt \in Nat /\ rec.leaseExpiresAt \in Nat
<1>1. rec \in Records
  BY DEF TypeOK, WellFormed
<1> QED
  BY <1>1 DEF Records

(* What complete() writes is a row.                                        *)
LEMMA CompletedIsRow ==
  ASSUME TypeOK, rec # NoRecord, NEW r \in Requests, NEW t \in Nat
  PROVE  /\ CompletedRecord(rec, r, t) \in Records
         /\ WellFormed(CompletedRecord(rec, r, t))
<1>1. rec \in Records
  BY RowFields
<1>2. CompletedRecord(rec, r, t) \in Records
  BY <1>1 DEF Records, CompletedRecord, Statuses
<1> QED
  BY <1>1, <1>2, NullAssumption DEF Records, CompletedRecord, WellFormed

LEMMA TypeStep == TypeOK /\ [Next]_vars => TypeOK'
<1> SUFFICES ASSUME TypeOK, [Next]_vars PROVE TypeOK'
  OBVIOUS
<1> USE HashAssumption, TimingAssumption, NullAssumption
<1>u. CASE UNCHANGED vars
  BY <1>u DEF TypeOK, vars
<1>1. ASSUME NEW r \in Requests, Receive(r) PROVE TypeOK'
  BY <1>1 DEF Receive, Goto, TypeOK, Places, Answers
<1>2. ASSUME NEW r \in Requests, Acquire(r) PROVE TypeOK'
  BY <1>2 DEF Acquire, Goto, TypeOK, Places, ClaimedRecord, WellFormed,
     Records, Statuses
<1>3. ASSUME NEW r \in Requests, LoseClaim(r) PROVE TypeOK'
  BY <1>3 DEF LoseClaim, Goto, TypeOK, Places, Answers
<1>4. ASSUME NEW r \in Requests, ReadAfterLostClaim(r) PROVE TypeOK'
  <2>1. pc' \in [Requests -> Places]
    BY <1>4 DEF ReadAfterLostClaim, Conflicting, Answered, InProgress, Goto, Return, TypeOK, Places
  <2>2. until' \in [Requests -> Nat]
    BY <1>4, RowFields DEF ReadAfterLostClaim, Conflicting, Answered, InProgress, TypeOK
  <2>3. answer' \in [Requests -> Answers]
    BY <1>4, RowFields DEF ReadAfterLostClaim, Conflicting, Answered, InProgress, Return, TypeOK, Answers
  <2>4. UNCHANGED <<clock, rec, now, doneAt, deadline>>
    BY <1>4 DEF ReadAfterLostClaim
  <2> QED
    BY <2>1, <2>2, <2>3, <2>4 DEF TypeOK, WellFormed
<1>5. ASSUME NEW r \in Requests, Poll(r) PROVE TypeOK'
  <2>1. pc' \in [Requests -> Places]
    BY <1>5 DEF Poll, Conflicting, Answered, InProgress, Goto, Return, Retry, TypeOK, Places
  <2>2. now' \in [Requests -> Nat]
    BY <1>5 DEF Poll, Conflicting, Answered, InProgress, Retry, TypeOK
  <2>3. answer' \in [Requests -> Answers]
    BY <1>5, RowFields DEF Poll, Conflicting, Answered, InProgress, Return, Retry, TypeOK, Answers
  <2> QED
    BY <1>5, <2>1, <2>2, <2>3 DEF Poll, Conflicting, Answered, InProgress, TypeOK
<1>6. ASSUME NEW r \in Requests, ExecuteReturns(r) PROVE TypeOK'
  BY <1>6 DEF ExecuteReturns, Goto, TypeOK, Places, Answers
<1>7. ASSUME NEW r \in Requests, ExecuteThrows(r) PROVE TypeOK'
  BY <1>7 DEF ExecuteThrows, Goto, TypeOK, Places, Answers
<1>8. ASSUME NEW r \in Requests, Complete(r) PROVE TypeOK'
  <2>1. PICK k \in ResponseRetentions :
          rec' = CompletedRecord(rec, r, doneAt[r] + k)
    BY <1>8 DEF Complete
  <2>2. WellFormed(rec')
    BY <1>8, <2>1, CompletedIsRow DEF Complete, Completable, TypeOK
  <2>3. pc' \in [Requests -> Places] /\ answer' \in [Requests -> Answers]
    BY <1>8 DEF Complete, Goto, Return, TypeOK, Places, Answers
  <2> QED
    BY <1>8, <2>2, <2>3 DEF Complete, TypeOK
<1>9. ASSUME NEW r \in Requests, CompleteFails(r) PROVE TypeOK'
  BY <1>9 DEF CompleteFails, Goto, TypeOK, Places, Answers
<1>10. ASSUME NEW r \in Requests, Release(r) PROVE TypeOK'
  BY <1>10 DEF Release, Goto, Return, TypeOK, Places, Answers, ReleasedRecord
<1>11. ASSUME NEW r \in Requests, Die(r) PROVE TypeOK'
  BY <1>11 DEF Die, Goto, TypeOK, Places, Answers
<1>12. CASE Prune
  BY <1>12 DEF Prune, TypeOK
<1>13. CASE Tick
  BY <1>13 DEF Tick, TypeOK
<1> QED
  BY <1>u, <1>1, <1>2, <1>3, <1>4, <1>5, <1>6, <1>7, <1>8, <1>9, <1>10, <1>11, <1>12, <1>13 DEF Next, Step

(* Every reachable state is well typed.                                    *)
THEOREM TypeCorrect == Spec => []TypeOK
  BY TypeInit, TypeStep, PTL DEF Spec

-----------------------------------------------------------------------------
LEMMA InvInit == Init => Inv
  BY TypeInit, NullAssumption DEF Init, Inv, RowOfItsOwner, ReadingsArePast, LeaseOwnsRow,
     Leased, Working, WithinDeadline, Live, ReplayMatchesBody,
     OnlyTheDoneAreAnswered, NoAnswer

LEMMA InvStep == Inv /\ [Next]_vars => Inv'
<1> SUFFICES ASSUME Inv, [Next]_vars PROVE Inv'
  OBVIOUS
<1> USE HashAssumption, TimingAssumption, NullAssumption
<1>t. TypeOK /\ TypeOK'
  BY TypeStep DEF Inv
<1>u. CASE UNCHANGED vars
  BY <1>u, <1>t DEF Inv, vars, TypeOK, RowOfItsOwner, ReadingsArePast, LeaseOwnsRow,
     Leased, Working, WithinDeadline, Live, ReplayMatchesBody,
     OnlyTheDoneAreAnswered
<1>1. ASSUME NEW r \in Requests, Receive(r) PROVE Inv'
  <2>1. RowOfItsOwner'
    BY <1>1, <1>t DEF Inv, Receive, Goto, RowOfItsOwner, TypeOK, Records
  <2>2. ReadingsArePast'
    BY <1>1, <1>t DEF Inv, Receive, Goto, ReadingsArePast, TypeOK
  <2>3. LeaseOwnsRow'
    BY <1>1, <1>t DEF Inv, Receive, Goto, LeaseOwnsRow, Leased, Working, TypeOK
  <2>4. WithinDeadline'
    BY <1>1, <1>t DEF Inv, Receive, Goto, WithinDeadline, Live, ReadingsArePast, TypeOK
  <2>5. ReplayMatchesBody'
    BY <1>1, <1>t DEF Inv, Receive, Goto, ReplayMatchesBody, RowOfItsOwner, TypeOK, Answers, NoAnswer, OnlyTheDoneAreAnswered
  <2>6. OnlyTheDoneAreAnswered'
    BY <1>1, <1>t DEF Inv, Receive, Goto, OnlyTheDoneAreAnswered, TypeOK, Answers
  <2> QED
    BY <1>t, <2>1, <2>2, <2>3, <2>4, <2>5, <2>6 DEF Inv
<1>2. ASSUME NEW r \in Requests, Acquire(r) PROVE Inv'
  <2>1. RowOfItsOwner'
    BY <1>2, <1>t DEF Inv, Acquire, Goto, ClaimedRecord, RowOfItsOwner, TypeOK, Records
  <2>2. ReadingsArePast'
    BY <1>2, <1>t DEF Inv, Acquire, Goto, ClaimedRecord, ReadingsArePast, TypeOK
  <2>3. LeaseOwnsRow'
    <3>r. rec' \in Records
      BY <1>2, <1>t DEF Acquire, ClaimedRecord, Records, Statuses, TypeOK
    <3> SUFFICES ASSUME NEW q \in Requests, Leased(q)' PROVE q = r
      BY <1>2, <3>r DEF Acquire, ClaimedRecord, LeaseOwnsRow
    <3> SUFFICES ASSUME q # r PROVE FALSE
      OBVIOUS
    <3>1. Leased(q)
      BY <1>2, <1>t DEF Acquire, Goto, Leased, Working, TypeOK
    <3>2. /\ rec # NoRecord /\ rec.status = "PROCESSING" /\ rec.owner = q
          /\ clock < rec.leaseExpiresAt /\ clock < rec.expiresAt
      BY <3>1, <1>t DEF Inv, LeaseOwnsRow, RowOfItsOwner, Leased, TypeOK
    <3>3. rec.leaseExpiresAt <= now[r] \/ rec.expiresAt <= now[r]
      BY <1>2, <3>2 DEF Acquire, Claimable
    <3> QED
      BY <3>2, <3>3, <1>t, RowFields DEF Inv, ReadingsArePast, TypeOK
  <2>4. WithinDeadline'
    BY <1>2, <1>t DEF Inv, Acquire, Goto, ClaimedRecord, WithinDeadline, Live, ReadingsArePast, TypeOK
  <2>5. ReplayMatchesBody'
    BY <1>2, <1>t DEF Inv, Acquire, Goto, ClaimedRecord, ReplayMatchesBody, RowOfItsOwner, TypeOK, Answers, NoAnswer, OnlyTheDoneAreAnswered
  <2>6. OnlyTheDoneAreAnswered'
    BY <1>2, <1>t DEF Inv, Acquire, Goto, ClaimedRecord, OnlyTheDoneAreAnswered, TypeOK, Answers
  <2> QED
    BY <1>t, <2>1, <2>2, <2>3, <2>4, <2>5, <2>6 DEF Inv
<1>3. ASSUME NEW r \in Requests, LoseClaim(r) PROVE Inv'
  <2>1. RowOfItsOwner'
    BY <1>3, <1>t DEF Inv, LoseClaim, Goto, RowOfItsOwner, TypeOK, Records
  <2>2. ReadingsArePast'
    BY <1>3, <1>t DEF Inv, LoseClaim, Goto, ReadingsArePast, TypeOK
  <2>3. LeaseOwnsRow'
    BY <1>3, <1>t DEF Inv, LoseClaim, Goto, LeaseOwnsRow, Leased, Working, TypeOK
  <2>4. WithinDeadline'
    BY <1>3, <1>t DEF Inv, LoseClaim, Goto, WithinDeadline, Live, ReadingsArePast, TypeOK
  <2>5. ReplayMatchesBody'
    BY <1>3, <1>t DEF Inv, LoseClaim, Goto, ReplayMatchesBody, RowOfItsOwner, TypeOK, Answers, NoAnswer, OnlyTheDoneAreAnswered
  <2>6. OnlyTheDoneAreAnswered'
    BY <1>3, <1>t DEF Inv, LoseClaim, Goto, OnlyTheDoneAreAnswered, TypeOK, Answers
  <2> QED
    BY <1>t, <2>1, <2>2, <2>3, <2>4, <2>5, <2>6 DEF Inv
<1>4. ASSUME NEW r \in Requests, ReadAfterLostClaim(r) PROVE Inv'
  <2>1. RowOfItsOwner'
    BY <1>4, <1>t DEF Inv, ReadAfterLostClaim, Conflicting, Answered, InProgress, Goto, Return, RowOfItsOwner, TypeOK, Records
  <2>2. ReadingsArePast'
    BY <1>4, <1>t DEF Inv, ReadAfterLostClaim, Conflicting, Answered, InProgress, Goto, Return, ReadingsArePast, TypeOK
  <2>3. LeaseOwnsRow'
    BY <1>4, <1>t DEF Inv, ReadAfterLostClaim, Conflicting, Answered, InProgress, Goto, Return, LeaseOwnsRow, Leased, Working, TypeOK
  <2>4. WithinDeadline'
    BY <1>4, <1>t DEF Inv, ReadAfterLostClaim, Conflicting, Answered, InProgress, Goto, Return, WithinDeadline, Live, ReadingsArePast, TypeOK
  <2>5. ReplayMatchesBody'
    BY <1>4, <1>t DEF Inv, ReadAfterLostClaim, Conflicting, Answered, InProgress, Goto, Return, ReplayMatchesBody, RowOfItsOwner, TypeOK, Answers, NoAnswer, OnlyTheDoneAreAnswered
  <2>6. OnlyTheDoneAreAnswered'
    BY <1>4, <1>t DEF Inv, ReadAfterLostClaim, Conflicting, Answered, InProgress, Goto, Return, OnlyTheDoneAreAnswered, TypeOK, Answers
  <2> QED
    BY <1>t, <2>1, <2>2, <2>3, <2>4, <2>5, <2>6 DEF Inv
<1>5. ASSUME NEW r \in Requests, Poll(r) PROVE Inv'
  <2>1. RowOfItsOwner'
    BY <1>5, <1>t DEF Inv, Poll, Conflicting, Answered, InProgress, Goto, Return, Retry, RowOfItsOwner, TypeOK, Records
  <2>2. ReadingsArePast'
    BY <1>5, <1>t DEF Inv, Poll, Conflicting, Answered, InProgress, Goto, Return, Retry, ReadingsArePast, TypeOK
  <2>3. LeaseOwnsRow'
    BY <1>5, <1>t DEF Inv, Poll, Conflicting, Answered, InProgress, Goto, Return, Retry, LeaseOwnsRow, Leased, Working, TypeOK
  <2>4. WithinDeadline'
    BY <1>5, <1>t DEF Inv, Poll, Conflicting, Answered, InProgress, Goto, Return, Retry, WithinDeadline, Live, ReadingsArePast, TypeOK
  <2>5. ReplayMatchesBody'
    BY <1>5, <1>t DEF Inv, Poll, Conflicting, Answered, InProgress, Goto, Return, Retry, ReplayMatchesBody, RowOfItsOwner, TypeOK, Answers, NoAnswer, OnlyTheDoneAreAnswered
  <2>6. OnlyTheDoneAreAnswered'
    BY <1>5, <1>t DEF Inv, Poll, Conflicting, Answered, InProgress, Goto, Return, Retry, OnlyTheDoneAreAnswered, TypeOK, Answers
  <2> QED
    BY <1>t, <2>1, <2>2, <2>3, <2>4, <2>5, <2>6 DEF Inv
<1>6. ASSUME NEW r \in Requests, ExecuteReturns(r) PROVE Inv'
  <2>1. RowOfItsOwner'
    BY <1>6, <1>t DEF Inv, ExecuteReturns, Goto, RowOfItsOwner, TypeOK, Records
  <2>2. ReadingsArePast'
    BY <1>6, <1>t DEF Inv, ExecuteReturns, Goto, ReadingsArePast, TypeOK
  <2>3. LeaseOwnsRow'
    BY <1>6, <1>t DEF Inv, ExecuteReturns, Goto, LeaseOwnsRow, Leased, Working, TypeOK
  <2>4. WithinDeadline'
    BY <1>6, <1>t DEF Inv, ExecuteReturns, Goto, WithinDeadline, Live, ReadingsArePast, TypeOK
  <2>5. ReplayMatchesBody'
    BY <1>6, <1>t DEF Inv, ExecuteReturns, Goto, ReplayMatchesBody, RowOfItsOwner, TypeOK, Answers, NoAnswer, OnlyTheDoneAreAnswered
  <2>6. OnlyTheDoneAreAnswered'
    BY <1>6, <1>t DEF Inv, ExecuteReturns, Goto, OnlyTheDoneAreAnswered, TypeOK, Answers
  <2> QED
    BY <1>t, <2>1, <2>2, <2>3, <2>4, <2>5, <2>6 DEF Inv
<1>7. ASSUME NEW r \in Requests, ExecuteThrows(r) PROVE Inv'
  <2>1. RowOfItsOwner'
    BY <1>7, <1>t DEF Inv, ExecuteThrows, Goto, RowOfItsOwner, TypeOK, Records
  <2>2. ReadingsArePast'
    BY <1>7, <1>t DEF Inv, ExecuteThrows, Goto, ReadingsArePast, TypeOK
  <2>3. LeaseOwnsRow'
    BY <1>7, <1>t DEF Inv, ExecuteThrows, Goto, LeaseOwnsRow, Leased, Working, TypeOK
  <2>4. WithinDeadline'
    BY <1>7, <1>t DEF Inv, ExecuteThrows, Goto, WithinDeadline, Live, ReadingsArePast, TypeOK
  <2>5. ReplayMatchesBody'
    BY <1>7, <1>t DEF Inv, ExecuteThrows, Goto, ReplayMatchesBody, RowOfItsOwner, TypeOK, Answers, NoAnswer, OnlyTheDoneAreAnswered
  <2>6. OnlyTheDoneAreAnswered'
    BY <1>7, <1>t DEF Inv, ExecuteThrows, Goto, OnlyTheDoneAreAnswered, TypeOK, Answers
  <2> QED
    BY <1>t, <2>1, <2>2, <2>3, <2>4, <2>5, <2>6 DEF Inv
<1>8. ASSUME NEW r \in Requests, Complete(r) PROVE Inv'
  <2>1. RowOfItsOwner'
    BY <1>8, <1>t DEF Inv, Complete, Goto, Return, Completable, CompletedRecord, RowOfItsOwner, TypeOK, Records
  <2>2. ReadingsArePast'
    BY <1>8, <1>t DEF Inv, Complete, Goto, Return, Completable, CompletedRecord, ReadingsArePast, TypeOK
  <2>3. LeaseOwnsRow'
    BY <1>8, <1>t DEF Inv, Complete, Goto, Return, Completable, CompletedRecord, LeaseOwnsRow, Leased, Working, TypeOK
  <2>4. WithinDeadline'
    BY <1>8, <1>t DEF Inv, Complete, Goto, Return, Completable, CompletedRecord, WithinDeadline, Live, ReadingsArePast, TypeOK
  <2>5. ReplayMatchesBody'
    <3> SUFFICES ASSUME NEW q \in Requests, answer'[q].kind = "replayed"
                 PROVE  answer'[q] = answer[q]
      BY <1>t DEF Inv, ReplayMatchesBody
    <3> QED
      BY <1>8, <1>t DEF Complete, Goto, Return, TypeOK, Answers
  <2>6. OnlyTheDoneAreAnswered'
    BY <1>8, <1>t DEF Inv, Complete, Goto, Return, Completable, CompletedRecord, OnlyTheDoneAreAnswered, TypeOK, Answers
  <2> QED
    BY <1>t, <2>1, <2>2, <2>3, <2>4, <2>5, <2>6 DEF Inv
<1>9. ASSUME NEW r \in Requests, CompleteFails(r) PROVE Inv'
  <2>1. RowOfItsOwner'
    BY <1>9, <1>t DEF Inv, CompleteFails, Goto, RowOfItsOwner, TypeOK, Records
  <2>2. ReadingsArePast'
    BY <1>9, <1>t DEF Inv, CompleteFails, Goto, ReadingsArePast, TypeOK
  <2>3. LeaseOwnsRow'
    BY <1>9, <1>t DEF Inv, CompleteFails, Goto, LeaseOwnsRow, Leased, Working, TypeOK
  <2>4. WithinDeadline'
    BY <1>9, <1>t DEF Inv, CompleteFails, Goto, WithinDeadline, Live, ReadingsArePast, TypeOK
  <2>5. ReplayMatchesBody'
    BY <1>9, <1>t DEF Inv, CompleteFails, Goto, ReplayMatchesBody, RowOfItsOwner, TypeOK, Answers, NoAnswer, OnlyTheDoneAreAnswered
  <2>6. OnlyTheDoneAreAnswered'
    BY <1>9, <1>t DEF Inv, CompleteFails, Goto, OnlyTheDoneAreAnswered, TypeOK, Answers
  <2> QED
    BY <1>t, <2>1, <2>2, <2>3, <2>4, <2>5, <2>6 DEF Inv
<1>10. ASSUME NEW r \in Requests, Release(r) PROVE Inv'
  <2>1. RowOfItsOwner'
    BY <1>10, <1>t DEF Inv, Release, Goto, Return, ReleasedRecord, RowOfItsOwner, TypeOK, Records
  <2>2. ReadingsArePast'
    BY <1>10, <1>t DEF Inv, Release, Goto, Return, ReleasedRecord, ReadingsArePast, TypeOK
  <2>3. LeaseOwnsRow'
    BY <1>10, <1>t DEF Inv, Release, Goto, Return, ReleasedRecord, LeaseOwnsRow, Leased, Working, TypeOK
  <2>4. WithinDeadline'
    BY <1>10, <1>t DEF Inv, Release, Goto, Return, ReleasedRecord, WithinDeadline, Live, ReadingsArePast, TypeOK
  <2>5. ReplayMatchesBody'
    BY <1>10, <1>t DEF Inv, Release, Goto, Return, ReleasedRecord, ReplayMatchesBody, RowOfItsOwner, TypeOK, Answers, NoAnswer, OnlyTheDoneAreAnswered
  <2>6. OnlyTheDoneAreAnswered'
    BY <1>10, <1>t DEF Inv, Release, Goto, Return, ReleasedRecord, OnlyTheDoneAreAnswered, TypeOK, Answers
  <2> QED
    BY <1>t, <2>1, <2>2, <2>3, <2>4, <2>5, <2>6 DEF Inv
<1>11. ASSUME NEW r \in Requests, Die(r) PROVE Inv'
  <2>1. RowOfItsOwner'
    BY <1>11, <1>t DEF Inv, Die, Goto, RowOfItsOwner, TypeOK, Records
  <2>2. ReadingsArePast'
    BY <1>11, <1>t DEF Inv, Die, Goto, ReadingsArePast, TypeOK
  <2>3. LeaseOwnsRow'
    BY <1>11, <1>t DEF Inv, Die, Goto, LeaseOwnsRow, Leased, Working, TypeOK
  <2>4. WithinDeadline'
    BY <1>11, <1>t DEF Inv, Die, Goto, WithinDeadline, Live, ReadingsArePast, TypeOK
  <2>5. ReplayMatchesBody'
    BY <1>11, <1>t DEF Inv, Die, Goto, ReplayMatchesBody, RowOfItsOwner, TypeOK, Answers, NoAnswer, OnlyTheDoneAreAnswered
  <2>6. OnlyTheDoneAreAnswered'
    BY <1>11, <1>t DEF Inv, Die, Live, Goto, OnlyTheDoneAreAnswered, TypeOK, Answers
  <2> QED
    BY <1>t, <2>1, <2>2, <2>3, <2>4, <2>5, <2>6 DEF Inv
<1>12. CASE Prune
  BY <1>12, <1>t DEF Inv, Prune, Prunable, TypeOK, RowOfItsOwner, ReadingsArePast, LeaseOwnsRow,
     Leased, Working, WithinDeadline, Live, ReplayMatchesBody,
     OnlyTheDoneAreAnswered
<1>13. CASE Tick
  BY <1>13, <1>t DEF Inv, Tick, TypeOK, RowOfItsOwner, ReadingsArePast, LeaseOwnsRow,
     Leased, Working, WithinDeadline, Live, ReplayMatchesBody,
     OnlyTheDoneAreAnswered
<1> QED
  BY <1>u, <1>1, <1>2, <1>3, <1>4, <1>5, <1>6, <1>7, <1>8, <1>9, <1>10, <1>11, <1>12, <1>13 DEF Next, Step

LEMMA Invariance == Spec => []Inv
  BY InvInit, InvStep, PTL DEF Spec

-----------------------------------------------------------------------------
(* Two unexpired claims never execute at the same time.                    *)
THEOREM LeasesExclude == Spec => []ExclusiveWhileLeased
<1>1. Inv => ExclusiveWhileLeased
  BY DEF Inv, LeaseOwnsRow, ExclusiveWhileLeased
<1> QED
  BY Invariance, <1>1, PTL

(* When the platform ends functions before a lease runs out, two requests  *)
(* never run the pipeline at the same time.                                *)
THEOREM OneExecution == Spec => []AtMostOneExecution
<1>1. Inv => AtMostOneExecution
  <2> SUFFICES ASSUME Inv, MaxDuration < Lease,
                      NEW r \in Requests, NEW s \in Requests,
                      Working(r), Working(s)
               PROVE  r = s
    BY DEF AtMostOneExecution
  <2>1. ASSUME NEW q \in Requests, Working(q) PROVE Leased(q)
    <3>1. Live(q)
      BY <2>1 DEF Working, Live
    <3>2. clock <= now[q] + MaxDuration
      BY <3>1, TimingAssumption DEF Inv, TypeOK, WithinDeadline
    <3> QED
      BY <2>1, <3>2, TimingAssumption DEF Leased, Inv, TypeOK
  <2> QED
    BY <2>1 DEF Inv, LeaseOwnsRow
<1> QED
  BY Invariance, <1>1, PTL

(* A replayed response was computed for the same request body.             *)
THEOREM ReplaysMatch == Spec => []ReplayMatchesBody
<1>1. Inv => ReplayMatchesBody
  BY DEF Inv
<1> QED
  BY Invariance, <1>1, PTL

(* A stored response stays as it is until it has expired.                  *)
THEOREM AnswersAreFinal == Spec => AnswerIsFinal
<1>1. Inv /\ [Next]_vars =>
        [(rec # NoRecord /\ rec.status = "COMPLETED" /\ rec' # rec)
            => rec.expiresAt <= clock]_vars
  <2> SUFFICES ASSUME Inv, Next, rec # NoRecord, rec.status = "COMPLETED",
                      rec' # rec
               PROVE  rec.expiresAt <= clock
    OBVIOUS
  <2>1. ASSUME NEW r \in Requests, Acquire(r) PROVE rec.expiresAt <= clock
    <3>1. rec.expiresAt <= now[r]
      BY <2>1 DEF Acquire, Claimable
    <3> QED
      BY <3>1, RowFields DEF Inv, ReadingsArePast, TypeOK
  <2>2. CASE Prune
    BY <2>2 DEF Prune, Prunable
  <2>3. ASSUME NEW r \in Requests, Complete(r) \/ Release(r) PROVE FALSE
    BY <2>3 DEF Complete, Completable, Release, ReleasedRecord
  <2> QED
    BY <2>1, <2>2, <2>3 DEF Next, Step, Receive, LoseClaim,
       ReadAfterLostClaim, Poll, ExecuteReturns, ExecuteThrows,
       CompleteFails, Die, Tick
<1> QED
  BY Invariance, <1>1, PTL DEF Spec, AnswerIsFinal

-----------------------------------------------------------------------------
(* executeIdempotently implements the register of AnswerRegister: every    *)
(* step publishes, replays, refuses, expires, lets time pass, or is        *)
(* invisible to callers.                                                   *)
THEOREM Refinement == Spec => ImplementsRegister
<1>1. Init => Register!Init
  BY DEF Init, Register!Init, Published, NoAnswer
<1>2. Inv /\ [Next]_vars => [Register!Next]_Register!vars
  <2> SUFFICES ASSUME Inv, [Next]_vars
               PROVE  [Register!Next]_Register!vars
    OBVIOUS
  <2> USE NullAssumption DEF Register!vars
  <2>t. TypeOK
    BY DEF Inv
  <2>u. CASE UNCHANGED vars
    BY <2>u DEF vars, Published
  <2>1. ASSUME NEW r \in Requests, Acquire(r)
        PROVE  [Register!Next]_Register!vars
    <3>1. Published' = NoRecord /\ UNCHANGED <<clock, answer>>
      BY <2>1 DEF Acquire, ClaimedRecord, Published
    <3>2. Published # NoRecord =>
            rec # NoRecord /\ Published.until = rec.expiresAt
              /\ rec.expiresAt <= clock
      <4> SUFFICES ASSUME Published # NoRecord
                   PROVE  rec # NoRecord /\ Published.until = rec.expiresAt
                            /\ rec.expiresAt <= clock
        OBVIOUS
      <4>1. /\ rec # NoRecord /\ rec.status = "COMPLETED"
            /\ Published.until = rec.expiresAt
        BY DEF Published
      <4>2. rec.expiresAt <= now[r]
        BY <2>1, <4>1 DEF Acquire, Claimable
      <4> QED
        BY <4>1, <4>2, <2>t, RowFields DEF Inv, ReadingsArePast, TypeOK
    <3> QED
      BY <3>1, <3>2 DEF Register!Next, Register!Expire
  <2>2. ASSUME NEW r \in Requests, ReadAfterLostClaim(r) \/ Poll(r)
        PROVE  [Register!Next]_Register!vars
    <3>1. UNCHANGED <<clock, rec>> /\ Published' = Published
      BY <2>2 DEF ReadAfterLostClaim, Conflicting, Answered, InProgress, Poll, Published
    <3>2. answer[r].kind = "none"
      BY <2>2 DEF ReadAfterLostClaim, Conflicting, Answered, InProgress, Poll, Inv, OnlyTheDoneAreAnswered
    <3>3. CASE UNCHANGED answer
      BY <3>1, <3>3
    <3>4. CASE Return(r, "conflict", NoOne)
      BY <3>1, <3>2, <3>4 DEF Return, Register!Next, Register!Refuse,
         Register!Give, Register!Unanswered
    <3>5. CASE /\ rec # NoRecord /\ rec.status = "COMPLETED"
               /\ rec.hash = HashOf[r]
               /\ Return(r, "replayed", rec.response)
      <4>1. Published.by = rec.response /\ HashOf[rec.response] = HashOf[r]
        BY <3>5 DEF Published, Inv, RowOfItsOwner
      <4>2. Published # NoRecord
        BY <3>5, <2>t, RowFields DEF Published, Inv, RowOfItsOwner
      <4> QED
        BY <3>1, <3>2, <3>5, <4>1, <4>2 DEF Return, Register!Next,
           Register!Replay, Register!Give, Register!Unanswered
    <3> QED
      BY <2>2, <3>3, <3>4, <3>5 DEF ReadAfterLostClaim, Conflicting, Answered, InProgress, Poll, Retry
  <2>3. ASSUME NEW r \in Requests, Complete(r)
        PROVE  [Register!Next]_Register!vars
    <3>1. PICK k \in ResponseRetentions :
            rec' = CompletedRecord(rec, r, doneAt[r] + k)
      BY <2>3 DEF Complete
    <3>2. Published = NoRecord
      BY <2>3 DEF Complete, Completable, Published
    <3>3. rec \in Records /\ rec' \in Records
      BY <2>3, <3>1, <2>t, CompletedIsRow, RowFields, TimingAssumption
         DEF Complete, Completable, TypeOK
    <3>4. Published' = [by |-> r, until |-> doneAt[r] + k]
      BY <3>1, <3>3 DEF CompletedRecord, Published, Records
    <3>5. Published' \in [by: {r}, until: Nat]
      BY <3>4, <2>t, TimingAssumption DEF TypeOK
    <3>6. answer[r].kind = "none" /\ UNCHANGED clock
      BY <2>3 DEF Complete, Inv, OnlyTheDoneAreAnswered
    <3>7. Return(r, "executed", r) \/ UNCHANGED answer
      BY <2>3 DEF Complete
    <3> QED
      BY <3>2, <3>5, <3>6, <3>7 DEF Return, Register!Next, Register!Publish,
         Register!Give, Register!Unanswered
  <2>4. ASSUME NEW r \in Requests, Release(r)
        PROVE  [Register!Next]_Register!vars
    <3>1. Published' = Published /\ UNCHANGED clock
      BY <2>4 DEF Release, ReleasedRecord, Published
    <3>2. answer[r].kind = "none" /\ Return(r, "error", NoOne)
      BY <2>4 DEF Release, Inv, OnlyTheDoneAreAnswered
    <3> QED
      BY <3>1, <3>2 DEF Return, Register!Next, Register!Refuse,
         Register!Give, Register!Unanswered
  <2>5. CASE Prune
    <3>1. Published' = NoRecord /\ UNCHANGED <<clock, answer>>
      BY <2>5 DEF Prune, Published
    <3>2. Published # NoRecord => Published.until <= clock
      BY <2>5 DEF Prune, Prunable, Published
    <3> QED
      BY <3>1, <3>2 DEF Register!Next, Register!Expire
  <2>6. CASE Tick
    BY <2>6 DEF Tick, Published, Register!Next, Register!Tick
  <2>7. ASSUME NEW r \in Requests,
               Receive(r) \/ LoseClaim(r) \/ ExecuteReturns(r)
                 \/ ExecuteThrows(r) \/ CompleteFails(r) \/ Die(r)
        PROVE  UNCHANGED Register!vars
    BY <2>7 DEF Receive, LoseClaim, ExecuteReturns, ExecuteThrows,
       CompleteFails, Die, Published
  <2> QED
    BY <2>u, <2>1, <2>2, <2>3, <2>4, <2>5, <2>6, <2>7 DEF Next, Step
<1> QED
  BY Invariance, <1>1, <1>2, PTL DEF Spec, ImplementsRegister, Register!Spec

=============================================================================
