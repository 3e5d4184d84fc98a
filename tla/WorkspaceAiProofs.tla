-------------------------- MODULE WorkspaceAiProofs --------------------------
(* Proofs about the runs of one AI preview.                                *)
EXTENDS WorkspaceAi, TLAPS

BeforeAnswer == {"calling", "answered", "accepted"}
AfterBoundary == BeforeAnswer \cup {"unusable"}

(* A step by which run r closes its receipt: with its suggestion, whether  *)
(* it learns so or not, or as unknown.                                     *)
Closes(r) ==
    \/ /\ pc[r] = "accepted"
       /\ pc' \in {[pc EXCEPT ![r] = "done"], [pc EXCEPT ![r] = "unusable"]}
       /\ receipt' = CompletedRecord(receipt, "suggestion", clock + Retention)
    \/ /\ pc[r] = "unusable"
       /\ pc' = [pc EXCEPT ![r] = "done"]
       /\ receipt' = CompletedRecord(receipt, "unknown", clock + Retention)

(* Who was charged is who calls, and was charged alone.                    *)
OnePayer ==
    /\ usage = IF spend = NoOne THEN {} ELSE {spend}
    /\ called \subseteq usage
    /\ \A r \in Runs : pc[r] \in AfterBoundary => r = spend

(* What keeps the receipt of a charged preview from being claimed: the     *)
(* mark, or an answer that is kept longer than the preview is valid.       *)
Blocked ==
    /\ receipt # NoRecord
    /\ \/ receipt.status = "DISPATCHED"
       \/ receipt.status = "COMPLETED" /\ receipt.expiresAt >= Retention

SpentIsBlocked == spend # NoOne /\ Fresh => Blocked

ClocksAgree == \A r \in Runs : now[r] <= clock

IInv ==
    /\ TypeOK
    /\ DispatcherOwnsReceipt
    /\ OnePayer
    /\ ClocksAgree
    /\ SpentIsBlocked

-----------------------------------------------------------------------------
(* A stored row is a record of the table.                                  *)
LEMMA RowFields ==
    ASSUME NEW row \in Records
    PROVE  /\ row # NoRecord
           /\ row.status \in Statuses
           /\ row.owner \in Runs \cup {NoOne}
           /\ row.expiresAt \in Nat
           /\ row.leaseExpiresAt \in Nat
BY NullAssumption DEF Records, Statuses

LEMMA ClaimedRow ==
    ASSUME NEW r \in Runs, NEW t \in Nat, NEW u \in Nat
    PROVE  /\ WellFormed(ClaimedRecord(Preview, r, t, u))
           /\ ClaimedRecord(Preview, r, t, u).status = "PROCESSING"
BY NullAssumption DEF WellFormed, ClaimedRecord, Records, Statuses, Preview

LEMMA MarkedRow ==
    ASSUME receipt \in Records, WellFormed(receipt),
           receipt.status = "PROCESSING"
    PROVE  /\ WellFormed(MarkedRecord)
           /\ MarkedRecord # NoRecord
           /\ MarkedRecord.status = "DISPATCHED"
           /\ MarkedRecord.owner = receipt.owner
BY NullAssumption DEF WellFormed, MarkedRecord, Records, Statuses

LEMMA CompletedRow ==
    ASSUME NEW row \in Records, NEW answer \in Answers, NEW t \in Nat
    PROVE  /\ WellFormed(CompletedRecord(row, answer, t))
           /\ CompletedRecord(row, answer, t) # NoRecord
           /\ CompletedRecord(row, answer, t).status = "COMPLETED"
           /\ CompletedRecord(row, answer, t).response = answer
           /\ CompletedRecord(row, answer, t).expiresAt = t
BY NullAssumption DEF WellFormed, CompletedRecord, Records, Statuses, Answers

(* How the row changes: by the claim of an unclaimed row, by the mark of   *)
(* its owner, by the answer of its owner, by its deletion while it is no   *)
(* mark, or not at all.                                                    *)
LEMMA Receipts ==
    ASSUME TypeOK, [Next]_vars
    PROVE  \/ UNCHANGED receipt
           \/ \E r \in Runs : Claim(r)
           \/ \E r \in Runs : Dispatch(r)
           \/ /\ receipt \in Records
              /\ \E r \in Runs : receipt.owner = r /\ Closes(r)
           \/ \E r \in Runs : Release(r) /\ receipt' = NoRecord
           \/ Prune
<1>1. ASSUME NEW r \in Runs, CompleteSuggestion(r), receipt' # receipt
      PROVE  receipt \in Records /\ receipt.owner = r /\ Closes(r)
  BY <1>1 DEF CompleteSuggestion, Completable, Return, Goto, TypeOK, WellFormed,
              Closes
<1>2. ASSUME NEW r \in Runs, CompleteUnknown(r), receipt' # receipt
      PROVE  receipt \in Records /\ receipt.owner = r /\ Closes(r)
  BY <1>2 DEF CompleteUnknown, Completable, Return, Goto, TypeOK, WellFormed,
              Closes
<1>3. ASSUME NEW r \in Runs, Release(r), receipt' # receipt
      PROVE  receipt' = NoRecord
  BY <1>3 DEF Release, ReleasedRecord
<1> QED BY <1>1, <1>2, <1>3
        DEF Next, Work, vars, Receive, LoseClaim, Replay, Prepare, Reject,
            Refund, CallProvider, Recheck, Crash, Edit, Tick

-----------------------------------------------------------------------------
LEMMA TypeInit == Init => TypeOK
BY DEF Init, TypeOK, Places, Replies

LEMMA ReceiptType ==
    ASSUME TypeOK, [Next]_vars
    PROVE  (receipt # NoRecord => WellFormed(receipt))'
<1>1. ASSUME NEW r \in Runs, Claim(r) PROVE WellFormed(receipt)'
  <2>1. now[r] + Retention \in Nat
    BY WorkspaceAssumption DEF TypeOK
  <2> QED BY <1>1, <2>1, ClaimedRow DEF Claim
<1>2. ASSUME NEW r \in Runs, Dispatch(r) PROVE WellFormed(receipt)'
  <2>1. /\ receipt # NoRecord
        /\ receipt.status = "PROCESSING"
        /\ receipt' = MarkedRecord
    BY <1>2 DEF Dispatch, Dispatchable
  <2>2. WellFormed(receipt) /\ receipt \in Records
    BY <2>1 DEF TypeOK, WellFormed
  <2> QED BY <2>1, <2>2, MarkedRow
<1>3. clock + Retention \in Nat
  BY WorkspaceAssumption DEF TypeOK
<1>4. CASE UNCHANGED receipt
  BY <1>4 DEF TypeOK
<1>5. ASSUME NEW r \in Runs, receipt \in Records, Closes(r)
      PROVE  WellFormed(receipt)'
  BY <1>3, <1>5, CompletedRow DEF Closes, Answers
<1> QED BY <1>1, <1>2, <1>4, <1>5, Receipts DEF Prune

LEMMA TypeNext == ASSUME TypeOK, [Next]_vars PROVE TypeOK'
<1>1. (clock \in Nat)' /\ (now \in [Runs -> Nat])'
  BY DEF TypeOK, Next, Work, vars, Receive, Claim, LoseClaim, Replay, Prepare,
         Dispatch, Reject, Refund, Release, CallProvider, Recheck,
         CompleteSuggestion, CompleteUnknown, Crash, Edit, Prune, Tick
<1>2. (current \in BOOLEAN)'
  BY DEF TypeOK, Next, Work, vars, Receive, Claim, LoseClaim, Replay, Prepare,
         Dispatch, Reject, Refund, Release, CallProvider, Recheck,
         CompleteSuggestion, CompleteUnknown, Crash, Edit, Prune, Tick
<1>3. (velocity \subseteq Runs)'
  BY DEF TypeOK, Next, Work, vars, Receive, Claim, LoseClaim, Replay, Prepare,
         Dispatch, Reject, Refund, Release, CallProvider, Recheck,
         CompleteSuggestion, CompleteUnknown, Crash, Edit, Prune, Tick
<1>4. /\ (spend \in Runs \cup {NoOne})'
      /\ (usage \subseteq Runs)'
      /\ (called \subseteq Runs)'
  BY DEF TypeOK, Next, Work, vars, Receive, Claim, LoseClaim, Replay, Prepare,
         Dispatch, Reject, Refund, Release, CallProvider, Recheck,
         CompleteSuggestion, CompleteUnknown, Crash, Edit, Prune, Tick
<1>5. (pc \in [Runs -> Places])'
  <2>1. \/ \E r \in Runs, place \in Places : pc' = [pc EXCEPT ![r] = place]
        \/ pc' = pc
    BY DEF Next, Work, vars, Receive, Claim, LoseClaim, Replay, Prepare,
           Dispatch, Reject, Refund, Release, CallProvider, Recheck,
           CompleteSuggestion, CompleteUnknown, Crash, Edit, Prune, Tick,
           Goto, Return, Places
  <2> QED BY <2>1 DEF TypeOK
<1>6. (reply \in [Runs -> Replies])'
  <2>1. \/ \E r \in Runs, answer \in Replies :
               reply' = [reply EXCEPT ![r] = answer]
        \/ reply' = reply
    BY DEF Next, Work, vars, Receive, Claim, LoseClaim, Replay, Prepare,
           Dispatch, Reject, Refund, Release, CallProvider, Recheck,
           CompleteSuggestion, CompleteUnknown, Crash, Edit, Prune, Tick,
           Return, Replies
  <2> QED BY <2>1 DEF TypeOK
<1> QED BY <1>1, <1>2, <1>3, <1>4, <1>5, <1>6, ReceiptType DEF TypeOK
-----------------------------------------------------------------------------
(* Only the boundary leads a run behind it, and what follows an unusable   *)
(* answer is the end of the run.                                           *)
LEMMA Behind ==
    ASSUME TypeOK, [Next]_vars, NEW r \in Runs
    PROVE  /\ pc'[r] \in AfterBoundary => pc[r] \in AfterBoundary \/ Dispatch(r)
           /\ pc'[r] \in BeforeAnswer => pc[r] \in BeforeAnswer \/ Dispatch(r)
<1>1. \/ \E q \in Runs : Dispatch(q)
      \/ \E q \in Runs, place \in Places \ AfterBoundary :
             pc' = [pc EXCEPT ![q] = place]
      \/ \E q \in Runs, place \in Places :
             pc' = [pc EXCEPT ![q] = place] /\ pc[q] \in BeforeAnswer
      \/ pc' = pc
  BY DEF Next, Work, vars, Receive, Claim, LoseClaim, Replay, Prepare,
         Dispatch, Reject, Refund, Release, CallProvider, Recheck,
         CompleteSuggestion, CompleteUnknown, Crash, Edit, Prune, Tick,
         Goto, Return, Places, AfterBoundary, BeforeAnswer
<1>2. ASSUME NEW q \in Runs, Dispatch(q)
      PROVE  pc'[r] = pc[r] \/ q = r
  BY <1>2 DEF Dispatch, Goto, TypeOK
<1> QED BY <1>1, <1>2 DEF TypeOK, AfterBoundary

LEMMA OwnerNext ==
    ASSUME TypeOK, DispatcherOwnsReceipt, [Next]_vars
    PROVE  DispatcherOwnsReceipt'
<1> SUFFICES ASSUME NEW r \in Runs, pc'[r] \in BeforeAnswer
             PROVE  Dispatched(r)'
  BY DEF DispatcherOwnsReceipt, BeforeAnswer
<1>1. CASE Dispatch(r)
  <2>1. /\ receipt # NoRecord
        /\ receipt.status = "PROCESSING"
        /\ receipt.owner = r
        /\ receipt' = MarkedRecord
    BY <1>1 DEF Dispatch, Dispatchable
  <2>2. WellFormed(receipt) /\ receipt \in Records
    BY <2>1 DEF TypeOK, WellFormed
  <2> QED BY <2>1, <2>2, MarkedRow DEF Dispatched
<1>2. CASE pc[r] \in BeforeAnswer
  <2>1. Dispatched(r)
    BY <1>2 DEF DispatcherOwnsReceipt, BeforeAnswer
  <2>2. ASSUME NEW q \in Runs, Claim(q) PROVE FALSE
    BY <2>1, <2>2 DEF Claim, Claimable, Dispatched
  <2>3. ASSUME NEW q \in Runs, Dispatch(q) PROVE FALSE
    BY <2>1, <2>3 DEF Dispatch, Dispatchable, Dispatched
  <2>4. ASSUME NEW q \in Runs, receipt.owner = q, Closes(q)
        PROVE  FALSE
    <3>1. q = r
      BY <2>1, <2>4 DEF Dispatched
    <3> QED BY <3>1, <2>4 DEF TypeOK, BeforeAnswer, Closes
  <2>5. ASSUME NEW q \in Runs, Release(q), receipt' = NoRecord PROVE FALSE
    BY <2>1, <2>5 DEF Release, ReleasedRecord, Dispatched
  <2>6. ~Prune
    BY <2>1 DEF Prune, Prunable, Dispatched
  <2> QED BY <2>1, <2>2, <2>3, <2>4, <2>5, <2>6, Receipts DEF Dispatched
<1> QED BY <1>1, <1>2, Behind

LEMMA PayerNext ==
    ASSUME TypeOK, OnePayer, [Next]_vars
    PROVE  OnePayer'
<1>1. ASSUME NEW r \in Runs, Dispatch(r) PROVE OnePayer'
  <2>1. /\ spend = NoOne
        /\ spend' = r
        /\ usage' = usage \cup {r}
        /\ called' = called
    BY <1>1 DEF Dispatch, Dispatchable
  <2>2. usage = {} /\ called = {}
    BY <2>1 DEF OnePayer
  <2>3. r # NoOne
    BY NullAssumption
  <2>4. ASSUME NEW q \in Runs, pc'[q] \in AfterBoundary PROVE q = r
    <3>1. pc[q] \notin AfterBoundary
      BY <2>1, NullAssumption DEF OnePayer
    <3> QED BY <3>1, <2>4, <1>1 DEF Dispatch, Goto, TypeOK
  <2> QED BY <2>1, <2>2, <2>3, <2>4 DEF OnePayer
<1>2. ASSUME \A r \in Runs : ~Dispatch(r)
      PROVE  OnePayer'
  <2>1. spend' = spend /\ usage' = usage
    BY <1>2
       DEF Next, Work, vars, Receive, Claim, LoseClaim, Replay, Prepare,
           Reject, Refund, Release, CallProvider, Recheck,
           CompleteSuggestion, CompleteUnknown, Crash, Edit, Prune, Tick
  <2>2. \A r \in Runs : pc'[r] \in AfterBoundary => r = spend
    BY <1>2, Behind DEF OnePayer
  <2>3. called' \subseteq usage
    <3>1. ASSUME NEW r \in Runs, CallProvider(r) PROVE called' \subseteq usage
      <4>1. r = spend
        BY <3>1 DEF CallProvider, OnePayer, AfterBoundary, BeforeAnswer
      <4>2. r \in usage
        BY <4>1, NullAssumption DEF OnePayer
      <4> QED BY <3>1, <4>2 DEF CallProvider, OnePayer
    <3>2. called' = called \/ \E r \in Runs : CallProvider(r)
      BY <1>2
         DEF Next, Work, vars, Receive, Claim, LoseClaim, Replay, Prepare,
             Reject, Refund, Release, Recheck,
             CompleteSuggestion, CompleteUnknown, Crash, Edit, Prune, Tick
    <3> QED BY <3>1, <3>2 DEF OnePayer
  <2> QED BY <2>1, <2>2, <2>3 DEF OnePayer
<1> QED BY <1>1, <1>2

LEMMA ClocksNext ==
    ASSUME TypeOK, ClocksAgree, [Next]_vars
    PROVE  ClocksAgree' /\ clock <= clock'
<1>1. ASSUME NEW r \in Runs, Receive(r) PROVE ClocksAgree' /\ clock' = clock
  BY <1>1 DEF Receive, ClocksAgree, TypeOK
<1>2. CASE Tick
  BY <1>2 DEF Tick, ClocksAgree, TypeOK
<1>3. CASE UNCHANGED <<clock, now>>
  BY <1>3 DEF ClocksAgree, TypeOK
<1> QED
  <2>1. (\E r \in Runs : Receive(r)) \/ Tick \/ UNCHANGED <<clock, now>>
    BY DEF Next, Work, vars, Claim, LoseClaim, Replay, Prepare,
           Dispatch, Reject, Refund, Release, CallProvider, Recheck,
           CompleteSuggestion, CompleteUnknown, Crash, Edit, Prune
  <2> QED BY <2>1, <1>1, <1>2, <1>3 DEF TypeOK

LEMMA BlockedNext ==
    ASSUME TypeOK, ClocksAgree, SpentIsBlocked, [Next]_vars
    PROVE  SpentIsBlocked'
<1> SUFFICES ASSUME (spend # NoOne /\ Fresh)'
             PROVE  Blocked'
  BY DEF SpentIsBlocked
<1>1. ASSUME NEW r \in Runs, Dispatch(r) PROVE Blocked'
  <2>1. /\ receipt # NoRecord
        /\ receipt.status = "PROCESSING"
        /\ receipt' = MarkedRecord
    BY <1>1 DEF Dispatch, Dispatchable
  <2>2. WellFormed(receipt) /\ receipt \in Records
    BY <2>1 DEF TypeOK, WellFormed
  <2> QED BY <2>1, <2>2, MarkedRow DEF Blocked
<1>2. ASSUME \A r \in Runs : ~Dispatch(r) PROVE Blocked'
  <2>1. spend' = spend
    BY <1>2
       DEF Next, Work, vars, Receive, Claim, LoseClaim, Replay, Prepare,
           Reject, Refund, Release, CallProvider, Recheck,
           CompleteSuggestion, CompleteUnknown, Crash, Edit, Prune, Tick
  <2>2. clock \in Nat /\ clock <= PreviewValid
    <3>1. clock \in Nat /\ clock' \in Nat /\ clock <= clock'
      BY TypeNext, ClocksNext DEF TypeOK
    <3> QED BY <3>1, WorkspaceAssumption DEF Fresh
  <2>3. Blocked
    BY <2>1, <2>2 DEF SpentIsBlocked, Fresh
  <2>4. receipt \in Records /\ receipt # NoRecord
        /\ receipt.expiresAt \in Nat
    BY <2>3, RowFields DEF Blocked, TypeOK, WellFormed
  <2>5. ASSUME NEW r \in Runs, Claim(r) PROVE FALSE
    <3>1. now[r] \in Nat /\ now[r] <= clock
      BY DEF TypeOK, ClocksAgree
    <3>2. receipt.expiresAt <= now[r] => receipt.status = "DISPATCHED"
      BY <3>1, <2>2, <2>3, <2>4, WorkspaceAssumption DEF Blocked
    <3> QED BY <3>2, <2>3, <2>5 DEF Claim, Claimable, Blocked
  <2>6. ASSUME NEW r \in Runs, Release(r), receipt' = NoRecord PROVE FALSE
    BY <2>3, <2>6 DEF Release, ReleasedRecord, Blocked
  <2>7. ~Prune
    BY <2>2, <2>3, <2>4, WorkspaceAssumption DEF Prune, Prunable, Blocked
  <2>8. ASSUME NEW r \in Runs, Closes(r) PROVE Blocked'
    <3>1. clock + Retention \in Nat /\ clock + Retention >= Retention
      BY <2>2, WorkspaceAssumption
    <3>2. \E answer \in Answers :
             receipt' = CompletedRecord(receipt, answer, clock + Retention)
      BY <2>8 DEF Closes, Answers
    <3> QED BY <3>1, <3>2, <2>4, CompletedRow DEF Blocked
  <2>9. CASE UNCHANGED receipt
    BY <2>3, <2>9 DEF Blocked
  <2> QED BY <1>2, <2>5, <2>6, <2>7, <2>8, <2>9, Receipts
<1> QED BY <1>1, <1>2

(* A blocked receipt cannot be claimed while the preview is valid.         *)
LEMMA BlockedUnclaimable ==
    ASSUME TypeOK, SpentIsBlocked
    PROVE  SpentPreviewIsBlocked
<1> SUFFICES ASSUME spend # NoOne, Fresh
             PROVE  ~Claimable(receipt, Preview, clock)
  BY DEF SpentPreviewIsBlocked
<1>1. Blocked
  BY DEF SpentIsBlocked
<1>2. receipt.expiresAt \in Nat
  BY <1>1, RowFields DEF Blocked, TypeOK, WellFormed
<1> QED BY <1>1, <1>2, WorkspaceAssumption
        DEF Blocked, Claimable, Fresh, TypeOK

-----------------------------------------------------------------------------
LEMMA Invariance == Spec => []IInv
<1>1. Init => IInv
  BY TypeInit DEF Init, IInv, DispatcherOwnsReceipt, OnePayer, ClocksAgree,
                  SpentIsBlocked, AfterBoundary, BeforeAnswer
<1>2. IInv /\ [Next]_vars => IInv'
  BY TypeNext, OwnerNext, PayerNext, ClocksNext, BlockedNext DEF IInv
<1> QED BY <1>1, <1>2, PTL DEF Spec

(* Every reachable state of the runs of a preview is well typed.           *)
THEOREM TypeCorrect == Spec => []TypeOK
<1>1. IInv => TypeOK BY DEF IInv
<1> QED BY <1>1, Invariance, PTL

(* From the boundary until it stores its answer a run owns the receipt,    *)
(* with any number of requests, however long the provider takes: its first *)
(* complete() is never refused, though its acknowledgement may be lost.    *)
THEOREM DispatchersKeepTheReceipt == Spec => []DispatcherOwnsReceipt
<1>1. IInv => DispatcherOwnsReceipt BY DEF IInv
<1> QED BY <1>1, Invariance, PTL

(* Between the boundary and the preview's end no request can claim the     *)
(* receipt, whatever the charged run believes; it rests on a preview being *)
(* valid for less time than a receipt is kept.                             *)
THEOREM SpentPreviewsStayBlocked == Spec => []SpentPreviewIsBlocked
<1>1. IInv => SpentPreviewIsBlocked BY BlockedUnclaimable DEF IInv
<1> QED BY <1>1, Invariance, PTL

(* A preview leads to at most one provider call, made by the run that the  *)
(* ledger and the month's usage were charged for.                          *)
THEOREM PreviewsAreCalledOnce == Spec => []OneCallPerPreview
<1>1. IInv => OneCallPerPreview
  BY NullAssumption DEF IInv, OnePayer, OneCallPerPreview
<1> QED BY <1>1, Invariance, PTL

(* Only the marking run replaces a DISPATCHED receipt, by its suggestion   *)
(* or, without one it may show, as unknown.                                *)
THEOREM MarkersArePermanent == Spec => MarkerIsPermanent
<1> DEFINE Answer(r) == /\ receipt' # NoRecord
                        /\ receipt'.status = "COMPLETED"
                        /\ \/ pc[r] = "accepted" /\ receipt'.response = "suggestion"
                           \/ pc[r] = "unusable" /\ receipt'.response = "unknown"
<1>1. ASSUME IInv, [Next]_vars, NEW r \in Runs, Dispatched(r)
      PROVE  receipt' = receipt \/ Answer(r)
  <2>1. TypeOK BY <1>1 DEF IInv
  <2>2. ASSUME NEW q \in Runs, Claim(q) PROVE FALSE
    BY <1>1, <2>2 DEF Claim, Claimable, Dispatched
  <2>3. ASSUME NEW q \in Runs, Dispatch(q) PROVE FALSE
    BY <1>1, <2>3 DEF Dispatch, Dispatchable, Dispatched
  <2>4. ASSUME NEW q \in Runs, Release(q), receipt' = NoRecord PROVE FALSE
    BY <1>1, <2>4 DEF Release, ReleasedRecord, Dispatched
  <2>5. ~Prune
    BY <1>1 DEF Prune, Prunable, Dispatched
  <2>6. ASSUME NEW q \in Runs, receipt \in Records, receipt.owner = q, Closes(q)
        PROVE  Answer(r)
    <3>1. q = r
      BY <1>1, <2>6 DEF Dispatched
    <3>2. clock + Retention \in Nat
      BY <2>1, WorkspaceAssumption DEF TypeOK
    <3> QED BY <2>6, <3>1, <3>2, CompletedRow DEF Closes, Answers
  <2> HIDE DEF Answer
  <2> QED BY <1>1, <2>1, <2>2, <2>3, <2>4, <2>5, <2>6, Receipts
<1>2. IInv /\ [Next]_vars =>
          [\A r \in Runs : Dispatched(r) =>
              \/ receipt' = receipt
              \/ /\ receipt' # NoRecord
                 /\ receipt'.status = "COMPLETED"
                 /\ \/ pc[r] = "accepted" /\ receipt'.response = "suggestion"
                    \/ pc[r] = "unusable" /\ receipt'.response = "unknown"]_vars
  BY <1>1
<1> QED BY <1>2, Invariance, PTL DEF Spec, MarkerIsPermanent
=============================================================================
