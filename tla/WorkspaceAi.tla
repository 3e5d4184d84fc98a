------------------------------ MODULE WorkspaceAi ------------------------------
(***************************************************************************)
(* runWorkspaceAi (src/lib/translation-ai-workflow.ts): paid AI suggestions*)
(* in the translation workspace.  All requests to run one preview meet at  *)
(* one idempotency receipt.  The receipt's claim, the hourly words, the    *)
(* boundary transaction (monthly usage, spend reservation and the          *)
(* DISPATCHED mark at once), the provider call and the stored answer are   *)
(* separate steps; the process can die between any two of them, and the    *)
(* answers of the boundary's COMMIT and of complete() can be lost.         *)
(***************************************************************************)
EXTENDS Naturals

CONSTANTS
    Runs,           \* requests to run the preview, named by ownerToken
    PreviewValid,   \* PREVIEW_VALID_MS: the preview was made at time 0
    Retention,      \* RECEIPT_RETENTION_MS, of the claim's lease too
    MaxTime,        \* bound: the clock stops there
    NoRecord, NoOne

ASSUME WorkspaceAssumption ==
    /\ PreviewValid \in Nat
    /\ Retention \in Nat
    /\ PreviewValid < Retention
    /\ MaxTime \in Nat

VARIABLES
    clock,
    receipt,    \* the row of ApiIdempotencyRecord
    current,    \* the segment, settings, glossary, budget and permissions
                \* are still those of the preview's fingerprint
    velocity,   \* runs whose hourly words are reserved
    spend,      \* the run that holds the spend reservation of the preview
    usage,      \* runs whose words were added to the month
    called,     \* runs that called the provider
    pc,
    now,        \* the clock a run read before its claim
    reply       \* what the caller got

vars == <<clock, receipt, current, velocity, spend, usage, called, pc, now,
          reply>>

Preview == "preview"    \* hash of the one request body of the preview
Answers == {"suggestion", "unknown"}

ASSUME NullAssumption ==
    /\ NoOne \notin Runs \cup Answers
    /\ NoRecord \notin [status: {"PROCESSING", "DISPATCHED", "COMPLETED"},
                        hash: {Preview}, owner: Runs \cup {NoOne},
                        response: Answers \cup {NoOne},
                        expiresAt: Nat, leaseExpiresAt: Nat]

INSTANCE IdempotencyRecord
    WITH Hashes <- {Preview}, Owners <- Runs, Responses <- Answers

Places == {"idle", "claim", "replay", "claimed", "reserved", "calling",
           "answered", "accepted", "failed", "refunded", "unusable", "done"}
InFlight == Places \ {"idle", "done"}
Replies == {"none", "suggestion", "error"}

Init ==
    /\ clock = 0
    /\ receipt = NoRecord
    /\ current = TRUE
    /\ velocity = {}
    /\ spend = NoOne
    /\ usage = {}
    /\ called = {}
    /\ pc = [r \in Runs |-> "idle"]
    /\ now = [r \in Runs |-> 0]
    /\ reply = [r \in Runs |-> "none"]

Goto(r, place) == pc' = [pc EXCEPT ![r] = place]

Return(r, answer) ==
    /\ Goto(r, "done")
    /\ reply' = [reply EXCEPT ![r] = answer]

Fresh == clock <= PreviewValid

-----------------------------------------------------------------------------
Receive(r) ==
    /\ pc[r] = "idle"
    /\ Goto(r, "claim")
    /\ now' = [now EXCEPT ![r] = clock]
    /\ UNCHANGED <<clock, receipt, current, velocity, spend, usage, called,
                   reply>>

(* The receipt's lease lasts as long as the receipt: no takeover before.   *)
Claim(r) ==
    /\ pc[r] = "claim"
    /\ Claimable(receipt, Preview, now[r])
    /\ receipt' = ClaimedRecord(Preview, r, now[r] + Retention,
                                now[r] + Retention)
    /\ Goto(r, "claimed")
    /\ UNCHANGED <<clock, current, velocity, spend, usage, called, now, reply>>

(* The claim was lost; the row says what to do: replay a suggestion, or    *)
(* give up, since a stored failure is never tried again.  A row that has   *)
(* vanished meanwhile is claimed again, which is another Claim or LoseClaim*)
LoseClaim(r) ==
    /\ pc[r] = "claim"
    /\ ~Claimable(receipt, Preview, now[r])
    /\ IF Answered(receipt, Preview) /\ receipt.response = "suggestion"
       THEN Goto(r, "replay") /\ UNCHANGED reply
       ELSE Return(r, "error")
    /\ UNCHANGED <<clock, receipt, current, velocity, spend, usage, called, now>>

(* It is only shown while the preview still describes the segment.         *)
Replay(r) ==
    /\ pc[r] = "replay"
    /\ Return(r, IF current THEN "suggestion" ELSE "error")
    /\ UNCHANGED <<clock, receipt, current, velocity, spend, usage, called, now>>

(* First checks and the hourly words; any of them may turn the run away.   *)
Prepare(r) ==
    /\ pc[r] = "claimed"
    /\ \/ /\ Fresh
          /\ current
          /\ velocity' = velocity \cup {r}
          /\ Goto(r, "reserved")
       \/ /\ Goto(r, "failed")
          /\ UNCHANGED velocity
    /\ UNCHANGED <<clock, receipt, current, spend, usage, called, now, reply>>

(* The guards of the boundary transaction: preview, spend and claim.       *)
Dispatchable(r) ==
    /\ Fresh
    /\ current
    /\ spend = NoOne
    /\ receipt # NoRecord
    /\ receipt.status = "PROCESSING"
    /\ receipt.owner = r

MarkedRecord == [receipt EXCEPT !.status = "DISPATCHED"]

(* The boundary commits; the run learns it, or loses the connection and    *)
(* takes the failure for a rejection.                                      *)
Dispatch(r) ==
    /\ pc[r] = "reserved"
    /\ Dispatchable(r)
    /\ spend' = r
    /\ usage' = usage \cup {r}
    /\ receipt' = MarkedRecord
    /\ \/ Goto(r, "calling")
       \/ Goto(r, "failed")
    /\ UNCHANGED <<clock, current, velocity, called, now, reply>>

(* The boundary is refused: also for quota, budget or access.              *)
Reject(r) ==
    /\ pc[r] = "reserved"
    /\ Goto(r, "failed")
    /\ UNCHANGED <<clock, receipt, current, velocity, spend, usage, called, now,
                   reply>>

(* The hourly words are given back, then the receipt; either statement may *)
(* fail, and both failures are swallowed.                                  *)
Refund(r) ==
    /\ pc[r] = "failed"
    /\ velocity' \in {velocity, velocity \ {r}}
    /\ Goto(r, "refunded")
    /\ UNCHANGED <<clock, receipt, current, spend, usage, called, now, reply>>

Release(r) ==
    /\ pc[r] = "refunded"
    /\ receipt' \in {receipt, ReleasedRecord(receipt, r)}
    /\ Return(r, "error")
    /\ UNCHANGED <<clock, current, velocity, spend, usage, called, now>>

(* One call without fallback or retry; an error, a failed settlement or an *)
(* unusable text is no suggestion.                                         *)
CallProvider(r) ==
    /\ pc[r] = "calling"
    /\ called' = called \cup {r}
    /\ \/ Goto(r, "answered")
       \/ Goto(r, "unusable")
    /\ UNCHANGED <<clock, receipt, current, velocity, spend, usage, now, reply>>

(* The scope is read once more before the suggestion may be used.          *)
Recheck(r) ==
    /\ pc[r] = "answered"
    /\ Goto(r, IF current THEN "accepted" ELSE "unusable")
    /\ UNCHANGED <<clock, receipt, current, velocity, spend, usage, called, now,
                   reply>>

(* The answer is stored, and the run learns it or loses the connection; or *)
(* it is not stored.                                                       *)
CompleteSuggestion(r) ==
    /\ pc[r] = "accepted"
    /\ \/ /\ Completable(receipt, r)
          /\ receipt' = CompletedRecord(receipt, "suggestion", clock + Retention)
          /\ \/ Return(r, "suggestion")
             \/ Goto(r, "unusable") /\ UNCHANGED reply
       \/ /\ Goto(r, "unusable")
          /\ UNCHANGED <<receipt, reply>>
    /\ UNCHANGED <<clock, current, velocity, spend, usage, called, now>>

(* The receipt is closed as unknown, unless that fails too or the          *)
(* suggestion is in it already.                                            *)
CompleteUnknown(r) ==
    /\ pc[r] = "unusable"
    /\ receipt' \in {receipt} \cup
           IF Completable(receipt, r)
           THEN {CompletedRecord(receipt, "unknown", clock + Retention)}
           ELSE {}
    /\ Return(r, "error")
    /\ UNCHANGED <<clock, current, velocity, spend, usage, called, now>>

Crash(r) ==
    /\ pc[r] \in InFlight
    /\ Return(r, "none")
    /\ UNCHANGED <<clock, receipt, current, velocity, spend, usage, called, now>>

-----------------------------------------------------------------------------
(* Someone edits the segment, the glossary, the settings or the access.    *)
Edit ==
    /\ current
    /\ current' = FALSE
    /\ UNCHANGED <<clock, receipt, velocity, spend, usage, called, pc, now, reply>>

Prune ==
    /\ Prunable(receipt, clock)
    /\ receipt' = NoRecord
    /\ UNCHANGED <<clock, current, velocity, spend, usage, called, pc, now, reply>>

Tick ==
    /\ clock < MaxTime
    /\ clock' = clock + 1
    /\ UNCHANGED <<receipt, current, velocity, spend, usage, called, pc, now,
                   reply>>

Work(r) ==
    \/ Claim(r) \/ LoseClaim(r) \/ Replay(r) \/ Prepare(r) \/ Dispatch(r)
    \/ Reject(r) \/ Refund(r) \/ Release(r) \/ CallProvider(r) \/ Recheck(r)
    \/ CompleteSuggestion(r) \/ CompleteUnknown(r)

Next ==
    \/ \E r \in Runs : Receive(r) \/ Work(r) \/ Crash(r)
    \/ Edit \/ Prune \/ Tick

Spec == Init /\ [][Next]_vars

-----------------------------------------------------------------------------
TypeOK ==
    /\ clock \in Nat
    /\ receipt # NoRecord => WellFormed(receipt)
    /\ current \in BOOLEAN
    /\ velocity \subseteq Runs
    /\ spend \in Runs \cup {NoOne}
    /\ usage \subseteq Runs
    /\ called \subseteq Runs
    /\ pc \in [Runs -> Places]
    /\ now \in [Runs -> Nat]
    /\ reply \in [Runs -> Replies]

Dispatched(r) ==
    /\ receipt # NoRecord
    /\ receipt.status = "DISPATCHED"
    /\ receipt.owner = r

(* The mark of a dispatched preview outlives its lease, its retention, the *)
(* cron and every other run; only the run that made it replaces it, once   *)
(* the provider was called, by its suggestion or, when it has none it may  *)
(* show, by an unknown outcome (the comment above the boundary's mark,     *)
(* translation-ai-workflow.ts).                                            *)
MarkerIsPermanent ==
    [][\A r \in Runs : Dispatched(r) =>
          \/ receipt' = receipt
          \/ /\ receipt' # NoRecord
             /\ receipt'.status = "COMPLETED"
             /\ \/ pc[r] = "accepted" /\ receipt'.response = "suggestion"
                \/ pc[r] = "unusable" /\ receipt'.response = "unknown"]_vars

(* As long as the preview is valid, a run that was charged for it keeps    *)
(* every other run away, even when the charged run was told that its       *)
(* transaction failed.                                                     *)
SpentPreviewIsBlocked ==
    spend # NoOne /\ Fresh => ~Claimable(receipt, Preview, clock)

(* From the boundary until it stores its answer a run owns the receipt:    *)
(* the first complete() cannot be refused, however long the provider       *)
(* takes.  (The second one can: the first may have been stored unnoticed.) *)
DispatcherOwnsReceipt ==
    \A r \in Runs :
        pc[r] \in {"calling", "answered", "accepted"} => Dispatched(r)

(* One provider call per preview, by the run that paid for it.             *)
OneCallPerPreview ==
    \A r \in called : r = spend /\ usage = {r}
=============================================================================
