-------------------------- MODULE AutoUpgradeProofs --------------------------
(***************************************************************************)
(* Proofs about automatic upgrades, for any number of functions, plans and *)
(* usage months: an attempt is charged at most once, and what may have     *)
(* been charged is never freed.                                            *)
(***************************************************************************)
EXTENDS AutoUpgrade, TLAPS

CallType == [pc: Places, key: Keys \cup {NoKey}, status: Statuses \cup {"none"},
             claimedAt: Nat, now: Nat, consent: Nat, pending: BOOLEAN,
             price: Plans, cron: Keys \cup {NoKey}, paid: BOOLEAN]
EventKinds == {"updated", "paid", "failed", "expired", "deleted"}
EventType == [kind: EventKinds, price: Plans, key: Keys \cup {NoKey}]
RemoteType == [price: Plans, pending: Keys \cup {NoKey}, latest: Keys \cup {NoKey},
               live: BOOLEAN]
AttemptType == [Keys -> Attempts \cup {NoAttempt}]

(* Functions at these places have read their attempt.                      *)
Holding == {"look", "expire", "prove", "apply", "retrieve", "dispatch", "hold", "lapse",
            "update", "bind", "fail"}
Unsent == {"CLAIMED", "CANCELED"}

Made(rows, k) == k \in Keys /\ rows[k] # NoAttempt

(* What a function knows of the attempts, and how long it has been running. *)
Sound(job, rows, time) ==
    /\ job.pc \in Holding => Made(rows, job.key)
    /\ job.pc = "claim" => job.key \in Keys
    /\ job.cron # NoKey => Made(rows, job.cron)
    /\ job.pc \in {"aside", "setaside"} => job.cron # NoKey
    /\ job.pc # "idle" => job.now <= time /\ time <= job.now + MaxDuration
    /\ job.pc \in {"retrieve", "dispatch", "update"} =>
           job.now < rows[job.key].createdAt + Window
    /\ job.pc = "update" => rows[job.key].status \notin Unsent

(* What Stripe has seen of an attempt.                                     *)
Booked(k) ==
    /\ ~sent[k].used => charges[k] = 0
    /\ sent[k].used => /\ charges[k] = 1
                       /\ attempt[k] # NoAttempt
                       /\ attempt[k].status \notin Unsent
                       /\ attempt[k].createdAt <= sent[k].at

CallsAreSound == \A c \in Callers : Sound(call[c], attempt, clock)
AttemptsArePast == \A k \in Keys : attempt[k] # NoAttempt => attempt[k].createdAt <= clock
EventsNameAttempts == \A e \in events : e.kind \notin {"updated", "deleted"} => e.key \in Keys
Ledger == \A k \in Keys : Booked(k)

IInv ==
    /\ TypeOK
    /\ CallsAreSound
    /\ AttemptsArePast
    /\ EventsNameAttempts
    /\ Ledger

(* Attempts stay, keep their creation time, and what was sent stays sent.  *)
Steady(old, new) ==
    \A k \in Keys : old[k] # NoAttempt =>
        /\ new[k] # NoAttempt
        /\ new[k].createdAt = old[k].createdAt
        /\ old[k].status \notin Unsent => new[k].status \notin Unsent

-----------------------------------------------------------------------------
LEMMA AttemptFields ==
    ASSUME NEW row \in Attempts
    PROVE  /\ row # NoAttempt
           /\ row.status \in Statuses
           /\ row.claimedAt \in Nat
           /\ row.createdAt \in Nat
           /\ row.bound \in BOOLEAN
BY NullAssumption DEF Attempts

LEMMA IdleJob ==
    /\ Idle \in CallType
    /\ Idle.pc = "idle"
    /\ Idle.cron = NoKey
    /\ \A rows, time : Sound(Idle, rows, time)
<1>1. Idle \in CallType
  BY UpgradeAssumption DEF Idle, CallType, Places, Plans
<1>2. Idle.pc = "idle" /\ Idle.cron = NoKey
  BY DEF Idle
<1>3. QED
  BY <1>1, <1>2 DEF Sound, Holding

LEMMA StaysSound ==
    ASSUME NEW job \in CallType, NEW old \in AttemptType, NEW new \in AttemptType,
           NEW time \in Nat, Sound(job, old, time), Steady(old, new)
    PROVE  Sound(job, new, time)
BY DEF Sound, Steady, Made, CallType, Holding

(* A step of one function.                                                 *)
LEMMA CallStep ==
    ASSUME IInv, NEW c \in Callers, NEW job \in CallType,
           call' = [call EXCEPT ![c] = job],
           attempt' \in AttemptType, Steady(attempt, attempt'),
           Sound(job, attempt', clock),
           \A k \in Keys : attempt'[k] # NoAttempt => attempt'[k].createdAt <= clock,
           plan' \in 0 .. MaxPlan, active' \in BOOLEAN, spare' \in Nat,
           UNCHANGED <<clock, preference, stripe>>
    PROVE  IInv'
<1>1. TypeOK'
  BY DEF IInv, TypeOK, CallType, AttemptType, stripe
<1>2. CallsAreSound'
  <2> SUFFICES ASSUME NEW d \in Callers
               PROVE  Sound(call'[d], attempt', clock')
    BY DEF CallsAreSound
  <2>1. CASE d = c
    BY <2>1 DEF IInv, TypeOK
  <2>2. CASE d # c
    <3>1. call'[d] = call[d] /\ clock' = clock
      BY <2>2 DEF IInv, TypeOK
    <3>2. call[d] \in CallType /\ attempt \in AttemptType /\ clock \in Nat
      BY DEF IInv, TypeOK, CallType, AttemptType
    <3>3. QED
      BY <3>1, <3>2, StaysSound DEF IInv, CallsAreSound
  <2>3. QED
    BY <2>1, <2>2
<1>3. AttemptsArePast'
  BY DEF AttemptsArePast
<1>4. EventsNameAttempts'
  BY DEF IInv, EventsNameAttempts, stripe
<1>5. Ledger'
  BY DEF IInv, Ledger, Booked, Steady, stripe
<1>6. QED
  BY <1>1, <1>2, <1>3, <1>4, <1>5 DEF IInv

(* A step that leaves functions, attempts, keys and charges alone.         *)
LEMMA QuietStep ==
    ASSUME IInv, TypeOK', EventsNameAttempts',
           UNCHANGED <<clock, attempt, call, sent, charges>>
    PROVE  IInv'
BY DEF IInv, CallsAreSound, AttemptsArePast, Ledger, Booked

LEMMA SameAttempts ==
    ASSUME IInv
    PROVE  /\ attempt \in AttemptType
           /\ Steady(attempt, attempt)
           /\ \A k \in Keys : attempt[k] # NoAttempt => attempt[k].createdAt <= clock
BY DEF IInv, TypeOK, AttemptType, Steady, AttemptsArePast

LEMMA JobFields ==
    ASSUME IInv, NEW c \in Callers
    PROVE  /\ call[c] \in CallType
           /\ Sound(call[c], attempt, clock)
BY DEF IInv, TypeOK, CallType, CallsAreSound

(* A function goes on, or ends, and leaves the attempts alone.             *)
LEMMA Going ==
    ASSUME IInv, NEW c \in Callers, NEW place \in Places, Goto(c, place),
           place \in Holding => Made(attempt, call[c].key),
           place # "claim", place # "update",
           place \in {"aside", "setaside"} => call[c].cron # NoKey,
           place \in {"retrieve", "dispatch"} => call[c].pc = "retrieve",
           call[c].pc # "idle",
           plan' \in 0 .. MaxPlan, active' \in BOOLEAN, spare' \in Nat,
           UNCHANGED <<clock, preference, attempt, stripe>>
    PROVE  IInv'
<1> DEFINE job == [call[c] EXCEPT !.pc = place]
<1>1. call[c] \in CallType /\ Sound(call[c], attempt, clock)
  BY JobFields
<1>2. job \in CallType
  BY <1>1 DEF CallType
<1>3. call' = [call EXCEPT ![c] = job]
  BY DEF Goto, IInv, TypeOK
<1>4. Sound(job, attempt, clock)
  BY <1>1 DEF Sound, CallType
<1> HIDE DEF job
<1>5. QED
  BY <1>2, <1>3, <1>4, CallStep, SameAttempts

LEMMA Finishing ==
    ASSUME IInv, NEW c \in Callers, Finish(c),
           plan' \in 0 .. MaxPlan, active' \in BOOLEAN, spare' \in Nat,
           UNCHANGED <<clock, preference, attempt, stripe>>
    PROVE  IInv'
BY CallStep, SameAttempts, IdleJob DEF Finish

(* A function ends with a change of one attempt's status.                  *)
LEMMA Moving ==
    ASSUME IInv, NEW c \in Callers, Finish(c), NEW k \in Keys, attempt[k] # NoAttempt,
           NEW status \in Statuses, Move(k, status),
           status \in Unsent => attempt[k].status \in Unsent,
           plan' \in 0 .. MaxPlan, active' \in BOOLEAN, spare' \in Nat,
           UNCHANGED <<clock, preference, stripe>>
    PROVE  IInv'
<1>1. attempt \in AttemptType /\ attempt[k] \in Attempts
  BY SameAttempts DEF AttemptType
<1>2. [attempt[k] EXCEPT !.status = status] \in Attempts
  BY <1>1 DEF Attempts
<1>3. attempt' = [attempt EXCEPT ![k] = [attempt[k] EXCEPT !.status = status]]
  BY <1>1 DEF Move, AttemptType
<1>4. attempt' \in AttemptType
  BY <1>1, <1>2, <1>3 DEF AttemptType
<1>5. /\ attempt'[k].status = status
      /\ attempt'[k].createdAt = attempt[k].createdAt
      /\ attempt'[k] # NoAttempt
  BY <1>1, <1>2, <1>3, AttemptFields DEF AttemptType, Attempts
<1>6. \A j \in Keys : j # k => attempt'[j] = attempt[j]
  BY <1>1, <1>3 DEF AttemptType
<1>7. Steady(attempt, attempt')
  BY <1>5, <1>6 DEF Steady
<1>8. \A j \in Keys : attempt'[j] # NoAttempt => attempt'[j].createdAt <= clock
  BY <1>5, <1>6, SameAttempts
<1>9. QED
  BY <1>4, <1>7, <1>8, CallStep, IdleJob DEF Finish

Settled == plan' \in 0 .. MaxPlan /\ active' \in BOOLEAN /\ spare' \in Nat

LEMMA Unchanging ==
    ASSUME IInv, UNCHANGED <<setting, entitlement>>
    PROVE  Settled /\ UNCHANGED <<clock, preference>>
BY DEF IInv, TypeOK, Settled, setting, entitlement

LEMMA Declining ==
    ASSUME IInv, NEW c \in Callers, ~At(c, "idle"), Decline(c),
           UNCHANGED <<setting, entitlement, attempt, stripe>>
    PROVE  IInv'
<1>1. Settled /\ UNCHANGED <<clock, preference, attempt, stripe>>
  BY Unchanging
<1>2. CASE Finish(c)
  BY <1>1, <1>2, Finishing DEF Settled
<1>3. CASE call[c].cron # NoKey /\ Goto(c, "aside")
  BY <1>1, <1>3, Going DEF Settled, Places, Holding, At
<1>4. QED
  BY <1>2, <1>3 DEF Decline

LEMMA Unproving ==
    ASSUME IInv, NEW c \in Callers, ~At(c, "idle"), Unproved(c), Settled,
           UNCHANGED <<clock, preference, attempt, stripe>>
    PROVE  IInv'
<1>1. CASE Finish(c)
  BY <1>1, Finishing DEF Settled
<1>2. CASE Goto(c, "revive")
  BY <1>2, Going DEF Settled, Places, Holding, At
<1>3. QED
  BY <1>1, <1>2 DEF Unproved

-----------------------------------------------------------------------------
(* The actions, one by one.                                                *)
LEMMA BeginKeeps ==
    ASSUME IInv, NEW c \in Callers, NEW m \in Months, NEW dispatched \in Keys \cup {NoKey},
           dispatched # NoKey => Made(attempt, dispatched),
           Begin(c, m, dispatched)
    PROVE  IInv'
<1> DEFINE job == [Idle EXCEPT !.now = clock, !.cron = dispatched]
<1>1. Settled /\ UNCHANGED <<clock, preference, attempt, stripe>>
  BY Unchanging DEF Begin
<1>2. clock \in Nat /\ preference.version \in Nat /\ MaxDuration \in Nat
  BY UpgradeAssumption DEF IInv, TypeOK
<1>3. ASSUME NEW k \in Keys, attempt[k] # NoAttempt, NEW place \in {"prove", "look"},
             call' = [call EXCEPT ![c] = [job EXCEPT !.key = k, !.pc = place]]
      PROVE  IInv'
  <2> DEFINE new == [job EXCEPT !.key = k, !.pc = place]
  <2>1. new \in CallType
    BY <1>2, <1>3, IdleJob DEF CallType, Places, Remote
  <2>2. Sound(new, attempt, clock)
    BY <1>2, <1>3, IdleJob DEF Sound, Made, CallType
  <2> HIDE DEF new
  <2>3. QED
    BY <1>1, <1>3, <2>1, <2>2, CallStep, SameAttempts DEF Settled, new
<1>4. ASSUME NEW k \in Keys,
             call' = [call EXCEPT ![c] = [job EXCEPT !.pc = "claim", !.key = k,
                                                     !.consent = preference.version]]
      PROVE  IInv'
  <2> DEFINE new == [job EXCEPT !.pc = "claim", !.key = k, !.consent = preference.version]
  <2>1. new \in CallType
    BY <1>2, <1>4, IdleJob DEF CallType, Places, Remote
  <2>2. Sound(new, attempt, clock)
    BY <1>2, <1>4, IdleJob DEF Sound, Made, CallType, Holding
  <2> HIDE DEF new
  <2>3. QED
    BY <1>1, <1>4, <2>1, <2>2, CallStep, SameAttempts DEF Settled, new
<1>5. ASSUME dispatched # NoKey, call' = [call EXCEPT ![c] = [job EXCEPT !.pc = "aside"]]
      PROVE  IInv'
  <2> DEFINE new == [job EXCEPT !.pc = "aside"]
  <2>1. new \in CallType
    BY <1>2, <1>5, IdleJob DEF CallType, Places, Remote
  <2>2. Sound(new, attempt, clock)
    BY <1>2, <1>5, IdleJob DEF Sound, Made, CallType, Holding
  <2> HIDE DEF new
  <2>3. QED
    BY <1>1, <1>5, <2>1, <2>2, CallStep, SameAttempts DEF Settled, new
<1>6. ASSUME call' = [call EXCEPT ![c] = Idle]
      PROVE  IInv'
  BY <1>1, <1>6, Finishing DEF Finish, Settled
<1>7. \A S : \A k \in Newest(S \cap Statuses) : k \in Keys /\ attempt[k] # NoAttempt
  BY DEF Newest, Status, Statuses, InFlight
<1>8. {"PAYMENT_PENDING", "AWAIT_INVOICE"} \cap Statuses = {"PAYMENT_PENDING", "AWAIT_INVOICE"}
  BY DEF Statuses, InFlight
<1>9. CASE \E k \in Newest({"PAYMENT_PENDING", "AWAIT_INVOICE"}), place \in {"prove", "look"} :
              call' = [call EXCEPT ![c] = [job EXCEPT !.key = k, !.pc = place]]
  BY <1>3, <1>7, <1>8, <1>9
<1>10. CASE <<m, plan>> \in Keys /\
              call' = [call EXCEPT ![c] = [job EXCEPT !.pc = "claim", !.key = <<m, plan>>,
                                                      !.consent = preference.version]]
  BY <1>4, <1>10
<1>11. QED
  BY <1>5, <1>6, <1>9, <1>10 DEF Begin

(* A function that holds an attempt reads it as it is.                     *)
LEMMA Held ==
    ASSUME IInv, NEW c \in Callers, call[c].pc \in Holding
    PROVE  /\ call[c].key \in Keys
           /\ attempt[call[c].key] \in Attempts
           /\ attempt[call[c].key] # NoAttempt
           /\ Status(call[c].key) = attempt[call[c].key].status
<1>1. call[c].key \in Keys /\ attempt[call[c].key] # NoAttempt
  BY JobFields DEF Sound, Made
<1>2. QED
  BY <1>1 DEF IInv, TypeOK, Status

LEMMA Finished ==
    ASSUME IInv, NEW c \in Callers, Finish(c),
           UNCHANGED <<setting, entitlement, attempt, stripe>>
    PROVE  IInv'
BY Unchanging, Finishing DEF Settled

LEMMA LookKeeps ==
    ASSUME IInv, NEW c \in Callers, Look(c)
    PROVE  IInv'
<1>1. Settled /\ UNCHANGED <<clock, preference, attempt, stripe>>
  BY Unchanging DEF Look
<1>2. Made(attempt, call[c].key) /\ call[c].pc = "look"
  BY Held DEF Look, At, Holding, Made
<1>3. CASE Goto(c, "expire")
  BY <1>1, <1>2, <1>3, Going DEF Settled, Places
<1>4. CASE Goto(c, "prove")
  BY <1>1, <1>2, <1>4, Going DEF Settled, Places, Remote
<1>5. CASE Finish(c)
  BY <1>1, <1>5, Finishing DEF Settled
<1>6. QED
  BY <1>3, <1>4, <1>5 DEF Look

LEMMA ExpireKeeps ==
    ASSUME IInv, NEW c \in Callers, Expire(c)
    PROVE  IInv'
<1> DEFINE k == call[c].key
<1>1. Settled /\ UNCHANGED <<clock, preference, stripe>> /\ Finish(c)
  BY Unchanging DEF Expire
<1>2. k \in Keys /\ attempt[k] # NoAttempt
  BY Held DEF Expire, At, Holding
<1>3. CASE Move(k, "EXPIRED")
  BY <1>1, <1>2, <1>3, Moving DEF Settled, Statuses, Unsent
<1>4. CASE UNCHANGED attempt
  BY <1>1, <1>4, Finishing DEF Settled
<1>5. QED
  BY <1>3, <1>4 DEF Expire

LEMMA ProveKeeps ==
    ASSUME IInv, NEW c \in Callers, Prove(c)
    PROVE  IInv'
<1>1. Settled /\ UNCHANGED <<clock, preference, attempt, stripe>>
  BY Unchanging DEF Prove
<1>2. Made(attempt, call[c].key) /\ ~At(c, "idle") /\ call[c].pc = "prove"
  BY Held DEF Prove, At, Holding, Made
<1>3. CASE Goto(c, "apply")
  BY <1>1, <1>2, <1>3, Going DEF Settled, Places
<1>4. CASE Unproved(c)
  BY <1>1, <1>2, <1>4, Unproving
<1>5. QED
  BY <1>3, <1>4 DEF Prove

LEMMA ApplyKeeps ==
    ASSUME IInv, NEW c \in Callers, Apply(c)
    PROVE  IInv'
<1> DEFINE k == call[c].key
<1>1. k \in Keys /\ attempt[k] # NoAttempt /\ ~At(c, "idle")
  BY Held DEF Apply, At, Holding
<1>2. UNCHANGED <<clock, preference, stripe>> /\ spare' \in Nat
  BY DEF Apply, setting, IInv, TypeOK
<1>3. CASE plan' = To(k) /\ active' = TRUE /\ Move(k, "APPLIED") /\ Finish(c)
  <2>1. To(k) \in Plans
    BY <1>1, UpgradeAssumption DEF To, Keys, Plans
  <2>2. QED
    BY <1>1, <1>2, <1>3, <2>1, UpgradeAssumption, Moving DEF Statuses, Unsent, Plans
<1>4. CASE UNCHANGED <<plan, active, attempt>> /\ Unproved(c)
  BY <1>1, <1>2, <1>4, Unproving DEF Settled, IInv, TypeOK
<1>5. QED
  BY <1>3, <1>4 DEF Apply

LEMMA TerminalIsSafe ==
    ASSUME NEW status \in Statuses
    PROVE  /\ Terminal(status) \in Statuses
           /\ Terminal(status) \in Unsent => status \in Unsent
BY DEF Terminal, Statuses, InFlight, Unsent

(* Lapse and Hold: the status read is still the attempt's.                 *)
LEMMA GivingUp ==
    ASSUME IInv, NEW c \in Callers, call[c].pc \in Holding, Finish(c),
           UNCHANGED <<setting, entitlement, stripe>>,
           \/ UNCHANGED attempt
           \/ /\ Status(call[c].key) = call[c].status
              /\ Move(call[c].key, Terminal(call[c].status))
    PROVE  IInv'
<1> DEFINE k == call[c].key
<1>1. Settled /\ UNCHANGED <<clock, preference, stripe>>
  BY Unchanging
<1>2. CASE UNCHANGED attempt
  BY <1>1, <1>2, Finishing DEF Settled
<1>3. CASE Status(k) = call[c].status /\ Move(k, Terminal(call[c].status))
  <2>1. /\ k \in Keys /\ attempt[k] # NoAttempt
        /\ call[c].status \in Statuses
        /\ attempt[k].status = call[c].status
    BY <1>3, Held, AttemptFields
  <2>2. QED
    BY <1>1, <1>3, <2>1, TerminalIsSafe, Moving DEF Settled
<1>4. QED
  BY <1>2, <1>3

LEMMA LapseKeeps ==
    ASSUME IInv, NEW c \in Callers, Lapse(c)
    PROVE  IInv'
BY GivingUp DEF Lapse, At, Holding

LEMMA HoldKeeps ==
    ASSUME IInv, NEW c \in Callers, Hold(c)
    PROVE  IInv'
BY GivingUp DEF Hold, At, Holding

LEMMA RetrieveKeeps ==
    ASSUME IInv, NEW c \in Callers, Retrieve(c)
    PROVE  IInv'
<1>1. Settled /\ UNCHANGED <<clock, preference, attempt, stripe>>
  BY Unchanging DEF Retrieve
<1>2. Made(attempt, call[c].key) /\ call[c].pc = "retrieve"
  BY Held DEF Retrieve, At, Holding, Made
<1>3. CASE Goto(c, "hold")
  BY <1>1, <1>2, <1>3, Going DEF Settled, Places
<1>4. CASE Goto(c, "dispatch")
  BY <1>1, <1>2, <1>4, Going DEF Settled, Places
<1>5. QED
  BY <1>3, <1>4 DEF Retrieve

(* The claim: a takeover keeps the attempt; a new one is made now.         *)
LEMMA ClaimKeeps ==
    ASSUME IInv, NEW c \in Callers, Claim(c)
    PROVE  IInv'
<1> DEFINE k == call[c].key
           job == call[c]
<1>1. Settled /\ UNCHANGED <<clock, preference, stripe>>
  BY Unchanging DEF Claim
<1>2. /\ job \in CallType /\ job.pc = "claim" /\ k \in Keys
      /\ job.now <= clock /\ clock <= job.now + MaxDuration
      /\ clock \in Nat /\ MaxDuration \in Nat /\ Window \in Nat \ {0}
      /\ job.now \in Nat
  BY JobFields, UpgradeAssumption DEF Claim, At, Sound, IInv, TypeOK, CallType
<1>3. ASSUME attempt[k] # NoAttempt, UNCHANGED attempt,
             call' = [call EXCEPT ![c].status = attempt[k].status,
                                  ![c].claimedAt = attempt[k].claimedAt, ![c].cron = NoKey,
                                  ![c].pc = IF TooOld(attempt[k], job.now) THEN "lapse"
                                            ELSE "retrieve"]
      PROVE  IInv'
  <2> DEFINE place == IF TooOld(attempt[k], job.now) THEN "lapse" ELSE "retrieve"
             new == [job EXCEPT !.status = attempt[k].status, !.claimedAt = attempt[k].claimedAt,
                                !.cron = NoKey, !.pc = place]
  <2>1. /\ attempt[k].status \in Statuses /\ attempt[k].claimedAt \in Nat
        /\ attempt[k].createdAt \in Nat
    BY <1>2, <1>3, AttemptFields DEF IInv, TypeOK
  <2>2. new \in CallType
    BY <1>2, <2>1 DEF CallType, Places, Remote
  <2>3. Sound(new, attempt, clock)
    <3>1. /\ new.pc = place /\ new.key = k /\ new.cron = NoKey /\ new.now = job.now
      BY <1>2 DEF CallType
    <3>2. place = "retrieve" => job.now < attempt[k].createdAt + Window
      BY <1>2, <2>1 DEF TooOld
    <3>3. place \in {"lapse", "retrieve"}
      OBVIOUS
    <3> HIDE DEF new, place
    <3>4. QED
      BY <1>2, <1>3, <3>1, <3>2, <3>3 DEF Sound, Made
  <2>4. call' = [call EXCEPT ![c] = new]
    BY <1>3 DEF IInv, TypeOK
  <2> HIDE DEF new
  <2>5. QED
    BY <1>1, <1>3, <2>2, <2>3, <2>4, CallStep, SameAttempts DEF Settled
<1>4. ASSUME attempt[k] = NoAttempt,
             attempt' = [attempt EXCEPT ![k] = [status |-> "CLAIMED", claimedAt |-> clock,
                                                createdAt |-> clock, bound |-> FALSE]],
             call' = [call EXCEPT ![c].status = "CLAIMED", ![c].claimedAt = clock,
                                  ![c].cron = NoKey, ![c].pc = "retrieve"]
      PROVE  IInv'
  <2> DEFINE row == [status |-> "CLAIMED", claimedAt |-> clock, createdAt |-> clock,
                     bound |-> FALSE]
             new == [job EXCEPT !.status = "CLAIMED", !.claimedAt = clock, !.cron = NoKey,
                                !.pc = "retrieve"]
  <2>1. row \in Attempts /\ row # NoAttempt /\ row.createdAt = clock
    <3>1. row \in Attempts
      BY <1>2 DEF Attempts, Statuses, InFlight
    <3>2. QED
      BY <3>1, NullAssumption
  <2>2. attempt' \in AttemptType /\ attempt'[k] = row
    BY <1>2, <1>4, <2>1, SameAttempts DEF AttemptType
  <2>3. \A j \in Keys : j # k => attempt'[j] = attempt[j]
    BY <1>2, <1>4, SameAttempts DEF AttemptType
  <2>4. Steady(attempt, attempt')
    BY <1>4, <2>3 DEF Steady
  <2>5. \A j \in Keys : attempt'[j] # NoAttempt => attempt'[j].createdAt <= clock
    BY <1>2, <2>2, <2>3, SameAttempts
  <2>6. new \in CallType
    BY <1>2 DEF CallType, Places, Remote, Statuses, InFlight
  <2>7. Sound(new, attempt', clock)
    <3>1. /\ new.pc = "retrieve" /\ new.key = k /\ new.cron = NoKey /\ new.now = job.now
      BY <1>2 DEF CallType
    <3>2. attempt'[k] # NoAttempt /\ attempt'[k].createdAt = clock
      BY <2>1, <2>2
    <3> HIDE DEF new
    <3>3. QED
      BY <1>2, <3>1, <3>2 DEF Sound, Made
  <2>8. call' = [call EXCEPT ![c] = new]
    BY <1>4 DEF IInv, TypeOK
  <2> HIDE DEF new
  <2>9. QED
    BY <1>1, <2>2, <2>4, <2>5, <2>6, <2>7, <2>8, CallStep DEF Settled
<1>5. CASE Finish(c) /\ UNCHANGED attempt
  BY <1>1, <1>5, Finishing DEF Settled
<1>6. CASE Decline(c) /\ UNCHANGED attempt
  BY <1>6, Declining DEF Claim, At
<1>7. \/ attempt[k] # NoAttempt /\ UNCHANGED attempt
           /\ call' = [call EXCEPT ![c].status = attempt[k].status,
                                  ![c].claimedAt = attempt[k].claimedAt, ![c].cron = NoKey,
                                  ![c].pc = IF TooOld(attempt[k], job.now) THEN "lapse"
                                            ELSE "retrieve"]
      \/ Finish(c) /\ UNCHANGED attempt
      \/ /\ attempt[k] = NoAttempt
         /\ attempt' = [attempt EXCEPT ![k] = [status |-> "CLAIMED", claimedAt |-> clock,
                                                createdAt |-> clock, bound |-> FALSE]]
         /\ call' = [call EXCEPT ![c].status = "CLAIMED", ![c].claimedAt = clock,
                                  ![c].cron = NoKey, ![c].pc = "retrieve"]
      \/ Decline(c) /\ UNCHANGED attempt
  BY Zenon DEF Claim
<1>8. QED
  BY <1>3, <1>4, <1>5, <1>6, <1>7

(* The dispatch: it commits what the function had validated.               *)
LEMMA DispatchKeeps ==
    ASSUME IInv, NEW c \in Callers, Dispatch(c)
    PROVE  IInv'
<1> DEFINE k == call[c].key
           now == call[c].now
<1>1. Settled /\ UNCHANGED <<clock, preference, stripe>>
  BY Unchanging DEF Dispatch
<1>2. /\ k \in Keys /\ attempt[k] \in Attempts /\ attempt[k] # NoAttempt
      /\ call[c] \in CallType /\ call[c].pc = "dispatch"
  BY Held, JobFields DEF Dispatch, At, Holding
<1>3. /\ now < attempt[k].createdAt + Window
      /\ now <= clock /\ clock <= now + MaxDuration
      /\ now \in Nat
  BY <1>2, JobFields DEF Sound, CallType
<1>4. ASSUME attempt' = [attempt EXCEPT ![k].status = "DISPATCHING", ![k].claimedAt = now],
             call' = [call EXCEPT ![c].pc = "update"]
      PROVE  IInv'
  <2> DEFINE row == [attempt[k] EXCEPT !.status = "DISPATCHING", !.claimedAt = now]
             new == [call[c] EXCEPT !.pc = "update"]
  <2>1. /\ row \in Attempts
        /\ row.status = "DISPATCHING"
        /\ row.createdAt = attempt[k].createdAt
    BY <1>2, <1>3 DEF Attempts, Statuses, InFlight
  <2>2. attempt' \in AttemptType /\ attempt'[k] = row
    BY <1>2, <1>4, <2>1, SameAttempts DEF AttemptType
  <2>3. \A j \in Keys : j # k => attempt'[j] = attempt[j]
    BY <1>2, <1>4, SameAttempts DEF AttemptType
  <2>4. row # NoAttempt
    BY <2>1, NullAssumption
  <2> HIDE DEF row
  <2>5. Steady(attempt, attempt')
    BY <2>1, <2>2, <2>3, <2>4 DEF Steady, Unsent
  <2>6. \A j \in Keys : attempt'[j] # NoAttempt => attempt'[j].createdAt <= clock
    BY <1>2, <2>1, <2>2, <2>3, SameAttempts
  <2>7. /\ new \in CallType
        /\ new.pc = "update" /\ new.key = k /\ new.now = now /\ new.cron = call[c].cron
    BY <1>2 DEF CallType, Places, Remote
  <2>8. call' = [call EXCEPT ![c] = new]
    BY <1>4 DEF IInv, TypeOK
  <2> HIDE DEF new
  <2>9. Sound(new, attempt', clock)
    <3>1. Sound(call[c], attempt', clock)
      BY <1>2, <2>2, <2>5, StaysSound, JobFields, SameAttempts DEF IInv, TypeOK
    <3>2. QED
      BY <1>2, <1>3, <2>1, <2>2, <2>4, <2>7, <3>1 DEF Sound, Made, Unsent
  <2>10. QED
    BY <1>1, <2>2, <2>5, <2>6, <2>7, <2>8, <2>9, CallStep DEF Settled
<1>5. CASE Goto(c, "hold") /\ UNCHANGED attempt
  BY <1>1, <1>2, <1>5, Going DEF Settled, Places, Made
<1>6. QED
  BY <1>4, <1>5 DEF Dispatch, Goto

(* The change: a function at its update is younger than Stripe's key, so   *)
(* it gets the first answer if the key was ever used.                      *)
LEMMA FreshKey ==
    ASSUME IInv, NEW c \in Callers, call[c].pc = "update", ~KeyLives(call[c].key)
    PROVE  ~sent[call[c].key].used
<1> DEFINE k == call[c].key
           now == call[c].now
<1>1. /\ k \in Keys /\ attempt[k] \in Attempts /\ attempt[k] # NoAttempt
      /\ call[c] \in CallType
  BY Held, JobFields DEF Holding
<1>2. /\ now < attempt[k].createdAt + Window
      /\ clock <= now + MaxDuration
      /\ now \in Nat /\ clock \in Nat /\ attempt[k].createdAt \in Nat
  BY <1>1, JobFields, AttemptFields DEF Sound, CallType, IInv, TypeOK
<1>3. SUFFICES ASSUME sent[k].used
               PROVE  clock < sent[k].at + KeyLife
  BY DEF KeyLives
<1>4. attempt[k].createdAt <= sent[k].at /\ sent[k].at \in Nat
  BY <1>1, <1>3 DEF IInv, Ledger, Booked, TypeOK
<1>5. Window \in Nat /\ MaxDuration \in Nat /\ KeyLife \in Nat /\ Window + MaxDuration <= KeyLife
  BY UpgradeAssumption
<1>6. QED
  BY <1>2, <1>4, <1>5

LEMMA UpdateKeeps ==
    ASSUME IInv, NEW c \in Callers, Update(c)
    PROVE  IInv'
<1> DEFINE k == call[c].key
           now == call[c].now
<1>1. Settled /\ UNCHANGED <<clock, preference, attempt>>
  BY Unchanging DEF Update
<1>2. /\ k \in Keys /\ attempt[k] \in Attempts /\ attempt[k] # NoAttempt
      /\ call[c] \in CallType /\ call[c].pc = "update"
  BY Held, JobFields DEF Update, At, Holding
<1>3. /\ now < attempt[k].createdAt + Window
      /\ now <= clock /\ clock <= now + MaxDuration
      /\ attempt[k].status \notin Unsent
      /\ now \in Nat /\ clock \in Nat /\ attempt[k].createdAt \in Nat
      /\ attempt[k].createdAt <= clock
  BY <1>2, JobFields, AttemptFields, SameAttempts DEF Sound, CallType, IInv, TypeOK
<1>4. ASSUME NEW pending \in BOOLEAN
      PROVE  LET new == [Idle EXCEPT !.pc = "bind", !.key = k, !.now = now, !.pending = pending]
             IN  new \in CallType /\ Sound(new, attempt, clock)
  <2> DEFINE new == [Idle EXCEPT !.pc = "bind", !.key = k, !.now = now, !.pending = pending]
  <2>1. /\ new \in CallType /\ new.pc = "bind" /\ new.key = k /\ new.now = now
        /\ new.cron = NoKey
    BY <1>2, <1>3, IdleJob DEF CallType, Places
  <2> HIDE DEF new
  <2>2. Sound(new, attempt, clock)
    BY <1>2, <1>3, <2>1 DEF Sound, Made
  <2>3. QED
    BY <2>1, <2>2 DEF new
<1>5. CASE KeyLives(k) /\ UNCHANGED stripe
           /\ call' = [call EXCEPT ![c] = [Idle EXCEPT !.pc = "bind", !.key = k, !.now = now,
                                                      !.pending = sent[k].pending]]
  <2>1. sent[k].pending \in BOOLEAN
    BY <1>2 DEF IInv, TypeOK
  <2>2. QED
    BY <1>1, <1>4, <1>5, <2>1, CallStep, SameAttempts DEF Settled
<1>6. ASSUME ~KeyLives(k), NEW outcome \in {"pending", "open", "paid"}, Execute(k, outcome),
             NEW job \in CallType, Sound(job, attempt, clock), call' = [call EXCEPT ![c] = job]
      PROVE  IInv'
  <2>1. ~sent[k].used /\ charges[k] = 0
    BY <1>2, <1>6, FreshKey DEF IInv, Ledger, Booked
  <2>2. charges' = [charges EXCEPT ![k] = 1]
    BY <1>2, <1>6, <2>1 DEF Execute, IInv, TypeOK
  <2>3. sent' = [sent EXCEPT ![k] = [used |-> TRUE, at |-> clock, pending |-> outcome = "pending"]]
    BY <1>6 DEF Execute
  <2>4. Ledger'
    <3> SUFFICES ASSUME NEW j \in Keys
                 PROVE  Booked(j)'
      BY DEF Ledger
    <3>1. CASE j = k
      <4>1. charges'[k] = 1 /\ sent'[k].used /\ sent'[k].at = clock /\ attempt'[k] = attempt[k]
        BY <1>1, <1>2, <2>2, <2>3 DEF IInv, TypeOK
      <4>2. QED
        BY <1>2, <1>3, <3>1, <4>1 DEF Booked
    <3>2. CASE j # k
      <4>1. charges'[j] = charges[j] /\ sent'[j] = sent[j] /\ attempt'[j] = attempt[j]
        BY <1>1, <1>2, <2>2, <2>3, <3>2 DEF IInv, TypeOK
      <4>2. QED
        BY <4>1 DEF IInv, Ledger, Booked
    <3>3. QED
      BY <3>1, <3>2
  <2>5. /\ From(k) \in Plans /\ To(k) \in Plans
    BY <1>2, UpgradeAssumption DEF From, To, Keys, Plans
  <2>6. remote' \in RemoteType
    BY <1>2, <1>6, <2>5 DEF Execute, IInv, TypeOK, RemoteType
  <2>7. /\ events' \subseteq EventType
        /\ EventsNameAttempts'
    <3>1. remote'.price \in Plans
      BY <2>6 DEF RemoteType
    <3>2. Updated(remote'.price, k) \in EventType
          /\ Updated(remote'.price, k).kind = "updated"
      BY <1>2, <3>1 DEF Updated, EventType, EventKinds
    <3>3. About("paid", k) \in EventType
          /\ About("paid", k).key \in Keys
      BY <1>2, <2>5 DEF About, EventType, EventKinds
    <3>4. events' \subseteq events \cup {Updated(remote'.price, k), About("paid", k)}
      BY <1>6 DEF Execute
    <3>5. QED
      BY <3>2, <3>3, <3>4 DEF IInv, TypeOK, EventsNameAttempts, EventType, EventKinds
  <2>8. /\ charges' \in [Keys -> Nat]
        /\ sent' \in [Keys -> [used: BOOLEAN, at: Nat, pending: BOOLEAN]]
        /\ invoice' \in [Keys -> {"none", "open", "paid", "void"}]
        /\ call' \in [Callers -> CallType]
    BY <1>2, <1>3, <1>6, <2>2, <2>3 DEF Execute, IInv, TypeOK, CallType
  <2>9. TypeOK'
    BY <1>1, <2>6, <2>7, <2>8
    DEF Settled, IInv, TypeOK, CallType, RemoteType, EventType, EventKinds
  <2>10. CallsAreSound' /\ AttemptsArePast'
    BY <1>1, <1>6 DEF IInv, CallsAreSound, AttemptsArePast, TypeOK
  <2>11. QED
    BY <2>4, <2>7, <2>9, <2>10 DEF IInv
<1>7. CASE ~KeyLives(k) /\ \E outcome \in {"pending", "open", "paid"} :
              /\ Execute(k, outcome)
              /\ \/ call' = [call EXCEPT ![c] = [Idle EXCEPT !.pc = "bind", !.key = k,
                                     !.now = now, !.pending = (outcome = "pending")]]
                 \/ Finish(c)
  BY <1>4, <1>6, <1>7, IdleJob DEF Finish
<1>8. QED
  BY <1>5, <1>7 DEF Update

(* The answer: it binds the invoice of an attempt still dispatched,        *)
Binds(k, status) ==
    attempt' = IF Status(k) # "DISPATCHING" THEN attempt
               ELSE [attempt EXCEPT ![k].bound = TRUE, ![k].status = status]
BoundStatus(c) == IF call[c].pending THEN "PAYMENT_PENDING" ELSE "AWAIT_INVOICE"

LEMMA BindCases ==
    ASSUME NEW c \in Callers, Bind(c)
    PROVE  \/ /\ Binds(call[c].key, BoundStatus(c))
              /\ IF call[c].pending THEN Finish(c) ELSE Goto(c, "prove")
           \/ /\ UNCHANGED attempt \/ Move(call[c].key, "UNKNOWN")
              /\ Finish(c)
BY Zenon DEF Bind, Binds, BoundStatus

LEMMA BindsKeeps ==
    ASSUME IInv, NEW c \in Callers, At(c, "bind"),
           Binds(call[c].key, BoundStatus(c)),
           IF call[c].pending THEN Finish(c) ELSE Goto(c, "prove"),
           Settled, UNCHANGED <<clock, preference, stripe>>
    PROVE  IInv'
<1> DEFINE k == call[c].key
           status == BoundStatus(c)
           new == [call[c] EXCEPT !.pc = "prove"]
           job == IF call[c].pending THEN Idle ELSE new
<1>1. status \in {"PAYMENT_PENDING", "AWAIT_INVOICE"}
  BY DEF BoundStatus
<1>2. /\ k \in Keys /\ attempt[k] \in Attempts /\ attempt[k] # NoAttempt
      /\ call[c] \in CallType /\ call[c].pc = "bind"
      /\ Sound(call[c], attempt, clock)
      /\ Status(k) = attempt[k].status
  BY Held, JobFields DEF At, Holding
<1>3. call' = [call EXCEPT ![c] = job] /\ job \in CallType
  <2>1. new \in CallType
    BY <1>2 DEF CallType, Places, Remote
  <2>2. CASE call[c].pending
    BY <2>2, IdleJob DEF Finish
  <2>3. CASE ~call[c].pending
    BY <2>1, <2>3 DEF Goto, IInv, TypeOK
  <2>4. QED
    BY <2>2, <2>3
<1>4. Sound(job, attempt, clock)
  <2>1. /\ new.pc = "prove" /\ new.key = k /\ new.now = call[c].now
        /\ new.cron = call[c].cron
    BY <1>2 DEF CallType
  <2>2. Sound(new, attempt, clock)
    BY <1>2, <2>1 DEF Sound, Made
  <2>3. QED
    BY <2>2, IdleJob
<1> HIDE DEF job, status
<1>5. CASE UNCHANGED attempt
  BY <1>3, <1>4, <1>5, CallStep, SameAttempts DEF Settled
<1>6. CASE attempt[k].status = "DISPATCHING" /\
           attempt' = [attempt EXCEPT ![k].bound = TRUE, ![k].status = status]
  <2> DEFINE row == [attempt[k] EXCEPT !.bound = TRUE, !.status = status]
  <2>1. /\ row \in Attempts
        /\ row.status = status
        /\ row.createdAt = attempt[k].createdAt
    BY <1>1, <1>2 DEF Attempts, Statuses, InFlight
  <2>2. attempt' \in AttemptType /\ attempt'[k] = row
    BY <1>2, <1>6, <2>1, SameAttempts DEF AttemptType
  <2>3. \A j \in Keys : j # k => attempt'[j] = attempt[j]
    BY <1>2, <1>6, SameAttempts DEF AttemptType
  <2>4. row # NoAttempt
    BY <2>1, NullAssumption
  <2> HIDE DEF row
  <2>5. Steady(attempt, attempt')
    BY <1>1, <2>1, <2>2, <2>3, <2>4 DEF Steady, Unsent
  <2>6. \A j \in Keys : attempt'[j] # NoAttempt => attempt'[j].createdAt <= clock
    BY <1>2, <2>1, <2>2, <2>3, SameAttempts
  <2>7. Sound(job, attempt', clock)
    BY <1>3, <1>4, <2>2, <2>5, StaysSound, SameAttempts DEF IInv, TypeOK
  <2>8. QED
    BY <1>3, <2>2, <2>5, <2>6, <2>7, CallStep DEF Settled
<1>7. QED
  BY <1>2, <1>5, <1>6 DEF Binds, status

(* or, without an invoice, sets the attempt aside.                         *)
LEMMA BindKeeps ==
    ASSUME IInv, NEW c \in Callers, Bind(c)
    PROVE  IInv'
<1> DEFINE k == call[c].key
<1>1. At(c, "bind") /\ Settled /\ UNCHANGED <<clock, preference, stripe>>
  BY Unchanging DEF Bind
<1>2. k \in Keys /\ attempt[k] # NoAttempt
  BY <1>1, Held DEF At, Holding
<1>3. CASE Move(k, "UNKNOWN") /\ Finish(c)
  BY <1>1, <1>2, <1>3, Moving DEF Settled, Statuses, InFlight, Unsent
<1>4. CASE UNCHANGED attempt /\ Finish(c)
  BY <1>1, <1>4, Finishing DEF Settled
<1>5. QED
  BY <1>1, <1>3, <1>4, BindCases, BindsKeeps

LEMMA AsideKeeps ==
    ASSUME IInv, NEW c \in Callers, Aside(c)
    PROVE  IInv'
<1>1. Settled /\ UNCHANGED <<clock, preference, attempt, stripe>>
  BY Unchanging DEF Aside
<1>2. call[c].pc = "aside" /\ call[c].cron # NoKey
  BY JobFields DEF Aside, At, Sound
<1>3. CASE Goto(c, "setaside")
  BY <1>1, <1>2, <1>3, Going DEF Settled, Places, Holding
<1>4. CASE Finish(c)
  BY <1>1, <1>4, Finishing DEF Settled
<1>5. QED
  BY <1>3, <1>4 DEF Aside

LEMMA SetAsideKeeps ==
    ASSUME IInv, NEW c \in Callers, SetAside(c)
    PROVE  IInv'
<1> DEFINE k == call[c].cron
<1>1. Settled /\ UNCHANGED <<clock, preference, stripe>> /\ Finish(c)
  BY Unchanging DEF SetAside
<1>2. k \in Keys /\ attempt[k] # NoAttempt
  BY JobFields DEF SetAside, At, Sound, Made
<1>3. CASE Move(k, "UNKNOWN")
  BY <1>1, <1>2, <1>3, Moving DEF Settled, Statuses, InFlight, Unsent
<1>4. CASE UNCHANGED attempt
  BY <1>1, <1>4, Finishing DEF Settled
<1>5. QED
  BY <1>3, <1>4 DEF SetAside

LEMMA FailKeeps ==
    ASSUME IInv, NEW c \in Callers, Fail(c)
    PROVE  IInv'
<1>1. Settled /\ UNCHANGED <<clock, preference, stripe>>
  BY Unchanging DEF Fail
<1>2. call[c].key \in Keys /\ attempt[call[c].key] # NoAttempt
  BY Held DEF Fail, At, Holding
<1>3. QED
  BY <1>1, <1>2, Moving DEF Fail, Settled, Statuses, InFlight, Unsent

LEMMA SyncKeeps ==
    ASSUME IInv, NEW c \in Callers, Sync(c)
    PROVE  IInv'
<1>1. call[c].price \in Plans
  BY JobFields DEF CallType
<1>2. plan' \in 0 .. MaxPlan /\ active' \in BOOLEAN /\ spare' \in Nat
  BY <1>1, UpgradeAssumption DEF Sync, setting, IInv, TypeOK, Plans
<1>3. QED
  BY <1>2, Finishing DEF Sync, setting

LEMMA ReviveKeeps ==
    ASSUME IInv, NEW c \in Callers, Revive(c)
    PROVE  IInv'
<1>1. plan' \in 0 .. MaxPlan /\ active' \in BOOLEAN /\ spare' \in Nat
  BY DEF Revive, setting, IInv, TypeOK
<1>2. QED
  BY <1>1, Finishing DEF Revive, setting

LEMMA OverdueKeeps ==
    ASSUME IInv, NEW c \in Callers, Overdue(c)
    PROVE  IInv'
<1>1. plan' \in 0 .. MaxPlan /\ active' \in BOOLEAN /\ spare' \in Nat
  BY DEF Overdue, setting, IInv, TypeOK
<1>2. QED
  BY <1>1, Finishing DEF Overdue, setting

LEMMA DropKeeps ==
    ASSUME IInv, NEW c \in Callers, Drop(c)
    PROVE  IInv'
<1>1. plan' \in 0 .. MaxPlan /\ active' \in BOOLEAN /\ spare' \in Nat
  <2>1. 0 \in 0 .. MaxPlan /\ plan' = 0 /\ active' = FALSE
    BY UpgradeAssumption DEF Drop
  <2>2. spare' \in Nat
    BY DEF Drop, setting, IInv, TypeOK
  <2>3. QED
    BY <2>1, <2>2
<1>2. QED
  BY <1>1, Finishing DEF Drop, setting

LEMMA DieKeeps ==
    ASSUME IInv, NEW c \in Callers, Die(c)
    PROVE  IInv'
<1>1. plan' \in 0 .. MaxPlan /\ active' \in BOOLEAN /\ spare' \in Nat
  BY DEF Die, entitlement, IInv, TypeOK
<1>2. QED
  BY <1>1, Finishing DEF Die

LEMMA StepKeeps ==
    ASSUME IInv, NEW c \in Callers, Step(c)
    PROVE  IInv'
<1>1. CASE StripeFails(c)
  BY <1>1, Finished DEF StripeFails
<1>2. QED
  BY <1>1, LookKeeps, ExpireKeeps, ProveKeeps, ApplyKeeps, ClaimKeeps, LapseKeeps,
     RetrieveKeeps, DispatchKeeps, HoldKeeps, UpdateKeeps, BindKeeps, AsideKeeps,
     SetAsideKeeps, FailKeeps, SyncKeeps, ReviveKeeps, DropKeeps,
     OverdueKeeps DEF Step

(* The webhook's functions start with an attempt that exists.              *)
LEMMA Starting ==
    ASSUME IInv, NEW c \in Callers, NEW k \in Keys, attempt[k] # NoAttempt,
           NEW place \in {"prove", "expire", "fail"}, Start(c, place, k), Settled,
           UNCHANGED <<clock, preference, attempt, stripe>>
    PROVE  IInv'
<1> DEFINE new == [Idle EXCEPT !.pc = place, !.key = k, !.now = clock]
<1>1. clock \in Nat /\ MaxDuration \in Nat
  BY UpgradeAssumption DEF IInv, TypeOK
<1>2. /\ new \in CallType /\ new.pc = place /\ new.key = k /\ new.now = clock
      /\ new.cron = NoKey
  BY <1>1, IdleJob DEF CallType, Places, Remote
<1> HIDE DEF new
<1>3. Sound(new, attempt, clock)
  BY <1>1, <1>2 DEF Sound, Made
<1>4. QED
  BY <1>2, <1>3, CallStep, SameAttempts DEF Start, Settled, new

(* Those that drop the plan or the activity need none.                     *)
LEMMA StartingAny ==
    ASSUME IInv, NEW c \in Callers, NEW k \in Keys \cup {NoKey},
           NEW place \in {"drop", "overdue"}, Start(c, place, k), Settled,
           UNCHANGED <<clock, preference, attempt, stripe>>
    PROVE  IInv'
<1> DEFINE new == [Idle EXCEPT !.pc = place, !.key = k, !.now = clock]
<1>1. clock \in Nat /\ MaxDuration \in Nat
  BY UpgradeAssumption DEF IInv, TypeOK
<1>2. /\ new \in CallType /\ new.pc = place /\ new.now = clock
      /\ new.cron = NoKey
  BY <1>1, IdleJob DEF CallType, Places
<1> HIDE DEF new
<1>3. Sound(new, attempt, clock)
  BY <1>1, <1>2 DEF Sound, Holding
<1>4. QED
  BY <1>2, <1>3, CallStep, SameAttempts DEF Start, Settled, new

LEMMA NewestAreMade ==
    ASSUME NEW S, NEW k \in Newest(S), "none" \notin S
    PROVE  k \in Keys /\ attempt[k] # NoAttempt
BY DEF Newest, Status

LEMMA ActiveAreMade ==
    ASSUME NEW k \in Active
    PROVE  k \in Keys /\ attempt[k] # NoAttempt
BY NewestAreMade DEF Active, Unsettled, InFlight

LEMMA HookedEvents ==
    ASSUME IInv, NEW c, NEW kind, NEW e \in Hook(c, kind)
    PROVE  /\ e.kind = kind /\ e.price \in Plans /\ e.key \in Keys \cup {NoKey}
           /\ kind \notin {"updated", "deleted"} => e.key \in Keys
           /\ e \in EventType
BY DEF Hook, IInv, TypeOK, EventsNameAttempts, EventType, EventKinds

LEMMA InvoicePaidKeeps ==
    ASSUME IInv, NEW c \in Callers, InvoicePaid(c)
    PROVE  IInv'
<1>1. Settled /\ UNCHANGED <<clock, preference, attempt, stripe>>
  BY Unchanging DEF InvoicePaid
<1>2. PICK e \in Hook(c, "paid") :
         call' = [call EXCEPT ![c] = [Idle EXCEPT !.key = e.key, !.now = clock, !.paid = TRUE,
             !.pc = IF e.key \in Active /\ attempt[e.key].bound THEN "prove" ELSE "revive"]]
  BY DEF InvoicePaid
<1> DEFINE place == IF e.key \in Active /\ attempt[e.key].bound THEN "prove" ELSE "revive"
           new == [Idle EXCEPT !.key = e.key, !.now = clock, !.paid = TRUE, !.pc = place]
<1>3. clock \in Nat /\ MaxDuration \in Nat /\ e.key \in Keys
  BY UpgradeAssumption, HookedEvents DEF IInv, TypeOK
<1>4. place \in {"prove", "revive"} /\ (place = "prove" => attempt[e.key] # NoAttempt)
  BY ActiveAreMade
<1>5. call' = [call EXCEPT ![c] = new]
  BY <1>2
<1> HIDE DEF place
<1>6. /\ new \in CallType /\ new.pc = place /\ new.key = e.key /\ new.now = clock
      /\ new.cron = NoKey
  BY <1>3, <1>4, IdleJob DEF CallType, Places, Remote
<1> HIDE DEF new
<1>7. Sound(new, attempt, clock)
  BY <1>3, <1>4, <1>6 DEF Sound, Made, Holding
<1>8. QED
  BY <1>1, <1>5, <1>6, <1>7, CallStep, SameAttempts DEF Settled

LEMMA PaymentFailedKeeps ==
    ASSUME IInv, NEW c \in Callers, PaymentFailed(c)
    PROVE  IInv'
<1>1. Settled /\ UNCHANGED <<clock, preference, attempt, stripe>>
  BY Unchanging DEF PaymentFailed
<1>2. CASE \E e \in Hook(c, "failed") : attempt[e.key] # NoAttempt /\ Start(c, "fail", e.key)
  BY <1>1, <1>2, HookedEvents, Starting
<1>3. CASE \E e \in Hook(c, "failed") : Start(c, "overdue", e.key)
  BY <1>1, <1>3, HookedEvents, StartingAny
<1>4. QED
  BY <1>2, <1>3 DEF PaymentFailed

LEMMA SubscriptionUpdatedKeeps ==
    ASSUME IInv, NEW c \in Callers, SubscriptionUpdated(c)
    PROVE  IInv'
<1>1. Settled /\ UNCHANGED <<clock, preference, attempt, stripe>>
  BY Unchanging DEF SubscriptionUpdated
<1>2. CASE \E k \in Active : Start(c, "prove", k)
  BY <1>1, <1>2, ActiveAreMade, Starting
<1>3. ASSUME NEW price \in Plans,
             call' = [call EXCEPT ![c] = [Idle EXCEPT !.pc = "sync", !.now = clock,
                                                     !.price = price]]
      PROVE  IInv'
  <2> DEFINE new == [Idle EXCEPT !.pc = "sync", !.now = clock, !.price = price]
  <2>1. clock \in Nat /\ MaxDuration \in Nat
    BY UpgradeAssumption DEF IInv, TypeOK
  <2>2. new \in CallType /\ new.pc = "sync" /\ new.now = clock /\ new.cron = NoKey
    BY <2>1, IdleJob DEF CallType, Places
  <2> HIDE DEF new
  <2>3. Sound(new, attempt, clock)
    BY <2>1, <2>2 DEF Sound, Holding
  <2>4. QED
    BY <1>1, <1>3, <2>2, <2>3, CallStep, SameAttempts DEF Settled, new
<1>4. remote.price \in Plans /\ Updated(remote.price, remote.latest).price = remote.price
  BY DEF IInv, TypeOK, Updated
<1>5. QED
  BY <1>2, <1>3, <1>4, HookedEvents DEF SubscriptionUpdated

LEMMA SubscriptionDeletedKeeps ==
    ASSUME IInv, NEW c \in Callers, SubscriptionDeleted(c)
    PROVE  IInv'
<1>1. Settled /\ UNCHANGED <<clock, preference, attempt, stripe>>
  BY Unchanging DEF SubscriptionDeleted
<1>2. QED
  BY <1>1, HookedEvents, StartingAny DEF SubscriptionDeleted

LEMMA PendingUpdateExpiredKeeps ==
    ASSUME IInv, NEW c \in Callers, PendingUpdateExpired(c)
    PROVE  IInv'
<1>1. Settled /\ UNCHANGED <<clock, preference, attempt, stripe>>
  BY Unchanging DEF PendingUpdateExpired
<1>2. QED
  BY <1>1, ActiveAreMade, Starting DEF PendingUpdateExpired

LEMMA ProducerKeeps ==
    ASSUME IInv, NEW c \in Callers, Producer(c)
    PROVE  IInv'
BY BeginKeeps DEF Producer

LEMMA SchedulerKeeps ==
    ASSUME IInv, NEW c \in Callers, NEW k \in Keys, Scheduler(c, k)
    PROVE  IInv'
<1> DEFINE dispatched == IF Status(k) = "DISPATCHING" THEN k ELSE NoKey
<1>1. k[1] \in Months /\ Begin(c, k[1], dispatched)
  BY DEF Scheduler, Keys
<1>2. dispatched # NoKey => Made(attempt, dispatched)
  BY DEF Made, Status
<1>3. dispatched \in Keys \cup {NoKey}
  OBVIOUS
<1>4. QED
  BY <1>1, <1>2, <1>3, BeginKeeps

-----------------------------------------------------------------------------
(* Stripe, its customer, the owner and time.                               *)

LEMMA EventFields ==
    ASSUME NEW k \in Keys, NEW kind \in {"paid", "failed", "expired"},
           NEW price \in Plans, NEW latest \in Keys \cup {NoKey}
    PROVE  /\ From(k) \in Plans /\ To(k) \in Plans
           /\ About(kind, k) \in EventType /\ About(kind, k).key \in Keys
           /\ Updated(price, latest) \in EventType /\ Updated(price, latest).kind = "updated"
<1>1. From(k) \in Plans /\ To(k) \in Plans
  BY UpgradeAssumption DEF From, To, Keys, Plans
<1>2. QED
  BY <1>1 DEF About, Updated, EventType, EventKinds

(* Stripe's own steps add well-formed events.                              *)
LEMMA Reporting ==
    ASSUME IInv, NEW new \in SUBSET EventType,
           \A e \in new : e.kind \notin {"updated", "deleted"} => e.key \in Keys,
           events' = events \cup new, remote' \in RemoteType,
           invoice' \in [Keys -> {"none", "open", "paid", "void"}], spare' \in Nat,
           UNCHANGED <<clock, preference, entitlement, attempt, call, sent, charges>>
    PROVE  IInv'
<1>1. TypeOK'
  BY DEF IInv, TypeOK, RemoteType, EventType, EventKinds, entitlement
<1>2. EventsNameAttempts'
  BY DEF IInv, EventsNameAttempts
<1>3. QED
  BY <1>1, <1>2, QuietStep

LEMMA PaymentSettlesKeeps ==
    ASSUME IInv, NEW k \in Keys, PaymentSettles(k)
    PROVE  IInv'
<1>1. /\ UNCHANGED <<clock, preference, entitlement, attempt, call, sent, charges>>
      /\ spare' \in Nat
  BY DEF PaymentSettles, setting, IInv, TypeOK
<1>2. /\ remote \in RemoteType /\ remote.latest \in Keys \cup {NoKey}
      /\ invoice \in [Keys -> {"none", "open", "paid", "void"}]
  BY DEF IInv, TypeOK, RemoteType
<1>3. CASE /\ remote' = [remote EXCEPT !.price = To(k), !.pending = NoKey]
           /\ invoice' = [invoice EXCEPT ![k] = "paid"]
           /\ events' = events \cup {About("paid", k), Updated(To(k), remote.latest)}
  <2>1. To(k) \in Plans
    BY <1>2, EventFields, UpgradeAssumption DEF Plans, To, Keys
  <2>2. /\ remote' \in RemoteType
        /\ invoice' \in [Keys -> {"none", "open", "paid", "void"}]
    BY <1>2, <1>3, <2>1 DEF RemoteType
  <2>3. {About("paid", k), Updated(To(k), remote.latest)} \in SUBSET EventType
    BY <1>2, <2>1, EventFields
  <2>4. \A e \in {About("paid", k), Updated(To(k), remote.latest)} :
            e.kind \notin {"updated", "deleted"} => e.key \in Keys
    BY <1>2, <2>1, EventFields
  <2>5. QED
    BY <1>1, <1>3, <2>2, <2>3, <2>4, Reporting
<1>4. ASSUME NEW kind \in {"failed", "expired"}, events' = events \cup {About(kind, k)},
             remote' \in RemoteType, invoice' \in [Keys -> {"none", "open", "paid", "void"}]
      PROVE  IInv'
  <2>1. {About(kind, k)} \in SUBSET EventType /\ About(kind, k).key \in Keys
    BY <1>2, EventFields DEF RemoteType
  <2>2. QED
    BY <1>1, <1>4, <2>1, Reporting
<1>5. CASE remote' = [remote EXCEPT !.pending = NoKey] /\ invoice' = [invoice EXCEPT ![k] = "void"]
           /\ events' = events \cup {About("expired", k)}
  <2>1. /\ remote' \in RemoteType
        /\ invoice' \in [Keys -> {"none", "open", "paid", "void"}]
    BY <1>2, <1>5 DEF RemoteType
  <2>2. QED
    BY <1>4, <1>5, <2>1
<1>6. CASE events' = events \cup {About("failed", k)} /\ UNCHANGED <<remote, invoice>>
  BY <1>2, <1>4, <1>6
<1>7. QED
  BY <1>3, <1>5, <1>6 DEF PaymentSettles

LEMMA InvoiceSettlesKeeps ==
    ASSUME IInv, NEW k \in Keys, InvoiceSettles(k)
    PROVE  IInv'
<1>1. /\ UNCHANGED <<clock, preference, entitlement, attempt, call, sent, charges>>
      /\ spare' \in Nat /\ remote' \in RemoteType
  BY DEF InvoiceSettles, setting, IInv, TypeOK, RemoteType
<1>2. invoice' \in [Keys -> {"none", "open", "paid", "void"}]
  BY DEF InvoiceSettles, IInv, TypeOK
<1>3. PICK kind \in {"paid", "failed"} : events' = events \cup {About(kind, k)}
  BY DEF InvoiceSettles
<1>4. {About(kind, k)} \in SUBSET EventType /\ About(kind, k).key \in Keys
  BY <1>3, EventFields DEF IInv, TypeOK
<1>5. QED
  BY <1>1, <1>2, <1>3, <1>4, Reporting

LEMMA DowngradeKeeps ==
    ASSUME IInv, Downgrade
    PROVE  IInv'
<1>1. /\ UNCHANGED <<clock, preference, entitlement, attempt, call, invoice, sent, charges>>
      /\ spare' \in Nat /\ remote \in RemoteType /\ remote.price \in Plans
      /\ remote.latest \in Keys \cup {NoKey}
      /\ invoice' \in [Keys -> {"none", "open", "paid", "void"}]
  BY DEF Downgrade, IInv, TypeOK, RemoteType
<1>2. PICK price \in 1 .. remote.price - 1 :
         /\ remote' = [remote EXCEPT !.price = price]
         /\ events' = events \cup {Updated(price, remote.latest)}
  BY DEF Downgrade
<1>3. price \in Plans
  BY <1>1, <1>2, UpgradeAssumption DEF Plans
<1>4. remote' \in RemoteType
  BY <1>1, <1>2, <1>3 DEF RemoteType
<1>5. /\ {Updated(price, remote.latest)} \in SUBSET EventType
      /\ Updated(price, remote.latest).kind = "updated"
  BY <1>1, <1>3 DEF Updated, EventType, EventKinds
<1>6. QED
  BY <1>1, <1>2, <1>4, <1>5, Reporting

LEMMA CancelKeeps ==
    ASSUME IInv, Cancel
    PROVE  IInv'
<1> DEFINE e == [kind |-> "deleted", price |-> remote.price, key |-> remote.latest]
<1>1. /\ UNCHANGED <<clock, preference, entitlement, attempt, call, sent, charges>>
      /\ spare' \in Nat /\ remote' \in RemoteType /\ e \in EventType
      /\ invoice' \in [Keys -> {"none", "open", "paid", "void"}]
  <2>1. /\ remote \in RemoteType /\ invoice \in [Keys -> {"none", "open", "paid", "void"}]
        /\ spare \in Nat
    BY DEF IInv, TypeOK, RemoteType
  <2>2. remote' \in RemoteType /\ e \in EventType
    BY <2>1 DEF Cancel, RemoteType, EventType, EventKinds
  <2>3. invoice' \in [Keys -> {"none", "open", "paid", "void"}] /\ spare' \in Nat
    BY <2>1 DEF Cancel
  <2>4. QED
    BY <2>2, <2>3 DEF Cancel
<1>2. events' = events \cup {e} /\ e.kind = "deleted"
  BY DEF Cancel
<1> HIDE DEF e
<1>3. {e} \in SUBSET EventType /\ \A f \in {e} : f.kind = "deleted"
  BY <1>1, <1>2
<1>4. QED
  BY <1>1, <1>2, <1>3, Reporting

LEMMA RenewalKeeps ==
    ASSUME IInv, Renewal
    PROVE  IInv'
<1>1. remote' \in [price: Plans, pending: Keys \cup {NoKey}, latest: Keys \cup {NoKey},
                  live: BOOLEAN]
  BY DEF Renewal, IInv, TypeOK
<1>2. active' \in BOOLEAN /\ spare' \in Nat
  BY DEF Renewal, IInv, TypeOK
<1>3. UNCHANGED <<clock, preference, plan, attempt, call, invoice, sent, charges, events>>
  BY DEF Renewal
<1>4. TypeOK' /\ EventsNameAttempts'
  BY <1>1, <1>2, <1>3 DEF IInv, TypeOK, EventsNameAttempts
<1>5. QED
  BY <1>3, <1>4, QuietStep DEF Renewal

LEMMA LatePaymentKeeps ==
    ASSUME IInv, LatePayment
    PROVE  IInv'
<1>1. TypeOK' /\ EventsNameAttempts'
  BY DEF LatePayment, setting, stripe, IInv, TypeOK, EventsNameAttempts
<1>2. QED
  BY <1>1, QuietStep DEF LatePayment, setting, stripe

LEMMA SavePreferenceKeeps ==
    ASSUME IInv, SavePreference
    PROVE  IInv'
<1>1. TypeOK' /\ EventsNameAttempts'
  BY DEF SavePreference, entitlement, stripe, IInv, TypeOK, EventsNameAttempts
<1>2. QED
  BY <1>1, QuietStep DEF SavePreference, stripe

(* Time passes only as far as the functions under way may live.            *)
LEMMA TickKeeps ==
    ASSUME IInv, Tick
    PROVE  IInv'
<1>1. TypeOK'
  BY DEF Tick, entitlement, stripe, IInv, TypeOK
<1>2. CallsAreSound'
  <2> SUFFICES ASSUME NEW c \in Callers
               PROVE  Sound(call[c], attempt, clock + 1)
    BY DEF Tick, CallsAreSound
  <2>1. call[c] \in CallType /\ Sound(call[c], attempt, clock)
    BY JobFields
  <2>2. clock \in Nat /\ MaxDuration \in Nat /\ call[c].now \in Nat
    BY <2>1, UpgradeAssumption DEF IInv, TypeOK, CallType
  <2>3. call[c].pc # "idle" => call[c].now <= clock + 1 /\ clock + 1 <= call[c].now + MaxDuration
    BY <2>1, <2>2 DEF Tick, At, Sound
  <2>4. QED
    BY <2>1, <2>3 DEF Sound
<1>3. AttemptsArePast'
  <2> SUFFICES ASSUME NEW k \in Keys, attempt[k] # NoAttempt
               PROVE  attempt[k].createdAt <= clock + 1
    BY DEF Tick, AttemptsArePast
  <2>1. attempt[k].createdAt \in Nat /\ clock \in Nat /\ attempt[k].createdAt <= clock
    BY AttemptFields DEF IInv, TypeOK, AttemptsArePast
  <2>2. QED
    BY <2>1
<1>4. EventsNameAttempts' /\ Ledger'
  BY DEF Tick, stripe, IInv, EventsNameAttempts, Ledger, Booked
<1>5. QED
  BY <1>1, <1>2, <1>3, <1>4 DEF IInv

-----------------------------------------------------------------------------
LEMMA InitHolds == Init => IInv
<1> SUFFICES ASSUME Init
             PROVE  IInv
  OBVIOUS
<1>1. 1 \in Plans /\ 1 \in 0 .. MaxPlan /\ 0 \in Nat /\ MaxSpare \in Nat
  BY UpgradeAssumption DEF Plans
<1>2. TypeOK
  BY <1>1, IdleJob DEF Init, TypeOK, CallType
<1>3. CallsAreSound
  BY IdleJob DEF Init, CallsAreSound
<1>4. AttemptsArePast /\ EventsNameAttempts /\ Ledger
  BY DEF Init, AttemptsArePast, EventsNameAttempts, Ledger, Booked
<1>5. QED
  BY <1>2, <1>3, <1>4 DEF IInv

LEMMA StutterKeeps == IInv /\ UNCHANGED vars => IInv'
BY DEF vars, IInv, TypeOK, CallsAreSound, AttemptsArePast, EventsNameAttempts, Ledger, Booked

LEMMA NextHolds == IInv /\ [Next]_vars => IInv'
<1>1. ASSUME IInv, NEW c \in Callers, Webhook(c)
      PROVE  IInv'
  BY <1>1, InvoicePaidKeeps, PaymentFailedKeeps, SubscriptionUpdatedKeeps,
     SubscriptionDeletedKeeps, PendingUpdateExpiredKeeps DEF Webhook
<1>2. ASSUME IInv, World
      PROVE  IInv'
  BY <1>2, PaymentSettlesKeeps, InvoiceSettlesKeeps, RenewalKeeps, LatePaymentKeeps,
     DowngradeKeeps, CancelKeeps, SavePreferenceKeeps, TickKeeps DEF World
<1>3. QED
  BY <1>1, <1>2, StepKeeps, ProducerKeeps, DieKeeps, SchedulerKeeps, StutterKeeps DEF Next

LEMMA Invariant == Spec => []IInv
BY InitHolds, NextHolds, PTL DEF Spec

(* Every reachable state of attempts, functions and Stripe is well typed.  *)
THEOREM TypeCorrect == Spec => []TypeOK
<1>1. IInv => TypeOK
  BY DEF IInv
<1>2. QED
  BY <1>1, Invariant, PTL

(* However many functions take an attempt over and however many answers    *)
(* are lost, its change is charged at most once: requests leave within the *)
(* retry window and a function's duration, and Stripe remembers the key    *)
(* that long.                                                              *)
THEOREM ChargedOnce == Spec => []OneChargePerAttempt
<1>1. IInv => OneChargePerAttempt
  BY DEF IInv, Ledger, Booked, OneChargePerAttempt, TypeOK
<1>2. QED
  BY <1>1, Invariant, PTL

(* An attempt whose change may have been charged never becomes a harmless  *)
(* cancel: dispatch comes before the change, and only undispatched         *)
(* attempts are canceled, by the status read.                              *)
THEOREM ChargesStayHeld == Spec => []ChargesAreHeld
<1>1. IInv => ChargesAreHeld
  <2> SUFFICES ASSUME IInv, NEW k \in Keys, charges[k] > 0
               PROVE  Status(k) \notin {"none", "CLAIMED", "CANCELED"}
    BY DEF ChargesAreHeld
  <2>1. sent[k].used
    BY DEF IInv, Ledger, Booked
  <2>2. attempt[k] \in Attempts /\ attempt[k].status \notin Unsent
    BY <2>1 DEF IInv, Ledger, Booked, TypeOK
  <2>3. QED
    BY <2>2, NullAssumption DEF Status, Unsent, Attempts, Statuses, InFlight
<1>2. QED
  BY <1>1, Invariant, PTL

-----------------------------------------------------------------------------
(***************************************************************************)
(* What raises the plan.  Every price Stripe shows or reports is the first *)
(* one or that of a change it carried out; every plan the organization has *)
(* had from the first one up to now, or a change started from, is earned.  *)
(***************************************************************************)
Reached(n) == \A p \in 2 .. n : Earned(p)
Known(p) == p = 1 \/ \E k \in Keys : To(k) = p /\ sent[k].used

InvoicesAreSent == \A k \in Keys : invoice[k] # "none" => sent[k].used
PendingIsOpen == \A k \in Keys : remote.pending = k => invoice[k] = "open"
PricesAreKnown ==
    /\ Known(remote.price)
    /\ \A e \in events : e.kind = "updated" => Known(e.price)
CallsHaveProof ==
    \A c \in Callers : /\ call[c].pc = "apply" => invoice[call[c].key] = "paid"
                       /\ call[c].pc = "sync" => Reached(call[c].price)
AppliedIsPaid ==
    \A k \in Keys : attempt[k] # NoAttempt /\ attempt[k].status = "APPLIED" => invoice[k] = "paid"
StartsAreReached == \A k \in Keys : attempt[k] # NoAttempt => Reached(From(k))

PInv ==
    /\ InvoicesAreSent /\ PendingIsOpen /\ PricesAreKnown
    /\ CallsHaveProof /\ AppliedIsPaid
    /\ Reached(plan) /\ StartsAreReached

(* What Stripe has booked, and attempts, stay.                             *)
BooksStay ==
    /\ \A k \in Keys : invoice[k] = "paid" => invoice'[k] = "paid"
    /\ \A k \in Keys : sent[k].used => sent'[k].used
RowsStay ==
    \A k \in Keys : attempt[k] # NoAttempt => /\ attempt'[k] # NoAttempt
                                             /\ attempt'[k].createdAt = attempt[k].createdAt

LEMMA EarnedStays ==
    ASSUME IInv, BooksStay, RowsStay, NEW p, Earned(p)
    PROVE  Earned(p)'
<1>1. CASE Paid(p)
  BY <1>1 DEF Paid, BooksStay, Earned
<1>2. ASSUME NEW k \in Keys, To(k) = p, Overtaken(k)
      PROVE  Earned(p)'
  <2>1. PICK j \in Keys : /\ attempt[j] # NoAttempt /\ From(j) < From(k)
                          /\ attempt[j].createdAt >= attempt[k].createdAt
    BY <1>2 DEF Overtaken
  <2>2. sent[k].used /\ attempt[k] # NoAttempt
    BY <1>2 DEF Overtaken, IInv, Ledger, Booked
  <2>3. Overtaken(k)'
    BY <2>1, <2>2 DEF Overtaken, BooksStay, RowsStay
  <2>4. QED
    BY <1>2, <2>3 DEF Earned
<1>3. QED
  BY <1>1, <1>2 DEF Earned

(* A step, by what it does to each part.                                   *)
LEMMA EarningStep ==
    ASSUME IInv, PInv, BooksStay, RowsStay,
           InvoicesAreSent', PendingIsOpen', PricesAreKnown', Reached(plan'),
           \A k \in Keys : attempt[k] = NoAttempt /\ attempt'[k] # NoAttempt => From(k) = plan,
           \A k \in Keys : attempt'[k] # NoAttempt /\ attempt'[k].status = "APPLIED" =>
               invoice[k] = "paid",
           \A c \in Callers :
               /\ call'[c].pc = "apply" =>
                      call'[c].key \in Keys /\ invoice[call'[c].key] = "paid"
               /\ call'[c].pc = "sync" => Reached(call'[c].price)
    PROVE  PInv'
<1>1. \A n : Reached(n) => \A p \in 2 .. n : Earned(p)'
  BY EarnedStays DEF Reached
<1>2. Reached(plan)'
  BY <1>1 DEF Reached
<1>3. CallsHaveProof'
  <2> SUFFICES ASSUME NEW c \in Callers
               PROVE  /\ call'[c].pc = "apply" => invoice'[call'[c].key] = "paid"
                      /\ call'[c].pc = "sync" => \A p \in 2 .. call'[c].price : Earned(p)'
    BY DEF CallsHaveProof, Reached
  <2>1. QED
    BY <1>1 DEF BooksStay
<1>4. AppliedIsPaid'
  BY DEF AppliedIsPaid, BooksStay
<1>5. StartsAreReached'
  <2> SUFFICES ASSUME NEW k \in Keys, attempt'[k] # NoAttempt
               PROVE  \A p \in 2 .. From(k) : Earned(p)'
    BY DEF StartsAreReached, Reached, From
  <2>1. Reached(From(k))
    BY DEF PInv, StartsAreReached
  <2>2. QED
    BY <1>1, <2>1
<1>6. QED
  BY <1>2, <1>3, <1>4, <1>5 DEF PInv

(* Functions that neither prove nor apply anything: what they leave of the *)
(* calls and of the attempts.                                              *)
Doubtful == {"apply", "sync"}
OthersWait(c) == \A d \in Callers : d # c => call'[d] = call[d]
NothingApplied ==
    \A k \in Keys : attempt'[k] # NoAttempt =>
        /\ attempt[k] = NoAttempt => From(k) = plan /\ attempt'[k].status # "APPLIED"
        /\ attempt[k] # NoAttempt /\ attempt'[k].status = "APPLIED" =>
               attempt[k].status = "APPLIED"

LEMMA BooksStayShut ==
    ASSUME PInv, UNCHANGED stripe
    PROVE  BooksStay /\ InvoicesAreSent' /\ PendingIsOpen' /\ PricesAreKnown'
BY DEF PInv, stripe, BooksStay, InvoicesAreSent, PendingIsOpen, PricesAreKnown, Known

LEMMA StillEarned ==
    ASSUME IInv, PInv, UNCHANGED <<plan, attempt, call, stripe>>
    PROVE  PInv'
BY DEF PInv, stripe, InvoicesAreSent, PendingIsOpen, PricesAreKnown, Known, CallsHaveProof,
       AppliedIsPaid, StartsAreReached, Reached, Earned, Paid, Overtaken

LEMMA ProofOfCalls ==
    ASSUME IInv, PInv, NEW c \in Callers
    PROVE  /\ call[c].pc = "apply" =>
                  call[c].key \in Keys /\ invoice[call[c].key] = "paid"
           /\ call[c].pc = "sync" => Reached(call[c].price)
<1>1. call[c].pc = "apply" => call[c].key \in Keys
  BY Held DEF Holding
<1>2. QED
  BY <1>1 DEF PInv, CallsHaveProof

LEMMA PlainStep ==
    ASSUME IInv, PInv, NEW c \in Callers, RowsStay, NothingApplied, OthersWait(c),
           call'[c].pc \notin Doubtful, UNCHANGED <<plan, stripe>>
    PROVE  PInv'
<1>1. Reached(plan')
  BY DEF PInv
<1>2. \A k \in Keys : attempt'[k] # NoAttempt /\ attempt'[k].status = "APPLIED" =>
          invoice[k] = "paid"
  BY DEF NothingApplied, PInv, AppliedIsPaid
<1>3. \A k \in Keys : attempt[k] = NoAttempt /\ attempt'[k] # NoAttempt => From(k) = plan
  BY DEF NothingApplied
<1>4. \A d \in Callers :
          /\ call'[d].pc = "apply" => call'[d].key \in Keys /\ invoice[call'[d].key] = "paid"
          /\ call'[d].pc = "sync" => Reached(call'[d].price)
  BY ProofOfCalls DEF OthersWait, Doubtful
<1>5. QED
  BY <1>1, <1>2, <1>3, <1>4, EarningStep, BooksStayShut

LEMMA RowsUnchanged ==
    ASSUME UNCHANGED attempt
    PROVE  RowsStay /\ NothingApplied
BY DEF RowsStay, NothingApplied

LEMMA RowMoved ==
    ASSUME IInv, NEW k \in Keys, attempt[k] # NoAttempt, NEW status \in Statuses,
           status # "APPLIED", Move(k, status)
    PROVE  RowsStay /\ NothingApplied
<1>1. attempt \in AttemptType /\ attempt[k] \in Attempts
  BY SameAttempts DEF AttemptType
<1>2. /\ [attempt[k] EXCEPT !.status = status] \in Attempts
      /\ [attempt[k] EXCEPT !.status = status].status = status
      /\ [attempt[k] EXCEPT !.status = status].createdAt = attempt[k].createdAt
  BY <1>1 DEF Attempts
<1>3. attempt'[k] = [attempt[k] EXCEPT !.status = status] /\ attempt'[k] # NoAttempt
  BY <1>1, <1>2, NullAssumption DEF Move, AttemptType
<1>4. \A j \in Keys : j # k => attempt'[j] = attempt[j]
  BY <1>1 DEF Move, AttemptType
<1>5. QED
  BY <1>2, <1>3, <1>4 DEF RowsStay, NothingApplied

(* Of functions that end, or go on to a place that proves nothing.         *)
LEMMA CallPlaced ==
    ASSUME IInv, NEW c \in Callers, NEW job, call' = [call EXCEPT ![c] = job]
    PROVE  OthersWait(c) /\ call'[c] = job
BY DEF IInv, TypeOK, OthersWait

LEMMA CallFinished ==
    ASSUME IInv, NEW c \in Callers, Finish(c)
    PROVE  OthersWait(c) /\ call'[c].pc \notin Doubtful
BY CallPlaced, IdleJob DEF Finish, Doubtful

LEMMA CallGone ==
    ASSUME IInv, NEW c \in Callers, NEW place, Goto(c, place), place \notin Doubtful
    PROVE  OthersWait(c) /\ call'[c].pc \notin Doubtful
<1>1. call' = [call EXCEPT ![c] = [call[c] EXCEPT !.pc = place]]
  BY DEF Goto, IInv, TypeOK
<1>2. [call[c] EXCEPT !.pc = place].pc = place
  BY JobFields DEF CallType
<1>3. QED
  BY <1>1, <1>2, CallPlaced

LEMMA JobStarted ==
    ASSUME IInv, NEW c \in Callers, NEW place, NEW k, Start(c, place, k), place \notin Doubtful
    PROVE  OthersWait(c) /\ call'[c].pc \notin Doubtful
<1>1. call' = [call EXCEPT ![c] = [Idle EXCEPT !.pc = place, !.key = k, !.now = clock]]
  BY DEF Start
<1>2. [Idle EXCEPT !.pc = place, !.key = k, !.now = clock].pc = place
  BY DEF Idle
<1>3. QED
  BY <1>1, <1>2, CallPlaced

-----------------------------------------------------------------------------
(* The actions again, for what they leave of the plan's justification.     *)
LEMMA Ending ==
    ASSUME IInv, PInv, NEW c \in Callers, Finish(c),
           UNCHANGED <<plan, attempt, stripe>>
    PROVE  PInv'
BY PlainStep, RowsUnchanged, CallFinished

LEMMA Leaving ==
    ASSUME IInv, PInv, NEW c \in Callers, NEW place, Goto(c, place), place \notin Doubtful,
           UNCHANGED <<plan, attempt, stripe>>
    PROVE  PInv'
BY PlainStep, RowsUnchanged, CallGone

LEMMA Marking ==
    ASSUME IInv, PInv, NEW c \in Callers, Finish(c), UNCHANGED <<plan, stripe>>,
           NEW k \in Keys, attempt[k] # NoAttempt, NEW status \in Statuses,
           status # "APPLIED", Move(k, status)
    PROVE  PInv'
BY PlainStep, RowMoved, CallFinished

LEMMA Launching ==
    ASSUME IInv, PInv, NEW c \in Callers, NEW place, NEW k, Start(c, place, k),
           place \notin Doubtful, UNCHANGED <<plan, attempt, stripe>>
    PROVE  PInv'
BY PlainStep, RowsUnchanged, JobStarted

LEMMA BeginEarns ==
    ASSUME IInv, PInv, NEW c \in Callers, NEW m \in Months, NEW dispatched,
           Begin(c, m, dispatched)
    PROVE  PInv'
<1> DEFINE job == [Idle EXCEPT !.now = clock, !.cron = dispatched]
<1>1. UNCHANGED <<plan, attempt, stripe>>
  BY DEF Begin, entitlement
<1>2. ASSUME NEW new, call' = [call EXCEPT ![c] = new], new.pc \notin Doubtful
      PROVE  PInv'
  BY <1>1, <1>2, PlainStep, RowsUnchanged, CallPlaced
<1>3. ASSUME NEW k, NEW place \in {"prove", "look"},
             call' = [call EXCEPT ![c] = [job EXCEPT !.key = k, !.pc = place]]
      PROVE  PInv'
  <2>1. [job EXCEPT !.key = k, !.pc = place].pc = place
    BY DEF Idle
  <2>2. QED
    BY <1>2, <1>3, <2>1 DEF Doubtful
<1>4. ASSUME NEW k, NEW version,
             call' = [call EXCEPT ![c] = [job EXCEPT !.pc = "claim", !.key = k,
                                                     !.consent = version]]
      PROVE  PInv'
  <2>1. [job EXCEPT !.pc = "claim", !.key = k, !.consent = version].pc = "claim"
    BY DEF Idle
  <2>2. QED
    BY <1>2, <1>4, <2>1 DEF Doubtful
<1>5. ASSUME call' = [call EXCEPT ![c] = [job EXCEPT !.pc = "aside"]]
      PROVE  PInv'
  <2>1. [job EXCEPT !.pc = "aside"].pc = "aside"
    BY DEF Idle
  <2>2. QED
    BY <1>2, <1>5, <2>1 DEF Doubtful
<1>6. ASSUME call' = [call EXCEPT ![c] = Idle]
      PROVE  PInv'
  BY <1>1, <1>6, Ending DEF Finish
<1>7. CASE \E k, place : /\ place \in {"prove", "look"}
                         /\ call' = [call EXCEPT ![c] = [job EXCEPT !.key = k, !.pc = place]]
  BY <1>3, <1>7
<1>8. CASE call' = [call EXCEPT ![c] = [job EXCEPT !.pc = "claim", !.key = <<m, plan>>,
                                                  !.consent = preference.version]]
  BY <1>4, <1>8
<1>9. QED
  BY <1>5, <1>6, <1>7, <1>8 DEF Begin

LEMMA LookEarns ==
    ASSUME IInv, PInv, NEW c \in Callers, Look(c)
    PROVE  PInv'
BY Leaving, Ending DEF Look, entitlement, Doubtful

LEMMA ExpireEarns ==
    ASSUME IInv, PInv, NEW c \in Callers, Expire(c)
    PROVE  PInv'
<1>1. call[c].key \in Keys /\ attempt[call[c].key] # NoAttempt
  BY Held DEF Expire, At, Holding
<1>2. QED
  BY <1>1, Marking, Ending DEF Expire, entitlement, Statuses

LEMMA FailEarns ==
    ASSUME IInv, PInv, NEW c \in Callers, Fail(c)
    PROVE  PInv'
<1>1. call[c].key \in Keys /\ attempt[call[c].key] # NoAttempt
  BY Held DEF Fail, At, Holding
<1>2. QED
  BY <1>1, Marking DEF Fail, entitlement, Statuses, InFlight

LEMMA GivenUpEarns ==
    ASSUME IInv, PInv, NEW c \in Callers, Lapse(c) \/ Hold(c)
    PROVE  PInv'
<1>1. call[c].key \in Keys /\ attempt[call[c].key] # NoAttempt
  BY Held DEF Lapse, Hold, At, Holding
<1>2. Terminal(call[c].status) \in Statuses /\ Terminal(call[c].status) # "APPLIED"
  BY DEF Terminal, Statuses, InFlight
<1>3. QED
  BY <1>1, <1>2, Marking, Ending DEF Lapse, Hold, entitlement

LEMMA RetrieveEarns ==
    ASSUME IInv, PInv, NEW c \in Callers, Retrieve(c)
    PROVE  PInv'
BY Leaving DEF Retrieve, entitlement, Doubtful

LEMMA AsideEarns ==
    ASSUME IInv, PInv, NEW c \in Callers, Aside(c)
    PROVE  PInv'
BY Leaving, Ending DEF Aside, entitlement, Doubtful

LEMMA SetAsideEarns ==
    ASSUME IInv, PInv, NEW c \in Callers, SetAside(c)
    PROVE  PInv'
<1>1. call[c].cron \in Keys /\ attempt[call[c].cron] # NoAttempt
  BY JobFields DEF SetAside, At, Sound, Made
<1>2. QED
  BY <1>1, Marking, Ending DEF SetAside, entitlement, Statuses, InFlight

LEMMA QuietEndEarns ==
    ASSUME IInv, PInv, NEW c \in Callers, Revive(c) \/ Overdue(c) \/ StripeFails(c) \/ Die(c)
    PROVE  PInv'
BY Ending DEF Revive, Overdue, StripeFails, Die, entitlement

LEMMA UnprovedEarns ==
    ASSUME IInv, PInv, NEW c \in Callers, Unproved(c), UNCHANGED <<plan, attempt, stripe>>
    PROVE  PInv'
BY Leaving, Ending DEF Unproved, Doubtful

LEMMA DeclineEarns ==
    ASSUME IInv, PInv, NEW c \in Callers, Decline(c), UNCHANGED <<plan, attempt, stripe>>
    PROVE  PInv'
BY Leaving, Ending DEF Decline, Doubtful

(* A function that goes on to apply has seen the paid invoice.             *)
LEMMA ProveEarns ==
    ASSUME IInv, PInv, NEW c \in Callers, Prove(c)
    PROVE  PInv'
<1> DEFINE k == call[c].key
<1>1. UNCHANGED <<plan, attempt, stripe>>
  BY DEF Prove, entitlement
<1>2. CASE ProofHolds(k) /\ Goto(c, "apply")
  <2>1. k \in Keys /\ call[c] \in CallType
    BY Held, JobFields DEF Prove, At, Holding
  <2>2. call' = [call EXCEPT ![c] = [call[c] EXCEPT !.pc = "apply"]]
    BY <1>2 DEF Goto, IInv, TypeOK
  <2>3. OthersWait(c) /\ call'[c].pc = "apply" /\ call'[c].key = k
    <3>1. /\ [call[c] EXCEPT !.pc = "apply"].pc = "apply"
          /\ [call[c] EXCEPT !.pc = "apply"].key = k
      BY <2>1 DEF CallType
    <3>2. QED
      BY <2>2, <3>1, CallPlaced
  <2>4. \A d \in Callers :
          /\ call'[d].pc = "apply" => call'[d].key \in Keys /\ invoice[call'[d].key] = "paid"
          /\ call'[d].pc = "sync" => Reached(call'[d].price)
    BY <1>2, <2>1, <2>3, ProofOfCalls DEF OthersWait, ProofHolds
  <2>5. Reached(plan') /\ \A j \in Keys : attempt'[j] # NoAttempt /\ attempt'[j].status = "APPLIED" =>
                              invoice[j] = "paid"
    BY <1>1 DEF PInv, AppliedIsPaid
  <2>6. QED
    BY <1>1, <2>4, <2>5, EarningStep, BooksStayShut, RowsUnchanged
<1>3. CASE Unproved(c)
  BY <1>1, <1>3, UnprovedEarns
<1>4. QED
  BY <1>2, <1>3 DEF Prove

LEMMA PlanFields ==
    ASSUME NEW k \in Keys
    PROVE  From(k) \in Nat /\ To(k) = From(k) + 1
BY UpgradeAssumption DEF From, To, Keys

(* The upgrade is paid, and it starts from the plan reached so far.        *)
LEMMA ApplyEarns ==
    ASSUME IInv, PInv, NEW c \in Callers, Apply(c)
    PROVE  PInv'
<1> DEFINE k == call[c].key
<1>1. /\ k \in Keys /\ attempt[k] \in Attempts /\ attempt[k] # NoAttempt
      /\ invoice[k] = "paid" /\ UNCHANGED stripe
  BY Held, ProofOfCalls DEF Apply, At, Holding
<1>2. CASE plan = From(k) /\ plan' = To(k) /\ Move(k, "APPLIED") /\ Finish(c)
  <2>1. /\ [attempt[k] EXCEPT !.status = "APPLIED"] \in Attempts
        /\ [attempt[k] EXCEPT !.status = "APPLIED"].createdAt = attempt[k].createdAt
    BY <1>1 DEF Attempts, Statuses
  <2>2. /\ attempt'[k] # NoAttempt /\ attempt'[k].createdAt = attempt[k].createdAt
        /\ \A j \in Keys : j # k => attempt'[j] = attempt[j]
    BY <1>1, <1>2, <2>1, SameAttempts, NullAssumption DEF Move, AttemptType
  <2>3. RowsStay
    BY <2>2 DEF RowsStay
  <2>4. Reached(plan')
    <3>1. Earned(To(k))
      BY <1>1 DEF Earned, Paid
    <3>2. Reached(From(k))
      BY <1>2 DEF PInv
    <3>3. QED
      BY <1>1, <1>2, <3>1, <3>2, PlanFields DEF Reached
  <2>5. \A j \in Keys : attempt'[j] # NoAttempt /\ attempt'[j].status = "APPLIED" =>
            invoice[j] = "paid"
    BY <1>1, <2>2 DEF PInv, AppliedIsPaid
  <2>6. \A d \in Callers :
          /\ call'[d].pc = "apply" => call'[d].key \in Keys /\ invoice[call'[d].key] = "paid"
          /\ call'[d].pc = "sync" => Reached(call'[d].price)
    BY <1>2, CallFinished, ProofOfCalls DEF OthersWait, Doubtful
  <2>7. \A j \in Keys : attempt[j] = NoAttempt /\ attempt'[j] # NoAttempt => From(j) = plan
    BY <1>1, <2>2
  <2>8. QED
    BY <1>1, <2>3, <2>4, <2>5, <2>6, <2>7, EarningStep, BooksStayShut
<1>3. CASE UNCHANGED <<plan, attempt>> /\ Unproved(c)
  BY <1>1, <1>3, UnprovedEarns
<1>4. QED
  BY <1>2, <1>3 DEF Apply

(* A new attempt starts from the plan reached so far.                      *)
LEMMA ClaimEarns ==
    ASSUME IInv, PInv, NEW c \in Callers, Claim(c)
    PROVE  PInv'
<1> DEFINE k == call[c].key
<1>1. UNCHANGED <<plan, stripe>> /\ k \in Keys /\ call[c] \in CallType
  BY JobFields DEF Claim, entitlement, At, Sound
<1>2. ASSUME NEW status, NEW time, NEW place \in {"lapse", "retrieve"}, RowsStay, NothingApplied,
             call' = [call EXCEPT ![c].status = status, ![c].claimedAt = time,
                                  ![c].cron = NoKey, ![c].pc = place]
      PROVE  PInv'
  <2>1. call' = [call EXCEPT ![c] = [call[c] EXCEPT !.status = status, !.claimedAt = time,
                                                    !.cron = NoKey, !.pc = place]]
    BY <1>2 DEF IInv, TypeOK
  <2>2. [call[c] EXCEPT !.status = status, !.claimedAt = time,
                        !.cron = NoKey, !.pc = place].pc = place
    BY <1>1 DEF CallType
  <2>3. QED
    BY <1>1, <1>2, <2>1, <2>2, PlainStep, CallPlaced DEF Doubtful
<1>3. CASE UNCHANGED attempt /\
           \E status, time, place :
              /\ place \in {"lapse", "retrieve"}
              /\ call' = [call EXCEPT ![c].status = status, ![c].claimedAt = time,
                                      ![c].cron = NoKey, ![c].pc = place]
  BY <1>2, <1>3, RowsUnchanged
<1>4. CASE /\ plan = From(k) /\ attempt[k] = NoAttempt
           /\ attempt' = [attempt EXCEPT ![k] = [status |-> "CLAIMED", claimedAt |-> clock,
                                                createdAt |-> clock, bound |-> FALSE]]
           /\ call' = [call EXCEPT ![c].status = "CLAIMED", ![c].claimedAt = clock,
                                  ![c].cron = NoKey, ![c].pc = "retrieve"]
  <2>1. attempt'[k].status = "CLAIMED" /\ \A j \in Keys : j # k => attempt'[j] = attempt[j]
    BY <1>1, <1>4, SameAttempts DEF AttemptType
  <2>2. RowsStay /\ NothingApplied
    BY <1>4, <2>1 DEF RowsStay, NothingApplied
  <2>3. QED
    BY <1>2, <1>4, <2>2
<1>5. CASE (Finish(c) \/ Decline(c)) /\ UNCHANGED attempt
  BY <1>1, <1>5, Ending, DeclineEarns
<1>6. \/ UNCHANGED attempt
           /\ call' = [call EXCEPT ![c].status = attempt[k].status,
                                  ![c].claimedAt = attempt[k].claimedAt, ![c].cron = NoKey,
                                  ![c].pc = IF TooOld(attempt[k], call[c].now) THEN "lapse"
                                            ELSE "retrieve"]
      \/ Finish(c) /\ UNCHANGED attempt
      \/ /\ plan = From(k) /\ attempt[k] = NoAttempt
         /\ attempt' = [attempt EXCEPT ![k] = [status |-> "CLAIMED", claimedAt |-> clock,
                                                createdAt |-> clock, bound |-> FALSE]]
         /\ call' = [call EXCEPT ![c].status = "CLAIMED", ![c].claimedAt = clock,
                                  ![c].cron = NoKey, ![c].pc = "retrieve"]
      \/ Decline(c) /\ UNCHANGED attempt
  BY Zenon DEF Claim
<1>7. QED
  BY <1>3, <1>4, <1>5, <1>6

LEMMA DispatchEarns ==
    ASSUME IInv, PInv, NEW c \in Callers, Dispatch(c)
    PROVE  PInv'
<1> DEFINE k == call[c].key
           row == [attempt[k] EXCEPT !.status = "DISPATCHING", !.claimedAt = call[c].now]
<1>1. UNCHANGED <<plan, stripe>>
  BY DEF Dispatch, entitlement
<1>2. k \in Keys /\ attempt[k] \in Attempts /\ call[c] \in CallType /\ attempt \in AttemptType
  BY Held, JobFields, SameAttempts DEF Dispatch, At, Holding
<1>3. CASE /\ attempt' = [attempt EXCEPT ![k].status = "DISPATCHING", ![k].claimedAt = call[c].now]
           /\ Goto(c, "update")
  <2>1. /\ row \in Attempts /\ row.status = "DISPATCHING"
        /\ row.createdAt = attempt[k].createdAt
    BY <1>2 DEF Attempts, Statuses, InFlight, CallType
  <2>2. attempt'[k] = row /\ \A j \in Keys : j # k => attempt'[j] = attempt[j]
    BY <1>2, <1>3 DEF AttemptType
  <2> HIDE DEF row
  <2>3. RowsStay /\ NothingApplied
    BY <1>2, <2>1, <2>2, NullAssumption DEF RowsStay, NothingApplied
  <2>4. QED
    BY <1>1, <1>3, <2>3, PlainStep, CallGone DEF Doubtful
<1>4. CASE Goto(c, "hold") /\ UNCHANGED attempt
  BY <1>1, <1>4, Leaving DEF Doubtful
<1>5. QED
  BY <1>3, <1>4 DEF Dispatch

LEMMA BindEarns ==
    ASSUME IInv, PInv, NEW c \in Callers, Bind(c)
    PROVE  PInv'
<1> DEFINE k == call[c].key
           status == BoundStatus(c)
           row == [attempt[k] EXCEPT !.bound = TRUE, !.status = status]
<1>1. UNCHANGED <<plan, stripe>>
  BY DEF Bind, entitlement
<1>2. /\ k \in Keys /\ attempt[k] \in Attempts /\ attempt[k] # NoAttempt
      /\ attempt \in AttemptType
  BY Held, SameAttempts DEF Bind, At, Holding
<1>3. CASE Binds(k, status) /\ IF call[c].pending THEN Finish(c) ELSE Goto(c, "prove")
  <2>1. OthersWait(c) /\ call'[c].pc \notin Doubtful
    BY <1>3, CallFinished, CallGone DEF Doubtful
  <2>2. CASE UNCHANGED attempt
    BY <1>1, <2>1, <2>2, PlainStep, RowsUnchanged
  <2>3. CASE attempt' = [attempt EXCEPT ![k].bound = TRUE, ![k].status = status]
    <3>1. status \in {"PAYMENT_PENDING", "AWAIT_INVOICE"}
      BY DEF BoundStatus
    <3> HIDE DEF status
    <3>2. row \in Attempts /\ row.status = status /\ row.createdAt = attempt[k].createdAt
      BY <1>2, <3>1 DEF Attempts, Statuses, InFlight
    <3>3. attempt'[k] = row /\ \A j \in Keys : j # k => attempt'[j] = attempt[j]
      BY <1>2, <2>3 DEF AttemptType
    <3> HIDE DEF row
    <3>4. RowsStay /\ NothingApplied
      BY <1>2, <3>1, <3>2, <3>3, NullAssumption DEF RowsStay, NothingApplied
    <3>5. QED
      BY <1>1, <2>1, <3>4, PlainStep
  <2>4. QED
    BY <1>3, <2>2, <2>3 DEF Binds
<1>4. CASE UNCHANGED attempt /\ Finish(c)
  BY <1>1, <1>4, Ending
<1>5. CASE Move(k, "UNKNOWN") /\ Finish(c)
  BY <1>1, <1>2, <1>5, Marking DEF Statuses, InFlight
<1>6. QED
  BY <1>3, <1>4, <1>5, BindCases

(* The plan becomes a price that is earned, or falls to FREE.              *)
LEMMA PlanTaken ==
    ASSUME IInv, PInv, NEW c \in Callers, Finish(c), Reached(plan'),
           UNCHANGED <<attempt, stripe>>
    PROVE  PInv'
<1>1. /\ \A k \in Keys : attempt'[k] # NoAttempt /\ attempt'[k].status = "APPLIED" =>
             invoice[k] = "paid"
      /\ \A k \in Keys : attempt[k] = NoAttempt /\ attempt'[k] # NoAttempt => From(k) = plan
  BY DEF PInv, AppliedIsPaid
<1>2. \A d \in Callers :
          /\ call'[d].pc = "apply" => call'[d].key \in Keys /\ invoice[call'[d].key] = "paid"
          /\ call'[d].pc = "sync" => Reached(call'[d].price)
  BY CallFinished, ProofOfCalls DEF OthersWait, Doubtful
<1>3. QED
  BY <1>1, <1>2, EarningStep, BooksStayShut, RowsUnchanged

LEMMA SyncEarns ==
    ASSUME IInv, PInv, NEW c \in Callers, Sync(c)
    PROVE  PInv'
<1>1. Reached(plan')
  BY ProofOfCalls DEF Sync, At
<1>2. QED
  BY <1>1, PlanTaken DEF Sync

LEMMA DropEarns ==
    ASSUME IInv, PInv, NEW c \in Callers, Drop(c)
    PROVE  PInv'
<1>1. Reached(0)
  BY DEF Reached
<1>2. QED
  BY <1>1, PlanTaken DEF Drop

(* The change: Stripe shows and reports the price of a change it has just  *)
(* carried out, for the first time.                                        *)
LEMMA UpdateEarns ==
    ASSUME IInv, PInv, NEW c \in Callers, Update(c)
    PROVE  PInv'
<1> DEFINE k == call[c].key
           bind(pending) == [Idle EXCEPT !.pc = "bind", !.key = k, !.now = call[c].now,
                                         !.pending = pending]
<1>1. UNCHANGED <<plan, attempt>> /\ k \in Keys
  BY Held DEF Update, entitlement, At, Holding
<1>2. ASSUME NEW pending, call' = [call EXCEPT ![c] = bind(pending)]
      PROVE  OthersWait(c) /\ call'[c].pc \notin Doubtful
  <2>1. bind(pending).pc = "bind"
    BY DEF Idle
  <2> HIDE DEF bind
  <2>2. QED
    BY <1>2, <2>1, CallPlaced DEF Doubtful
<1>3. CASE UNCHANGED stripe /\ \E pending : call' = [call EXCEPT ![c] = bind(pending)]
  BY <1>1, <1>2, <1>3, PlainStep, RowsUnchanged
<1>4. ASSUME ~KeyLives(k), NEW outcome \in {"pending", "open", "paid"}, Execute(k, outcome),
             OthersWait(c), call'[c].pc \notin Doubtful
      PROVE  PInv'
  <2>1. ~sent[k].used
    BY <1>4, FreshKey DEF Update, At
  <2>2. /\ sent'[k].used /\ \A j \in Keys : j # k => sent'[j] = sent[j]
        /\ invoice'[k] # "none" /\ \A j \in Keys : j # k => invoice'[j] = invoice[j]
        /\ invoice[k] = "none"
    BY <1>1, <1>4, <2>1 DEF Execute, IInv, TypeOK, PInv, InvoicesAreSent
  <2>3. BooksStay /\ InvoicesAreSent'
    BY <2>1, <2>2 DEF BooksStay, PInv, InvoicesAreSent
  <2>4. PendingIsOpen'
    <3>1. remote'.pending = k => outcome = "pending"
      BY <1>1, <1>4, UpgradeAssumption DEF Execute, IInv, TypeOK
    <3>2. remote'.pending \in {k, NoKey}
      BY <1>4 DEF Execute, IInv, TypeOK
    <3>3. outcome = "pending" => invoice'[k] = "open"
      BY <1>1, <1>4 DEF Execute, IInv, TypeOK
    <3>4. QED
      BY <1>1, <3>1, <3>2, <3>3, UpgradeAssumption DEF PendingIsOpen
  <2>5. \A p : Known(p) => p = 1 \/ \E j \in Keys : To(j) = p /\ sent'[j].used
    BY <2>3 DEF Known, BooksStay
  <2>6. remote'.price \in {remote.price, To(k)}
    BY <1>4 DEF Execute, IInv, TypeOK
  <2>7. PricesAreKnown'
    <3>1. remote'.price = 1 \/ \E j \in Keys : To(j) = remote'.price /\ sent'[j].used
      BY <1>1, <2>2, <2>5, <2>6 DEF PInv, PricesAreKnown
    <3>2. events' \subseteq events \cup {Updated(remote'.price, k), About("paid", k)}
      BY <1>4 DEF Execute
    <3>3. Updated(remote'.price, k).price = remote'.price /\ About("paid", k).kind = "paid"
      BY DEF Updated, About
    <3>4. QED
      BY <2>5, <3>1, <3>2, <3>3 DEF PInv, PricesAreKnown, Known
  <2>8. \A d \in Callers :
          /\ call'[d].pc = "apply" => call'[d].key \in Keys /\ invoice[call'[d].key] = "paid"
          /\ call'[d].pc = "sync" => Reached(call'[d].price)
    BY <1>4, ProofOfCalls DEF OthersWait, Doubtful
  <2>9. Reached(plan') /\ \A j \in Keys : attempt'[j] # NoAttempt /\ attempt'[j].status = "APPLIED" =>
                              invoice[j] = "paid"
    BY <1>1 DEF PInv, AppliedIsPaid
  <2>10. QED
    BY <1>1, <2>3, <2>4, <2>7, <2>8, <2>9, EarningStep, RowsUnchanged
<1>5. CASE ~KeyLives(k) /\ \E outcome \in {"pending", "open", "paid"} :
              /\ Execute(k, outcome)
              /\ (\E pending : call' = [call EXCEPT ![c] = bind(pending)]) \/ Finish(c)
  BY <1>2, <1>4, <1>5, CallFinished
<1>6. QED
  BY <1>3, <1>5 DEF Update

(* A price that is known, although the attempt found is for another one:   *)
(* its own attempt was applied, hence paid, or the one found is not older  *)
(* and starts from a plan that was reached, or from a lower one.           *)
LEMMA KnownPricesAreEarned ==
    ASSUME IInv, PInv, NEW p \in Plans, Known(p),
           \/ \A k \in Keys : Status(k) \notin Unsettled
           \/ {k \in Active : To(k) = p} # Active
    PROVE  Reached(p)
<1>1. CASE p = 1
  BY <1>1 DEF Reached
<1>2. ASSUME p # 1, NEW k \in Keys, To(k) = p, sent[k].used
      PROVE  Reached(p)
  <2>1. /\ attempt[k] # NoAttempt /\ attempt[k] \in Attempts
        /\ Status(k) = attempt[k].status /\ attempt[k].status \in Statuses \ Unsent
    BY <1>2, AttemptFields DEF IInv, TypeOK, Ledger, Booked, Status
  <2>2. Reached(From(k)) /\ From(k) \in Nat /\ p = From(k) + 1
    BY <1>2, <2>1, PlanFields DEF PInv, StartsAreReached
  <2>3. Earned(p)
    <3>1. CASE attempt[k].status = "APPLIED"
      BY <1>2, <2>1, <3>1 DEF PInv, AppliedIsPaid, Earned, Paid
    <3>2. CASE attempt[k].status # "APPLIED"
      <4>1. Status(k) \in Unsettled
        BY <2>1, <3>2 DEF Unsettled, Statuses, InFlight, Unsent
      <4>2. PICK j \in Active : To(j) # p
        BY <4>1
      <4>3. /\ j \in Keys /\ attempt[j] # NoAttempt
            /\ attempt[j].createdAt >= attempt[k].createdAt
        <5>1. j \in Keys /\ attempt[j] # NoAttempt
          BY <4>2, ActiveAreMade
        <5>2. attempt[k].createdAt <= attempt[j].createdAt
          BY <1>2, <4>1, <4>2 DEF Active, Newest
        <5>3. attempt[k].createdAt \in Nat /\ attempt[j].createdAt \in Nat
          BY <2>1, <5>1, AttemptFields DEF IInv, TypeOK
        <5>4. QED
          BY <5>1, <5>2, <5>3
      <4>4. From(j) \in Nat /\ From(j) # From(k) /\ Reached(From(j))
        BY <1>2, <4>2, <4>3, PlanFields DEF PInv, StartsAreReached
      <4>5. CASE From(j) < From(k)
        BY <1>2, <4>3, <4>5 DEF Overtaken, Earned
      <4>6. CASE From(j) >= p
        BY <1>2, <4>4, <4>6 DEF Reached, Plans
      <4>7. QED
        BY <2>2, <4>4, <4>5, <4>6
    <3>3. QED
      BY <3>1, <3>2
  <2>4. QED
    BY <2>2, <2>3 DEF Reached
<1>3. QED
  BY <1>1, <1>2 DEF Known

LEMMA SubscriptionUpdatedEarns ==
    ASSUME IInv, PInv, NEW c \in Callers, SubscriptionUpdated(c)
    PROVE  PInv'
<1>1. UNCHANGED <<plan, attempt, stripe>>
  BY DEF SubscriptionUpdated, entitlement
<1>2. CASE \E k \in Active : Start(c, "prove", k)
  BY <1>1, <1>2, Launching DEF Doubtful
<1>3. ASSUME NEW price \in Plans, Known(price),
             \/ \A k \in Keys : Status(k) \notin Unsettled
             \/ {k \in Active : To(k) = price} # Active,
             call' = [call EXCEPT ![c] = [Idle EXCEPT !.pc = "sync", !.now = clock,
                                                     !.price = price]]
      PROVE  PInv'
  <2> DEFINE new == [Idle EXCEPT !.pc = "sync", !.now = clock, !.price = price]
  <2>1. new.pc = "sync" /\ new.price = price
    BY DEF Idle
  <2> HIDE DEF new
  <2>2. OthersWait(c) /\ call'[c] = new
    BY <1>3, CallPlaced DEF new
  <2>3. Reached(price)
    BY <1>3, KnownPricesAreEarned
  <2>4. \A d \in Callers :
          /\ call'[d].pc = "apply" => call'[d].key \in Keys /\ invoice[call'[d].key] = "paid"
          /\ call'[d].pc = "sync" => Reached(call'[d].price)
    BY <2>1, <2>2, <2>3, ProofOfCalls DEF OthersWait
  <2>5. Reached(plan') /\ \A j \in Keys : attempt'[j] # NoAttempt /\ attempt'[j].status = "APPLIED" =>
                              invoice[j] = "paid"
    BY <1>1 DEF PInv, AppliedIsPaid
  <2>6. QED
    BY <1>1, <2>4, <2>5, EarningStep, BooksStayShut, RowsUnchanged
<1>4. /\ remote.price \in Plans /\ Updated(remote.price, remote.latest).price = remote.price
      /\ Known(remote.price)
  BY DEF IInv, TypeOK, Updated, PInv, PricesAreKnown
<1>5. \A e \in Hook(c, "updated") : e.price \in Plans /\ Known(e.price)
  BY HookedEvents DEF Hook, PInv, PricesAreKnown
<1>6. QED
  BY <1>2, <1>3, <1>4, <1>5 DEF SubscriptionUpdated

LEMMA WebhookEarns ==
    ASSUME IInv, PInv, NEW c \in Callers, Webhook(c)
    PROVE  PInv'
<1>1. CASE InvoicePaid(c)
  <2>1. PICK e \in Hook(c, "paid") :
           call' = [call EXCEPT ![c] = [Idle EXCEPT !.key = e.key, !.now = clock, !.paid = TRUE,
             !.pc = IF e.key \in Active /\ attempt[e.key].bound THEN "prove" ELSE "revive"]]
    BY <1>1 DEF InvoicePaid
  <2>2. [Idle EXCEPT !.key = e.key, !.now = clock, !.paid = TRUE,
             !.pc = IF e.key \in Active /\ attempt[e.key].bound THEN "prove" ELSE "revive"].pc
          \notin Doubtful
    BY DEF Idle, Doubtful
  <2>3. UNCHANGED <<plan, attempt, stripe>>
    BY <1>1 DEF InvoicePaid, entitlement
  <2>4. QED
    BY <2>1, <2>2, <2>3, PlainStep, RowsUnchanged, CallPlaced
<1>2. CASE PaymentFailed(c)
  BY <1>2, Launching DEF PaymentFailed, entitlement, Doubtful
<1>3. CASE SubscriptionDeleted(c)
  BY <1>3, Launching DEF SubscriptionDeleted, entitlement, Doubtful
<1>4. CASE PendingUpdateExpired(c)
  BY <1>4, Launching DEF PendingUpdateExpired, entitlement, Doubtful
<1>5. QED
  BY <1>1, <1>2, <1>3, <1>4, SubscriptionUpdatedEarns DEF Webhook

LEMMA StepEarns ==
    ASSUME IInv, PInv, NEW c \in Callers, Step(c) \/ Die(c)
    PROVE  PInv'
BY LookEarns, ExpireEarns, ProveEarns, ApplyEarns, ClaimEarns, GivenUpEarns, RetrieveEarns,
   DispatchEarns, UpdateEarns, BindEarns, AsideEarns, SetAsideEarns, FailEarns, SyncEarns,
   DropEarns, QuietEndEarns DEF Step

(* Stripe's own steps.                                                     *)
LEMMA StripeStep ==
    ASSUME IInv, PInv, UNCHANGED <<plan, attempt, call, sent>>, BooksStay,
           InvoicesAreSent', PendingIsOpen', Known(remote'.price),
           \A e \in events' \ events : e.kind = "updated" => Known(e.price)
    PROVE  PInv'
<1>1. PricesAreKnown'
  BY DEF PInv, PricesAreKnown, Known
<1>2. /\ Reached(plan')
      /\ \A k \in Keys : attempt'[k] # NoAttempt /\ attempt'[k].status = "APPLIED" =>
             invoice[k] = "paid"
  BY DEF PInv, AppliedIsPaid
<1>3. QED
  BY <1>1, <1>2, EarningStep, RowsUnchanged, ProofOfCalls

LEMMA PaymentSettlesEarns ==
    ASSUME IInv, PInv, NEW k \in Keys, PaymentSettles(k)
    PROVE  PInv'
<1>1. UNCHANGED <<plan, attempt, call, sent>>
  BY DEF PaymentSettles, entitlement
<1>2. /\ remote.pending = k /\ invoice[k] = "open" /\ sent[k].used /\ k # NoKey
      /\ Known(remote.price) /\ Known(To(k))
  BY UpgradeAssumption DEF PaymentSettles, PInv, PendingIsOpen, InvoicesAreSent, PricesAreKnown, Known
<1>3. ASSUME NEW mark \in {"paid", "void"}, invoice' = [invoice EXCEPT ![k] = mark],
             remote'.pending = NoKey
      PROVE  BooksStay /\ InvoicesAreSent' /\ PendingIsOpen'
  BY <1>1, <1>2, <1>3, UpgradeAssumption
     DEF IInv, TypeOK, PInv, InvoicesAreSent, BooksStay, PendingIsOpen
<1>4. /\ About("failed", k).kind = "failed" /\ About("expired", k).kind = "expired"
      /\ About("paid", k).kind = "paid" /\ Updated(To(k), remote.latest).price = To(k)
  BY DEF About, Updated
<1>5. CASE /\ remote' = [remote EXCEPT !.price = To(k), !.pending = NoKey]
           /\ invoice' = [invoice EXCEPT ![k] = "paid"]
           /\ events' = events \cup {About("paid", k), Updated(To(k), remote.latest)}
  <2>1. remote'.price = To(k) /\ remote'.pending = NoKey
    BY <1>5 DEF IInv, TypeOK
  <2>2. QED
    BY <1>1, <1>2, <1>3, <1>4, <1>5, <2>1, StripeStep
<1>6. CASE events' = events \cup {About("failed", k)} /\ UNCHANGED <<remote, invoice>>
  <2>1. BooksStay /\ InvoicesAreSent' /\ PendingIsOpen'
    BY <1>1, <1>6 DEF PInv, BooksStay, InvoicesAreSent, PendingIsOpen
  <2>2. QED
    BY <1>1, <1>2, <1>4, <1>6, <2>1, StripeStep
<1>7. CASE /\ remote' = [remote EXCEPT !.pending = NoKey]
           /\ invoice' = [invoice EXCEPT ![k] = "void"]
           /\ events' = events \cup {About("expired", k)}
  <2>1. remote'.price = remote.price /\ remote'.pending = NoKey
    BY <1>7 DEF IInv, TypeOK
  <2>2. QED
    BY <1>1, <1>2, <1>3, <1>4, <1>7, <2>1, StripeStep
<1>8. QED
  BY <1>5, <1>6, <1>7 DEF PaymentSettles

LEMMA InvoiceSettlesEarns ==
    ASSUME IInv, PInv, NEW k \in Keys, InvoiceSettles(k)
    PROVE  PInv'
<1>1. UNCHANGED <<plan, attempt, call, sent, remote>>
  BY DEF InvoiceSettles, entitlement
<1>2. BooksStay /\ InvoicesAreSent' /\ PendingIsOpen'
  BY <1>1 DEF InvoiceSettles, IInv, TypeOK, PInv, InvoicesAreSent, BooksStay, PendingIsOpen
<1>3. \A e \in events' \ events : e.kind # "updated"
  BY DEF InvoiceSettles, About
<1>4. Known(remote'.price)
  BY <1>1 DEF PInv, PricesAreKnown
<1>5. QED
  BY <1>1, <1>2, <1>3, <1>4, StripeStep

(* A lower price was reached, hence known, before the one Stripe shows.    *)
LEMMA DowngradeEarns ==
    ASSUME IInv, PInv, Downgrade
    PROVE  PInv'
<1>1. UNCHANGED <<plan, attempt, call, sent, invoice>>
  BY DEF Downgrade, entitlement
<1>2. PICK price \in 1 .. remote.price - 1 :
         /\ remote' = [remote EXCEPT !.price = price]
         /\ events' = events \cup {Updated(price, remote.latest)}
  BY DEF Downgrade
<1>3. /\ remote'.price = price /\ remote'.pending = remote.pending
      /\ Updated(price, remote.latest).price = price
      /\ remote.price \in Plans /\ price \in Nat
  BY <1>2 DEF IInv, TypeOK, Updated
<1>4. BooksStay /\ InvoicesAreSent' /\ PendingIsOpen'
  BY <1>1, <1>3 DEF PInv, InvoicesAreSent, BooksStay, PendingIsOpen
<1>5. Known(price)
  <2>1. PICK k \in Keys : To(k) = remote.price /\ sent[k].used
    BY <1>2, <1>3 DEF PInv, PricesAreKnown, Known, Plans
  <2>2. Reached(From(k)) /\ price \in 1 .. From(k)
    BY <1>2, <1>3, <2>1, PlanFields DEF PInv, StartsAreReached, IInv, Ledger, Booked, Plans
  <2>3. CASE Earned(price)
    BY <2>3 DEF Earned, Paid, Overtaken, Known, PInv, InvoicesAreSent
  <2>4. QED
    BY <1>3, <2>2, <2>3 DEF Reached, Known
<1>6. QED
  BY <1>1, <1>2, <1>3, <1>4, <1>5, StripeStep

LEMMA CancelEarns ==
    ASSUME IInv, PInv, Cancel
    PROVE  PInv'
<1>1. UNCHANGED <<plan, attempt, call, sent>>
  BY DEF Cancel, entitlement
<1>2. remote'.price = remote.price /\ remote'.pending = NoKey
  BY DEF Cancel, IInv, TypeOK
<1>3. BooksStay /\ InvoicesAreSent' /\ PendingIsOpen'
  BY <1>1, <1>2, UpgradeAssumption DEF Cancel, PInv, InvoicesAreSent, BooksStay, PendingIsOpen
<1>4. \A e \in events' \ events : e.kind # "updated"
  BY DEF Cancel
<1>5. Known(remote'.price)
  BY <1>2 DEF PInv, PricesAreKnown
<1>6. QED
  BY <1>1, <1>3, <1>4, <1>5, StripeStep

LEMMA RenewalEarns ==
    ASSUME IInv, PInv, Renewal
    PROVE  PInv'
<1>1. /\ UNCHANGED <<plan, attempt, call, sent, invoice, events>>
      /\ remote'.price = remote.price /\ remote'.pending = remote.pending
  BY DEF Renewal, IInv, TypeOK
<1>2. BooksStay /\ InvoicesAreSent' /\ PendingIsOpen'
  BY <1>1 DEF PInv, InvoicesAreSent, BooksStay, PendingIsOpen
<1>3. Known(remote'.price)
  BY <1>1 DEF PInv, PricesAreKnown
<1>4. QED
  BY <1>1, <1>2, <1>3, StripeStep

LEMMA WorldEarns ==
    ASSUME IInv, PInv, World
    PROVE  PInv'
<1>1. CASE LatePayment \/ SavePreference \/ Tick
  BY <1>1, StillEarned DEF LatePayment, SavePreference, Tick, entitlement
<1>2. QED
  BY <1>1, PaymentSettlesEarns, InvoiceSettlesEarns, RenewalEarns, DowngradeEarns, CancelEarns
  DEF World

LEMMA NextEarns == IInv /\ PInv /\ [Next]_vars => PInv'
<1>1. ASSUME IInv, PInv, NEW c \in Callers, Producer(c)
      PROVE  PInv'
  BY <1>1, BeginEarns DEF Producer
<1>2. ASSUME IInv, PInv, NEW c \in Callers, NEW k \in Keys, Scheduler(c, k)
      PROVE  PInv'
  <2>1. k[1] \in Months
    BY DEF Keys
  <2>2. QED
    BY <1>2, <2>1, BeginEarns DEF Scheduler
<1>3. ASSUME IInv, PInv, UNCHANGED vars
      PROVE  PInv'
  BY <1>3, StillEarned DEF vars, stripe
<1>4. QED
  BY <1>1, <1>2, <1>3, StepEarns, WebhookEarns, WorldEarns DEF Next

LEMMA InitEarns == Init => PInv
BY UpgradeAssumption DEF Init, PInv, InvoicesAreSent, PendingIsOpen, PricesAreKnown, Known,
   CallsHaveProof, AppliedIsPaid, StartsAreReached, Reached, Idle

LEMMA PlansAreEarned == Spec => []PInv
BY InitEarns, NextEarns, Invariant, PTL DEF Spec

(* Only an applied proof and a price reported raise the plan.              *)
LEMMA WhoRaises ==
    ASSUME IInv, NEW c \in Callers, Step(c), plan' > plan
    PROVE  Apply(c) \/ Sync(c)
<1>1. plan \in Nat
  BY UpgradeAssumption DEF IInv, TypeOK
<1>2. plan' # plan /\ plan' # 0
  BY <1>1
<1>3. QED
  BY <1>2 DEF Step, entitlement, Look, Expire, Prove, Claim, Lapse, Retrieve, Dispatch, Hold,
     Update, Bind, Aside, SetAside, Fail, Revive, Overdue, Drop, StripeFails

LEMMA RaisesEarned ==
    ASSUME IInv, PInv, [Next]_vars, plan' > plan, plan' > 1
    PROVE  Earned(plan')
<1>1. plan \in Nat /\ plan' # plan
  BY UpgradeAssumption DEF IInv, TypeOK
<1>2. ASSUME NEW c \in Callers, Apply(c)
      PROVE  Earned(plan')
  <2>1. call[c].key \in Keys /\ invoice[call[c].key] = "paid" /\ plan' = To(call[c].key)
    BY <1>1, <1>2, ProofOfCalls DEF Apply, At
  <2>2. QED
    BY <2>1 DEF Earned, Paid
<1>3. ASSUME NEW c \in Callers, Sync(c)
      PROVE  Earned(plan')
  <2>1. Reached(call[c].price) /\ plan' = call[c].price /\ call[c].price \in Plans
    BY <1>3, ProofOfCalls, JobFields DEF Sync, At, CallType
  <2>2. QED
    BY <2>1, UpgradeAssumption DEF Reached, Plans
<1>4. \E c \in Callers : Step(c)
  <2>1. ~World /\ ~UNCHANGED vars
    BY <1>1 DEF World, PaymentSettles, InvoiceSettles, Renewal, LatePayment, Downgrade, Cancel,
       SavePreference, Tick, entitlement, vars
  <2>2. \A c \in Callers : ~Producer(c) /\ ~Webhook(c) /\ ~Die(c)
    BY <1>1 DEF Producer, Begin, Webhook, InvoicePaid, PaymentFailed, SubscriptionUpdated,
       SubscriptionDeleted, PendingUpdateExpired, Die, entitlement
  <2>3. \A c \in Callers, k \in Keys : ~Scheduler(c, k)
    BY <1>1 DEF Scheduler, Begin, entitlement
  <2>4. QED
    BY <2>1, <2>2, <2>3 DEF Next
<1>5. QED
  BY <1>2, <1>3, <1>4, WhoRaises

(* However late, often and out of order Stripe's events arrive, a plan     *)
(* above the first one is taken only when an upgrade to it was paid (or    *)
(* its attempt was overtaken, see Overtaken): a proof holds the paid       *)
(* invoice, and an event's price is that of an attempt which, unless       *)
(* applied, is found when the event is handled.                            *)
THEOREM RaisesAreEarned == Spec => RaisesArePaid
<1>1. IInv /\ PInv /\ [Next]_vars => [plan' > plan /\ plan' > 1 => Earned(plan')]_vars
  BY RaisesEarned
<1>2. QED
  BY <1>1, Invariant, PlansAreEarned, PTL DEF Spec, RaisesArePaid
=============================================================================
