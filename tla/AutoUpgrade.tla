---------------------------- MODULE AutoUpgrade ----------------------------
(***************************************************************************)
(* Automatic upgrades of one organization's paid plan (auto-upgrade.ts,    *)
(* auto-upgrade-reconcile.ts and the Stripe webhook).                      *)
(*                                                                         *)
(* A usage producer claims an attempt under the organization's lock,       *)
(* validates the subscription at Stripe, commits the dispatch under the    *)
(* lock and sends the paid change with the attempt as idempotency key.     *)
(* Only a paid invoice bound to the attempt raises the plan.  The          *)
(* scheduler takes up what is left of interrupted functions.  Answers may  *)
(* be lost, functions end at any point, and Stripe's events arrive late,   *)
(* repeatedly and out of order.                                            *)
(***************************************************************************)
EXTENDS Naturals

CONSTANTS
    Cron,          \* the scheduler's functions
    Web,           \* functions of usage producers and of Stripe's events
    MaxPlan,       \* paid plans are 1 .. MaxPlan, each with one Stripe price
    Months,        \* bound: the times at which a new usage month begins
    Reclaim,       \* 10 minutes: an older claim may be taken over
    Window,        \* 23 hours: an older attempt is not retried
    KeyLife,       \* 24 hours: how long Stripe keeps an idempotency key
    MaxDuration,   \* the platform ends functions after that time
    MaxTime,       \* bound: the clock stops there
    MaxSpare,      \* bound: consents, downgrades, cancellations, renewals and deaths together
    NoAttempt, NoKey

Callers == Cron \cup Web
Plans == 1 .. MaxPlan
(* One attempt for each usage month and plan it starts from.  A month is   *)
(* named by the time it begins.                                            *)
Keys == Months \X (1 .. MaxPlan - 1)
From(k) == k[2]
To(k) == k[2] + 1

ASSUME UpgradeAssumption ==
    /\ MaxPlan \in Nat \ {0}
    /\ Months \subseteq Nat /\ 0 \in Months
    /\ MaxTime \in Nat
    /\ MaxSpare \in Nat
    /\ Reclaim \in Nat
    /\ Window \in Nat \ {0}
    /\ MaxDuration \in Nat
    /\ KeyLife \in Nat
    /\ Window + MaxDuration <= KeyLife
    /\ Cron \cap Web = {}
    /\ NoKey \notin Keys

VARIABLES
    clock,
    plan,       \* Subscription.plan, its price and Organization.plan; 0 is FREE
    active,     \* Subscription.status = ACTIVE
    preference, \* enabled, and updatedAt as a number
    attempt,    \* AutoUpgradeAttempt
    call,       \* functions
    remote,     \* the subscription at Stripe
    invoice,    \* the upgrade invoices at Stripe
    sent,       \* idempotency keys at Stripe: time of the first use, answer
    charges,    \* how often Stripe carried out an attempt's change
    events,     \* events Stripe delivers, at any time and repeatedly
    spare       \* what is left of MaxSpare

vars == <<clock, plan, active, preference, attempt, call, remote, invoice,
          sent, charges, events, spare>>
entitlement == <<plan, active>>
stripe == <<remote, invoice, sent, charges, events>>
setting == <<clock, preference, spare>>

InFlight == {"CLAIMED", "DISPATCHING", "AWAIT_INVOICE", "PAYMENT_PENDING", "UNKNOWN"}
Statuses == InFlight \cup {"APPLIED", "EXPIRED", "CANCELED"}
(* bound: stripeInvoiceId names the invoice of the attempt's own change.   *)
Attempts == [status: Statuses, claimedAt: Nat, createdAt: Nat, bound: BOOLEAN]

ASSUME NullAssumption == NoAttempt \notin Attempts

Status(k) == IF attempt[k] = NoAttempt THEN "none" ELSE attempt[k].status

(* orderBy createdAt desc: any of the newest attempts in one of the states. *)
Newest(S) == {k \in Keys : /\ Status(k) \in S
                           /\ \A j \in Keys : Status(j) \in S =>
                                attempt[j].createdAt <= attempt[k].createdAt}
Unsettled == InFlight \cup {"EXPIRED"}
Active == Newest(Unsettled)

Idle == [pc |-> "idle", key |-> NoKey, status |-> "none", claimedAt |-> 0, now |-> 0,
         consent |-> 0, pending |-> FALSE, price |-> 1, cron |-> NoKey, paid |-> FALSE]
(* Steps that wait for Stripe, and the others.                             *)
Remote == {"look", "prove", "retrieve", "update"}
Places == Remote \cup {"idle", "expire", "apply", "claim", "lapse", "dispatch", "hold",
                       "bind", "aside", "setaside", "fail", "sync", "revive", "drop", "overdue"}

Init ==
    /\ clock = 0
    /\ plan = 1
    /\ active = TRUE
    /\ preference = [enabled |-> TRUE, version |-> 0]
    /\ attempt = [k \in Keys |-> NoAttempt]
    /\ call = [c \in Callers |-> Idle]
    /\ remote = [price |-> 1, pending |-> NoKey, latest |-> NoKey, live |-> TRUE]
    /\ invoice = [k \in Keys |-> "none"]
    /\ sent = [k \in Keys |-> [used |-> FALSE, at |-> 0, pending |-> FALSE]]
    /\ charges = [k \in Keys |-> 0]
    /\ events = {}
    /\ spare = MaxSpare

At(c, place) == call[c].pc = place
Goto(c, place) == call' = [call EXCEPT ![c].pc = place]
Finish(c) == call' = [call EXCEPT ![c] = Idle]
Move(k, status) == attempt' = [attempt EXCEPT ![k].status = status]

(* "disabled", "configuration_changed" and "ineligible" make the scheduler *)
(* look again at the dispatched attempt it had come for.  (Mutant: no such *)
(* second look.)                                                           *)
DeclineForgetting(c) == Finish(c)
Decline(c) == IF call[c].cron = NoKey THEN Finish(c) ELSE Goto(c, "aside")

(* verifyAndApplyPaidAutoUpgrade returned false: only handleInvoicePaid    *)
(* does something then.                                                    *)
Unproved(c) == IF call[c].paid THEN Goto(c, "revive") ELSE Finish(c)

(***************************************************************************)
(* maybeAutoUpgradeAfterUsage, for usage of month m.  Usage only grows, so  *)
(* it is enough for a plan once an attempt from that plan was created.     *)
(***************************************************************************)
Begin(c, m, dispatched) ==
    LET job == [Idle EXCEPT !.now = clock, !.cron = dispatched]
        open == {k \in Newest({"PAYMENT_PENDING", "AWAIT_INVOICE"}) : k[1] = m}
        key == <<m, plan>>
    IN  /\ At(c, "idle")
        /\ \/ \E k \in open : call' = [call EXCEPT ![c] = [job EXCEPT !.key = k,
                 !.pc = IF Status(k) = "AWAIT_INVOICE" THEN "prove" ELSE "look"]]
           \/ /\ open = {}
              /\ \E enough \in BOOLEAN :
                    /\ (key \in Keys /\ Status(key) # "none") => enough
                    /\ call' = [call EXCEPT ![c] =
                         IF enough /\ preference.enabled /\ active /\ key \in Keys
                         THEN [job EXCEPT !.pc = "claim", !.key = key,
                                          !.consent = preference.version]
                         ELSE IF dispatched = NoKey THEN Idle
                         ELSE [job EXCEPT !.pc = "aside"]]
        /\ UNCHANGED <<setting, entitlement, attempt, stripe>>

(* Measured usage of the current month calls it,                           *)
Producer(c) ==
    /\ c \in Web
    /\ \E m \in Months : /\ m <= clock
                        /\ \A n \in Months : n <= clock => n <= m
                        /\ Begin(c, m, NoKey)

(* and the scheduler for each attempt under way.                           *)
Scheduler(c, k) ==
    /\ c \in Cron
    /\ Status(k) \in {"DISPATCHING", "PAYMENT_PENDING", "AWAIT_INVOICE"}
    /\ Begin(c, k[1], IF Status(k) = "DISPATCHING" THEN k ELSE NoKey)

(* A payment the customer has to act on: the pending update is still there, *)
(* is gone without a change of the price, or was carried out.              *)
Look(c) ==
    LET k == call[c].key
    IN  /\ At(c, "look")
        /\ \/ remote.pending = NoKey /\ remote.price = From(k) /\ Goto(c, "expire")
           \/ remote.pending = NoKey /\ remote.price = To(k) /\ Goto(c, "prove")
           \/ /\ remote.pending # NoKey \/ remote.price \notin {From(k), To(k)}
              /\ Finish(c)
        /\ UNCHANGED <<setting, entitlement, attempt, stripe>>

(* updateMany by id and PAYMENT_PENDING, here and after an expiry event.   *)
Expire(c) ==
    LET k == call[c].key
    IN  /\ At(c, "expire")
        /\ Finish(c)
        /\ IF Status(k) = "PAYMENT_PENDING" THEN Move(k, "EXPIRED") ELSE UNCHANGED attempt
        /\ UNCHANGED <<setting, entitlement, stripe>>

(* paidInvoiceMatchesAttempt over the subscription and the bound invoice.  *)
(* (Mutant: the invoice need not be paid.)                                 *)
ProofOfOpenInvoice(k) ==
    remote.live /\ remote.price = To(k) /\ remote.latest = k /\ remote.pending = NoKey
ProofHolds(k) ==
    /\ remote.live /\ remote.price = To(k) /\ remote.latest = k /\ remote.pending = NoKey
    /\ invoice[k] = "paid"

Prove(c) ==
    LET k == call[c].key
    IN  /\ At(c, "prove")
        /\ IF /\ Status(k) \in {"AWAIT_INVOICE", "PAYMENT_PENDING"}
              /\ attempt[k].bound
              /\ ProofHolds(k)
           THEN Goto(c, "apply") ELSE Unproved(c)
        /\ UNCHANGED <<setting, entitlement, attempt, stripe>>

(* Attempt, plan and price are read again under the organization's lock.   *)
Apply(c) ==
    LET k == call[c].key
    IN  /\ At(c, "apply")
        /\ IF Status(k) \in {"AWAIT_INVOICE", "PAYMENT_PENDING"} /\ plan = From(k)
           THEN /\ plan' = To(k)
                /\ active' = TRUE
                /\ Move(k, "APPLIED")
                /\ Finish(c)
           ELSE UNCHANGED <<plan, active, attempt>> /\ Unproved(c)
        /\ UNCHANGED <<setting, stripe>>

(* RETRY_WINDOW_MS counts from the attempt's creation.  (Mutant: no such   *)
(* check.)                                                                 *)
TooOldNever(row, now) == FALSE
TooOld(row, now) == now >= row.createdAt + Window

(* Preference, plan and status are read again under the lock; an existing  *)
(* attempt is taken over when its claim is old, a new one is created when  *)
(* none is under way.                                                      *)
Claim(c) ==
    LET k == call[c].key
        fresh == /\ preference.version = call[c].consent
                 /\ plan = From(k)
                 /\ active
        take(row) == call' = [call EXCEPT ![c].status = row.status, ![c].claimedAt = row.claimedAt,
                       ![c].cron = NoKey, ![c].pc = IF TooOld(row, call[c].now) THEN "lapse" ELSE "retrieve"]
    IN  /\ At(c, "claim")
        /\ \/ /\ fresh /\ attempt[k] # NoAttempt
              /\ IF /\ Status(k) \in {"CLAIMED", "DISPATCHING"}
                    /\ call[c].now >= attempt[k].claimedAt + Reclaim
                 THEN take(attempt[k]) ELSE Finish(c)
              /\ UNCHANGED attempt
           \/ /\ fresh /\ attempt[k] = NoAttempt
              /\ \A j \in Keys : Status(j) \notin InFlight
              /\ attempt' = [attempt EXCEPT ![k] = [status |-> "CLAIMED", claimedAt |-> clock,
                                                    createdAt |-> clock, bound |-> FALSE]]
              /\ call' = [call EXCEPT ![c].status = "CLAIMED", ![c].claimedAt = clock,
                                      ![c].cron = NoKey, ![c].pc = "retrieve"]
           \/ /\ ~fresh \/ (attempt[k] = NoAttempt /\ \E j \in Keys : Status(j) \in InFlight)
              /\ Decline(c)
              /\ UNCHANGED attempt
        /\ UNCHANGED <<setting, entitlement, stripe>>

(* Mutant: a harmless cancel in every case.                                *)
TerminalCanceled(status) == "CANCELED"

(* What an attempt that cannot go on becomes: CANCELED if it was never     *)
(* dispatched, UNKNOWN if the change may have reached Stripe.              *)
Terminal(status) == IF status = "CLAIMED" THEN "CANCELED" ELSE "UNKNOWN"

(* The key is too old: updateMany by id and status.                        *)
Lapse(c) ==
    LET k == call[c].key
    IN  /\ At(c, "lapse")
        /\ Finish(c)
        /\ IF Status(k) = call[c].status THEN Move(k, Terminal(call[c].status))
           ELSE UNCHANGED attempt
        /\ UNCHANGED <<setting, entitlement, stripe>>

(* The subscription and both prices are read; besides price and pending    *)
(* update, validateStripeBillingContext may refuse for what the customer   *)
(* or the price list has changed (a cancellation, a schedule, an amount).  *)
Retrieve(c) ==
    /\ At(c, "retrieve")
    /\ \/ Goto(c, "hold")
       \/ /\ remote.live /\ remote.price = From(call[c].key) /\ remote.pending = NoKey
          /\ Goto(c, "dispatch")
    /\ UNCHANGED <<setting, entitlement, attempt, stripe>>

(* The linearization point.  An owner who lost the role and a later billing *)
(* command refuse as well.                                                 *)
Dispatch(c) ==
    LET k == call[c].key
        allowed == /\ attempt[k].claimedAt = call[c].claimedAt
                   /\ Status(k) \in {"CLAIMED", "DISPATCHING"}
                   /\ preference.enabled /\ preference.version = call[c].consent
                   /\ plan = From(k) /\ active
    IN  /\ At(c, "dispatch")
        /\ \/ /\ allowed
              /\ attempt' = [attempt EXCEPT ![k].status = "DISPATCHING",
                                            ![k].claimedAt = call[c].now]
              /\ Goto(c, "update")
           \/ Goto(c, "hold") /\ UNCHANGED attempt
        /\ UNCHANGED <<setting, entitlement, stripe>>

(* updateMany by id, and by the status and claim this function had read.   *)
Hold(c) ==
    LET k == call[c].key
    IN  /\ At(c, "hold")
        /\ Finish(c)
        /\ IF Status(k) = call[c].status /\ attempt[k].claimedAt = call[c].claimedAt
           THEN Move(k, Terminal(call[c].status)) ELSE UNCHANGED attempt
        /\ UNCHANGED <<setting, entitlement, stripe>>

(***************************************************************************)
(* subscriptions.update with the attempt as idempotency key.  A key Stripe *)
(* remembers returns the first answer; otherwise the change waits for a    *)
(* payment, or is carried out with an invoice that is open or paid.        *)
(***************************************************************************)
KeyLives(k) == sent[k].used /\ clock < sent[k].at + KeyLife

(* subscription.updated tells the price and the latest invoice.            *)
Updated(price, latest) == [kind |-> "updated", price |-> price, key |-> latest]
About(kind, k) == [kind |-> kind, price |-> From(k), key |-> k]

Execute(k, outcome) ==
    /\ charges' = [charges EXCEPT ![k] = @ + 1]
    /\ sent' = [sent EXCEPT ![k] = [used |-> TRUE, at |-> clock, pending |-> outcome = "pending"]]
    /\ invoice' = [invoice EXCEPT ![k] = IF outcome = "paid" THEN "paid" ELSE "open"]
    /\ remote' = IF outcome = "pending" THEN [remote EXCEPT !.pending = k, !.latest = k]
                 ELSE [remote EXCEPT !.price = To(k), !.pending = NoKey, !.latest = k]
    /\ events' = events \cup {Updated(remote'.price, k)}
                        \cup (IF outcome = "paid" THEN {About("paid", k)} ELSE {})

Update(c) ==
    LET k == call[c].key
        answered(pending) == call' = [call EXCEPT ![c] = [Idle EXCEPT !.pc = "bind", !.key = k,
                               !.now = call[c].now, !.pending = pending]]
    IN  /\ At(c, "update")
        /\ \/ /\ KeyLives(k)
              /\ answered(sent[k].pending)
              /\ UNCHANGED stripe
           \/ /\ ~KeyLives(k) /\ remote.live
              /\ \E outcome \in {"pending", "open", "paid"} :
                    /\ Execute(k, outcome)
                    /\ answered(outcome = "pending") \/ Finish(c)
        /\ UNCHANGED <<setting, entitlement, attempt>>

(* The answer binds the invoice, unless the attempt was set aside; one     *)
(* that names no invoice leaves the attempt UNKNOWN.                       *)
Bind(c) ==
    LET k == call[c].key
    IN  /\ At(c, "bind")
        /\ \/ /\ attempt' = IF Status(k) # "DISPATCHING" THEN attempt ELSE
                   [attempt EXCEPT ![k].bound = TRUE,
                      ![k].status = IF call[c].pending THEN "PAYMENT_PENDING" ELSE "AWAIT_INVOICE"]
              /\ IF call[c].pending THEN Finish(c) ELSE Goto(c, "prove")
           \/ /\ IF Status(k) = "DISPATCHING" THEN Move(k, "UNKNOWN") ELSE UNCHANGED attempt
              /\ Finish(c)
        /\ UNCHANGED <<setting, entitlement, stripe>>

(* The scheduler reads the attempt it came for and, if its claim is old,   *)
(* sets it aside by id and status.                                         *)
Aside(c) ==
    /\ At(c, "aside")
    /\ IF call[c].now > attempt[call[c].cron].claimedAt + Reclaim
       THEN Goto(c, "setaside") ELSE Finish(c)
    /\ UNCHANGED <<setting, entitlement, attempt, stripe>>

SetAside(c) ==
    LET k == call[c].cron
    IN  /\ At(c, "setaside")
        /\ Finish(c)
        /\ IF Status(k) = "DISPATCHING" THEN Move(k, "UNKNOWN") ELSE UNCHANGED attempt
        /\ UNCHANGED <<setting, entitlement, stripe>>

(***************************************************************************)
(* The Stripe webhook.                                                     *)
(***************************************************************************)
Hook(c, kind) == {e \in events : e.kind = kind /\ c \in Web /\ At(c, "idle")}
Start(c, place, k) ==
    call' = [call EXCEPT ![c] = [Idle EXCEPT !.pc = place, !.key = k, !.now = clock]]

(* invoice.paid: the proof for the attempt it is bound to; otherwise the   *)
(* subscription is active again.                                           *)
InvoicePaid(c) ==
    /\ \E e \in Hook(c, "paid") :
          call' = [call EXCEPT ![c] = [Idle EXCEPT !.key = e.key, !.now = clock, !.paid = TRUE,
             !.pc = IF e.key \in Active /\ attempt[e.key].bound THEN "prove" ELSE "revive"]]
    /\ UNCHANGED <<setting, entitlement, attempt, stripe>>

Revive(c) ==
    /\ At(c, "revive")
    /\ active' = TRUE
    /\ Finish(c)
    /\ UNCHANGED <<setting, plan, attempt, stripe>>

(* invoice.payment_failed: the attempt its invoice is bound to is read     *)
(* first and written later; an unbound invoice is excused when Stripe      *)
(* shows the pending update of a dispatched attempt, and otherwise makes   *)
(* the subscription PAST_DUE.                                              *)
PaymentFailed(c) ==
    /\ \E e \in Hook(c, "failed") :
          LET k == e.key
              excused == \E j \in Active :
                 /\ Status(j) = "DISPATCHING" /\ ~attempt[j].bound
                 /\ remote.pending # NoKey /\ remote.latest = k /\ remote.price = From(j)
          IN  IF attempt[k] # NoAttempt /\ attempt[k].bound
              THEN Status(k) \in {"AWAIT_INVOICE", "DISPATCHING"} /\ Start(c, "fail", k)
              ELSE ~excused /\ Start(c, "overdue", k)
    /\ UNCHANGED <<setting, entitlement, attempt, stripe>>

Overdue(c) ==
    /\ At(c, "overdue")
    /\ active' = FALSE
    /\ Finish(c)
    /\ UNCHANGED <<setting, plan, attempt, stripe>>

(* update by id alone.                                                     *)
Fail(c) ==
    /\ At(c, "fail")
    /\ Move(call[c].key, "PAYMENT_PENDING")
    /\ Finish(c)
    /\ UNCHANGED <<setting, entitlement, stripe>>

(* subscription.updated: an old price of an applied upgrade is checked at  *)
(* Stripe; the target of an active attempt counts only with its paid       *)
(* invoice; the price in the event becomes the plan when the attempt that   *)
(* was found, if any, is for another one.                                  *)
SubscriptionUpdated(c) ==
    /\ \E e \in Hook(c, "updated") :
          LET doubted == {k \in Newest({"APPLIED"}) : e.price = From(k)}
              seen == IF doubted = {} THEN e ELSE Updated(remote.price, remote.latest)
              target == {k \in Active : To(k) = seen.price}
          IN  /\ \A k \in doubted : remote.price # To(k)
              /\ \/ \E k \in target : /\ seen.key = k /\ attempt[k].bound /\ invoice[k] = "paid"
                                      /\ Start(c, "prove", k)
                 \/ /\ (\A k \in Keys : Status(k) \notin Unsettled) \/ target # Active
                    /\ call' = [call EXCEPT ![c] = [Idle EXCEPT !.pc = "sync", !.now = clock,
                                                              !.price = seen.price]]
    /\ UNCHANGED <<setting, entitlement, attempt, stripe>>

Sync(c) ==
    /\ At(c, "sync")
    /\ plan' = call[c].price
    /\ active' \in BOOLEAN
    /\ Finish(c)
    /\ UNCHANGED <<setting, attempt, stripe>>

(* pending_update_expired: the attempt that waits, if it starts from the   *)
(* price in the event.                                                     *)
PendingUpdateExpired(c) ==
    /\ \E e \in Hook(c, "expired") : \E k \in Active :
          /\ Status(k) = "PAYMENT_PENDING" /\ From(k) = e.price
          /\ Start(c, "expire", k)
    /\ UNCHANGED <<setting, entitlement, attempt, stripe>>

(* customer.subscription.deleted: CANCELED and FREE.                       *)
SubscriptionDeleted(c) ==
    /\ \E e \in Hook(c, "deleted") : Start(c, "drop", e.key)
    /\ UNCHANGED <<setting, entitlement, attempt, stripe>>

Drop(c) ==
    /\ At(c, "drop")
    /\ plan' = 0
    /\ active' = FALSE
    /\ Finish(c)
    /\ UNCHANGED <<setting, attempt, stripe>>

(* A renewal invoice is paid, or fails (invoice.payment_failed and         *)
(* invoice.paid of an invoice no attempt is bound to) and is paid later.   *)
Renewal ==
    /\ spare > 0 /\ remote.live
    /\ remote' = [remote EXCEPT !.latest = NoKey]
    /\ active' \in BOOLEAN
    /\ spare' = spare - 1
    /\ UNCHANGED <<clock, preference, plan, attempt, call, invoice, sent, charges, events>>

LatePayment ==
    /\ active' = TRUE
    /\ UNCHANGED <<setting, plan, attempt, call, stripe>>

(***************************************************************************)
(* Stripe, its customer, the owner and time.                               *)
(***************************************************************************)
(* A change that waits for a payment is paid, fails to be, or expires.     *)
PaymentSettles(k) ==
    /\ remote.pending = k
    /\ \/ /\ remote' = [remote EXCEPT !.price = To(k), !.pending = NoKey]
          /\ invoice' = [invoice EXCEPT ![k] = "paid"]
          /\ events' = events \cup {About("paid", k), Updated(To(k), remote.latest)}
       \/ events' = events \cup {About("failed", k)} /\ UNCHANGED <<remote, invoice>>
       \/ /\ remote' = [remote EXCEPT !.pending = NoKey]
          /\ invoice' = [invoice EXCEPT ![k] = "void"]
          /\ events' = events \cup {About("expired", k)}
    /\ UNCHANGED <<setting, entitlement, attempt, call, sent, charges>>

(* An open invoice of a change already carried out is paid, or fails.      *)
InvoiceSettles(k) ==
    /\ invoice[k] = "open" /\ remote.pending # k
    /\ \/ invoice' = [invoice EXCEPT ![k] = "paid"] /\ events' = events \cup {About("paid", k)}
       \/ events' = events \cup {About("failed", k)} /\ UNCHANGED invoice
    /\ UNCHANGED <<setting, entitlement, attempt, call, remote, sent, charges>>

Downgrade ==
    /\ spare > 0 /\ remote.live /\ remote.pending = NoKey
    /\ \E price \in 1 .. remote.price - 1 :
          /\ remote' = [remote EXCEPT !.price = price]
          /\ events' = events \cup {Updated(price, remote.latest)}
    /\ spare' = spare - 1
    /\ UNCHANGED <<clock, preference, entitlement, attempt, call, invoice, sent, charges>>

(* The subscription ends, and with it what waits for a payment.            *)
Cancel ==
    /\ spare > 0 /\ remote.live
    /\ remote' = [remote EXCEPT !.live = FALSE, !.pending = NoKey]
    /\ invoice' = [k \in Keys |-> IF remote.pending = k THEN "void" ELSE invoice[k]]
    /\ events' = events \cup {[kind |-> "deleted", price |-> remote.price, key |-> remote.latest]}
    /\ spare' = spare - 1
    /\ UNCHANGED <<clock, preference, entitlement, attempt, call, sent, charges>>

(* PUT billing/auto-upgrade: opting out, or consenting (anew).             *)
SavePreference ==
    /\ spare > 0
    /\ \E on \in BOOLEAN :
          /\ on => active /\ remote.live /\ plan \in 1 .. MaxPlan - 1
          /\ on \/ preference.enabled
          /\ preference' = [enabled |-> on, version |-> preference.version + 1]
    /\ spare' = spare - 1
    /\ UNCHANGED <<clock, entitlement, attempt, call, stripe>>

(* Stripe does not answer, or refuses: the function ends.                  *)
StripeFails(c) ==
    /\ call[c].pc \in Remote
    /\ Finish(c)
    /\ UNCHANGED <<setting, entitlement, attempt, stripe>>

(* The process or the database fails.                                      *)
Die(c) ==
    /\ spare > 0 /\ ~At(c, "idle")
    /\ Finish(c)
    /\ spare' = spare - 1
    /\ UNCHANGED <<clock, preference, entitlement, attempt, stripe>>

Tick ==
    /\ clock < MaxTime
    /\ \A c \in Callers : At(c, "idle") \/ clock < call[c].now + MaxDuration
    /\ clock' = clock + 1
    /\ UNCHANGED <<preference, spare, entitlement, attempt, call, stripe>>

Step(c) ==
    \/ Look(c) \/ Expire(c) \/ Prove(c) \/ Apply(c) \/ Claim(c) \/ Lapse(c)
    \/ Retrieve(c) \/ Dispatch(c) \/ Hold(c) \/ Update(c) \/ Bind(c)
    \/ Aside(c) \/ SetAside(c) \/ Fail(c) \/ Sync(c) \/ Revive(c) \/ Drop(c)
    \/ Overdue(c) \/ StripeFails(c)
Webhook(c) ==
    \/ InvoicePaid(c) \/ PaymentFailed(c) \/ SubscriptionUpdated(c)
    \/ SubscriptionDeleted(c) \/ PendingUpdateExpired(c)
World ==
    \/ \E k \in Keys : PaymentSettles(k) \/ InvoiceSettles(k)
    \/ Renewal \/ LatePayment \/ Downgrade \/ Cancel \/ SavePreference \/ Tick

Next ==
    \/ \E c \in Callers : Step(c) \/ Producer(c) \/ Webhook(c) \/ Die(c)
    \/ \E c \in Callers, k \in Keys : Scheduler(c, k)
    \/ World

Spec == Init /\ [][Next]_vars

(* The scheduler runs every fifteen minutes and goes through all attempts  *)
(* under way; a function that runs comes to its end; time passes.  Neither *)
(* usage nor events need come.                                             *)
FairSpec ==
    /\ Spec
    /\ WF_vars(Tick)
    /\ \A c \in Callers : WF_vars(Step(c))
    /\ \A c \in Cron, k \in Keys : WF_vars(Scheduler(c, k))

-----------------------------------------------------------------------------
(* Every variable keeps its type.                                          *)
TypeOK ==
    /\ clock \in Nat
    /\ plan \in 0 .. MaxPlan /\ active \in BOOLEAN
    /\ preference \in [enabled: BOOLEAN, version: Nat]
    /\ attempt \in [Keys -> Attempts \cup {NoAttempt}]
    /\ call \in [Callers -> [pc: Places, key: Keys \cup {NoKey}, status: Statuses \cup {"none"},
                             claimedAt: Nat, now: Nat, consent: Nat, pending: BOOLEAN,
                             price: Plans, cron: Keys \cup {NoKey}, paid: BOOLEAN]]
    /\ remote \in [price: Plans, pending: Keys \cup {NoKey}, latest: Keys \cup {NoKey},
                  live: BOOLEAN]
    /\ invoice \in [Keys -> {"none", "open", "paid", "void"}]
    /\ sent \in [Keys -> [used: BOOLEAN, at: Nat, pending: BOOLEAN]]
    /\ charges \in [Keys -> Nat]
    /\ events \subseteq [kind: {"updated", "paid", "failed", "expired", "deleted"}, price: Plans,
                         key: Keys \cup {NoKey}]
    /\ spare \in Nat

(* Stripe carries out an attempt's change at most once, however many       *)
(* functions take the attempt over and however many answers are lost: no   *)
(* request with the attempt's key leaves after Stripe has forgotten it.    *)
OneChargePerAttempt == \A k \in Keys : charges[k] <= 1

(* An attempt whose change may have been charged is never freed as a       *)
(* harmless cancel (docs/auto-upgrade.md), whoever loses which race        *)
(* between dispatch, hold, lapse and the scheduler.                        *)
ChargesAreHeld ==
    \A k \in Keys : charges[k] > 0 => Status(k) \notin {"none", "CLAIMED", "CANCELED"}

(* What raises a plan: the paid invoice of an upgrade to it, or an event   *)
(* about the change of an attempt that a later one, from a lower plan, has *)
(* overtaken (three plans, two downgrades: the one way by which an event   *)
(* still raises a plan nobody has paid for).                               *)
Paid(p) == \E k \in Keys : To(k) = p /\ invoice[k] = "paid"
Overtaken(k) == /\ sent[k].used
                /\ \E j \in Keys : /\ attempt[j] # NoAttempt /\ From(j) < From(k)
                                   /\ attempt[j].createdAt >= attempt[k].createdAt
Earned(p) == Paid(p) \/ \E k \in Keys : To(k) = p /\ Overtaken(k)

(* The plan goes up, beyond the first one, only to what a paid upgrade     *)
(* invoice names: not for a pending payment, an open invoice, an event     *)
(* that overtakes the proof, or one that comes after the subscription's    *)
(* end.                                                                    *)
RaisesArePaid == [][plan' > plan /\ plan' > 1 => Earned(plan')]_vars

(* A dispatched attempt does not stay dispatched, although functions die,  *)
(* answers are lost, the owner opts out and nobody translates any more,    *)
(* unless the scheduler's decision falls on another attempt of the month.  *)
(* (Attempts made too late for their window to end before MaxTime are left *)
(* out.)                                                                   *)
Dispatched(k) == /\ Status(k) = "DISPATCHING"
                 /\ attempt[k].createdAt + Window + Reclaim <= MaxTime
Shadowed(k) == \E j \in Keys : /\ j # k /\ j[1] = k[1]
                               /\ \/ From(j) = plan /\ attempt[j] # NoAttempt
                                  \/ Status(j) \in {"PAYMENT_PENDING", "AWAIT_INVOICE"}
DispatchesEnd ==
    \A k \in Keys : Dispatched(k) ~> Status(k) # "DISPATCHING" \/ Shadowed(k)

(* "An older uncertain attempt is also held" (docs/auto-upgrade.md): a     *)
(* dispatched attempt ends when the customer has gone back to a lower plan *)
(* for good.                                                               *)
UncertainAttemptsAreHeld ==
    \A k \in Keys :
        (Dispatched(k) /\ [](plan < From(k))) ~> Status(k) # "DISPATCHING"
=============================================================================
