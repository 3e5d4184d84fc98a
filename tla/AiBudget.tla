------------------------------- MODULE AiBudget -------------------------------
(***************************************************************************)
(* The ledger of AI provider spending (src/lib/ai-budget.ts) and the three *)
(* transactions elsewhere that share its Organization -> Project locks:    *)
(* the approval of a policy (ai-budget/route.ts), the transfer of a project*)
(* to another workspace (workspace-transfer.ts) and its deletion           *)
(* (ai-budget-project-deletion.ts).  Every transaction locks the           *)
(* organization's row first, so each is one action here.  What is not      *)
(* atomic is a provider attempt: it reads its organization when the        *)
(* request arrives, reserves later, calls the provider, settles, and its   *)
(* process can die after the reservation.                                  *)
(*                                                                         *)
(* One provider/model pair and one kind of unit: an attempt is Units[a]    *)
(* units at one rate, so the larger of the organization's and the          *)
(* project's quotes is the quote at the larger of their rates.             *)
(***************************************************************************)
EXTENDS Integers, FiniteSets, FiniteSetsExt, Amounts

CONSTANTS
    Organizations,
    Projects,
    Attempts,       \* provider attempts of the enforced dispatchers
    ProjectOf,      \* ProjectOf[a]
    GroupOf,        \* GroupOf[a]: the request (requestGroupKey)
    DispatchOf,     \* DispatchOf[a]: one run of its handler (dispatchId)
    KeyAttempts,    \* attempts authorized by one of the project's API keys
    Units,          \* Units[a]: the conservative bound of its units
    Policies,       \* policies an owner may approve
    Home,           \* Home[p]: the organization a project starts in
    Denominator,    \* units a rate is quoted for
    MaxMonth,       \* bound: months the clock visits
    NoOrganization, NoPolicy, NoReservation, NoUsage

Scopes == Organizations \cup Projects

PolicyRecords == [cap: Nat, perCall: Nat, currency: STRING, rate: Nat,
                  expires: Nat, warning: Nat]

ASSUME BudgetAssumption ==
    /\ ProjectOf \in [Attempts -> Projects]
    /\ \A a, b \in Attempts : DispatchOf[a] = DispatchOf[b] =>
           ProjectOf[a] = ProjectOf[b] /\ GroupOf[a] = GroupOf[b]
    /\ Home \in [Projects -> Organizations]
    /\ Units \in [Attempts -> Nat]
    /\ KeyAttempts \subseteq Attempts
    /\ Policies \subseteq PolicyRecords
    /\ \A q \in Policies : q.perCall <= q.cap
    /\ Denominator \in Nat \ {0}
    /\ MaxMonth \in Nat
    /\ Organizations \cap Projects = {}

ASSUME NullAssumption ==
    /\ NoOrganization \notin Organizations
    /\ NoPolicy \notin PolicyRecords
    /\ NoUsage \notin Nat

VARIABLES
    owner,      \* Project.organizationId, NoOrganization once deleted
    policy,     \* AiBudget with its AiBudgetModel, per scope
    ledger,     \* AiSpendReservation, per attempt
    alerts,     \* AiBudgetEvent markers of the budgets that exist
    pc,         \* place of each attempt
    billTo,     \* organization it read with its project
    month       \* UTC month (periodKey)

vars == <<owner, policy, ledger, alerts, pc, billTo, month>>

States == {"DISPATCHED", "UNKNOWN", "SETTLED"}
Pending == {"DISPATCHED", "UNKNOWN"}
Places == {"idle", "ready", "refused", "calling", "finished", "crashed"}

Reservations == [state: States, organization: Organizations,
                 month: Nat, currency: STRING, rate: Nat,
                 reserved: Nat, reconciled: Nat \cup {NoUsage}]

ASSUME RowAssumption == NoReservation \notin Reservations

Init ==
    /\ owner = Home
    /\ policy = [s \in Scopes |-> NoPolicy]
    /\ ledger = [a \in Attempts |-> NoReservation]
    /\ alerts = {}
    /\ pc = [a \in Attempts |-> "idle"]
    /\ billTo = [a \in Attempts |-> NoOrganization]
    /\ month = 1

-----------------------------------------------------------------------------
CeilDiv(value, denominator) == (value + denominator - 1) \div denominator

Quote(rate, units) == CeilDiv(units * rate, Denominator)

Reserved(a) == ledger[a] # NoReservation

(* What a row counts for: the reconciled ceiling once settled, the full    *)
(* reservation until then.                                                 *)
Held(res) ==
    IF res.state = "SETTLED" /\ res.reconciled # NoUsage
    THEN res.reconciled
    ELSE res.reserved

(* readAiSpendTotals: one organization and month, of the given projects.   *)
Rows(o, m, projects) ==
    {a \in Attempts : /\ Reserved(a)
                      /\ ledger[a].organization = o
                      /\ ledger[a].month = m
                      /\ ProjectOf[a] \in projects}

Committed(o, m, projects) ==
    LET rows == Rows(o, m, projects)
    IN  SumOver([a \in rows |-> Held(ledger[a])], rows)

OrganizationSpend(o) == Committed(o, month, Projects)
ProjectSpend(o, p) == Committed(o, month, {p})

(* Mutant: amounts of every currency are added up.                         *)
AnyCurrency(o, currency) == TRUE

(* ... which refuses to add up two currencies.                             *)
SingleCurrency(o, currency) ==
    \A a \in Rows(o, month, Projects) : ledger[a].currency = currency

(* Mutant: the proposed amount is left out of the comparison.              *)
WithinCapBefore(current, proposed, cap) == current <= cap

(* spendWithinCap.                                                         *)
WithinCap(current, proposed, cap) ==
    current <= cap /\ proposed <= cap - current

(* lockAiSpendScope: the project is still the organization's.              *)
InScope(o, p) == o \in Organizations /\ owner[p] = o

Ready(a) ==
    /\ policy[billTo[a]] # NoPolicy
    /\ policy[ProjectOf[a]] # NoPolicy

Rate(a) == Max({policy[billTo[a]].rate, policy[ProjectOf[a]].rate})

-----------------------------------------------------------------------------
(* A run of the handler finds the project and with it the organization to  *)
(* bill; its attempts come later.                                          *)
Begin(d) ==
    LET run == {a \in Attempts : DispatchOf[a] = d}
    IN /\ \A a \in run : /\ pc[a] = "idle"
                         /\ owner[ProjectOf[a]] # NoOrganization
       /\ pc' = [a \in Attempts |-> IF a \in run THEN "ready" ELSE pc[a]]
       /\ billTo' = [a \in Attempts |->
              IF a \in run THEN owner[ProjectOf[a]] ELSE billTo[a]]
       /\ UNCHANGED <<owner, policy, ledger, alerts, month>>

(* Mutant: only the key of the attempt itself is looked up.                *)
NotDispatchedOwnKey(a) == ~Reserved(a)

(* priorGroup: no other run of this request has reached a provider.        *)
NotDispatched(a) ==
    \A b \in Attempts :
        /\ Reserved(b)
        /\ ledger[b].organization = billTo[a]
        /\ GroupOf[b] = GroupOf[a]
        => DispatchOf[b] = DispatchOf[a]

(* Both scopes approved, in one currency, at prices that still hold.       *)
Approved(a) ==
    LET o == policy[billTo[a]]
        p == policy[ProjectOf[a]]
    IN /\ Ready(a)
       /\ o.currency = p.currency
       /\ o.expires > month
       /\ p.expires > month

Affordable(a) ==
    LET o == policy[billTo[a]]
        p == policy[ProjectOf[a]]
        micros == Quote(Rate(a), Units[a])
    IN /\ micros <= o.perCall
       /\ micros <= p.perCall
       /\ WithinCap(OrganizationSpend(billTo[a]), micros, o.cap)
       /\ WithinCap(ProjectSpend(billTo[a], ProjectOf[a]), micros, p.cap)

(* Mutant: only the warning is looked for, not the cap.                    *)
WarningsCrossed(scope, prior, micros) ==
    {<<scope, month, t>> : t \in
        {u \in {policy[scope].warning} :
            /\ prior * 100 < policy[scope].cap * u
            /\ (prior + micros) * 100 >= policy[scope].cap * u}}

(* The markers an admission writes; an existing marker is a duplicate.     *)
Crossed(scope, prior, micros) ==
    {<<scope, month, t>> : t \in
        {u \in {policy[scope].warning, 100} :
            /\ prior * 100 < policy[scope].cap * u
            /\ (prior + micros) * 100 >= policy[scope].cap * u}}

(* reserveAiSpendInTransaction, then the provider is called.               *)
Reserve(a) ==
    LET o == billTo[a]
        p == ProjectOf[a]
        micros == Quote(Rate(a), Units[a])
    IN /\ pc[a] = "ready"
       /\ InScope(o, p)
       /\ ~Reserved(a)
       /\ NotDispatched(a)
       /\ Approved(a)
       /\ SingleCurrency(o, policy[o].currency)
       /\ Affordable(a)
       /\ ledger' = [ledger EXCEPT ![a] =
              [state |-> "DISPATCHED", organization |-> o, month |-> month,
               currency |-> policy[o].currency, rate |-> Rate(a),
               reserved |-> micros, reconciled |-> NoUsage]]
       /\ alerts' = alerts
              \cup Crossed(o, OrganizationSpend(o), micros)
              \cup Crossed(p, ProjectSpend(o, p), micros)
       /\ pc' = [pc EXCEPT ![a] = "calling"]
       /\ UNCHANGED <<owner, policy, billTo, month>>

(* Any check above fails, or one about state kept elsewhere: the key or    *)
(* membership was revoked, or the languages, settings, glossary or context *)
(* changed since the request read them.  The provider is not called.       *)
Refuse(a) ==
    /\ pc[a] = "ready"
    /\ pc' = [pc EXCEPT ![a] = "refused"]
    /\ UNCHANGED <<owner, policy, ledger, alerts, billTo, month>>

-----------------------------------------------------------------------------
Measured(a, usage) == Quote(ledger[a].rate, usage)

(* Mutant: a receipt is believed whatever it says.                         *)
TrustworthyAny(a, usage) == usage # NoUsage

(* A receipt is complete and stays within what was reserved.               *)
Trustworthy(a, usage) ==
    /\ usage # NoUsage
    /\ usage <= Units[a]
    /\ Measured(a, usage) <= ledger[a].reserved

(* settleAiSpend, in the `finally` of the provider call; usage may be      *)
(* missing or above the bound.  A row out of scope or settled by someone   *)
(* else stays as it is.                                                    *)
SettledRow(a, usage) ==
    LET row == ledger[a]
    IN IF ~InScope(row.organization, ProjectOf[a]) \/ row.state # "DISPATCHED"
       THEN row
       ELSE IF Trustworthy(a, usage)
            THEN [row EXCEPT !.state = "SETTLED",
                             !.reconciled = Measured(a, usage)]
            ELSE [row EXCEPT !.state = "UNKNOWN", !.reconciled = NoUsage]

Settle(a, usage) ==
    /\ pc[a] = "calling"
    /\ ledger' = [ledger EXCEPT ![a] = SettledRow(a, usage)]
    /\ pc' = [pc EXCEPT ![a] = "finished"]
    /\ UNCHANGED <<owner, policy, alerts, billTo, month>>

(* The process dies while the provider works, or its settling transaction  *)
(* fails: the row stays as it is.                                          *)
Crash(a) ==
    /\ pc[a] = "calling"
    /\ pc' = [pc EXCEPT ![a] = "crashed"]
    /\ UNCHANGED <<owner, policy, ledger, alerts, billTo, month>>

(* Mutant: an owner may also release a call in flight.                     *)
ResolvablePending(a) == ledger[a].state \in Pending

(* Only a completed attempt with an unknown outcome is reconciled by hand. *)
Resolvable(a) == ledger[a].state = "UNKNOWN"

(* resolveUnknownAiSpend: the owner has the provider's statement of the    *)
(* units, 0 for a credit.                                                  *)
Resolve(a, usage) ==
    /\ Reserved(a)
    /\ InScope(ledger[a].organization, ProjectOf[a])
    /\ Resolvable(a)
    /\ Trustworthy(a, usage)
    /\ policy[ProjectOf[a]] # NoPolicy
    /\ ledger' = [ledger EXCEPT ![a] =
           [@ EXCEPT !.state = "SETTLED", !.reconciled = Measured(a, usage)]]
    /\ UNCHANGED <<owner, policy, alerts, pc, billTo, month>>

-----------------------------------------------------------------------------
(* PUT ai-budget by an owner, from the page of project p: for the          *)
(* organization or for the project.  assertAiSpendLedgerCurrency protects  *)
(* the rows of the month; prices must still hold.                          *)
Approve(p, scope, q) ==
    /\ owner[p] # NoOrganization
    /\ scope \in {p, owner[p]}
    /\ q.expires > month
    /\ SingleCurrency(owner[p], q.currency)
    /\ policy' = [policy EXCEPT ![scope] = q]
    /\ UNCHANGED <<owner, ledger, alerts, pc, billTo, month>>

(* Mutant: only calls in flight block, not unknown outcomes.               *)
UnencumberedInFlight(p) ==
    \A a \in Attempts :
        Reserved(a) /\ ProjectOf[a] = p => ledger[a].state # "DISPATCHED"

(* pendingCount = 0 of the project's rows, in whatever organization.       *)
Unencumbered(p) ==
    \A a \in Attempts :
        Reserved(a) /\ ProjectOf[a] = p => ledger[a].state \notin Pending

DropPolicy(p) ==
    /\ policy' = [policy EXCEPT ![p] = NoPolicy]
    /\ alerts' = {m \in alerts : m[1] # p}

(* commitWorkspaceTransfer: keys die with the move, the policy is removed. *)
Transfer(p, destination) ==
    /\ owner[p] \notin {NoOrganization, destination}
    /\ Unencumbered(p)
    /\ owner' = [owner EXCEPT ![p] = destination]
    /\ DropPolicy(p)
    /\ pc' = [a \in Attempts |->
           IF a \in KeyAttempts /\ ProjectOf[a] = p /\ pc[a] \in {"idle", "ready"}
           THEN "refused" ELSE pc[a]]
    /\ UNCHANGED <<ledger, billTo, month>>

(* deleteProjectWithAiSpendGuard counts the rows of its own organization.  *)
Delete(p) ==
    /\ owner[p] # NoOrganization
    /\ \A a \in Attempts :
           /\ Reserved(a)
           /\ ledger[a].organization = owner[p]
           /\ ProjectOf[a] = p
           => ledger[a].state \notin Pending
    /\ owner' = [owner EXCEPT ![p] = NoOrganization]
    /\ DropPolicy(p)
    /\ UNCHANGED <<ledger, pc, billTo, month>>

NextMonth ==
    /\ month < MaxMonth
    /\ month' = month + 1
    /\ UNCHANGED <<owner, policy, ledger, alerts, pc, billTo>>

Receipts(a) == 0 .. (Units[a] + 1)

Next ==
    \/ \E a \in Attempts :
           \/ Begin(DispatchOf[a])
           \/ Reserve(a)
           \/ Refuse(a)
           \/ \E usage \in Receipts(a) \cup {NoUsage} : Settle(a, usage)
           \/ Crash(a)
           \/ \E usage \in Receipts(a) : Resolve(a, usage)
    \/ \E p \in Projects :
           \/ \E scope \in Scopes, q \in Policies : Approve(p, scope, q)
           \/ \E destination \in Organizations : Transfer(p, destination)
           \/ Delete(p)
    \/ NextMonth

Spec == Init /\ [][Next]_vars

-----------------------------------------------------------------------------
TypeOK ==
    /\ owner \in [Projects -> Organizations \cup {NoOrganization}]
    /\ policy \in [Scopes -> Policies \cup {NoPolicy}]
    /\ ledger \in [Attempts -> Reservations \cup {NoReservation}]
    /\ alerts \subseteq Scopes \X Nat \X Nat
    /\ pc \in [Attempts -> Places]
    /\ billTo \in [Attempts -> Organizations \cup {NoOrganization}]
    /\ month \in Nat

(* A hold whose outcome is open keeps its project where it was billed, with*)
(* the policy its settlement needs: neither a transfer nor a deletion nor  *)
(* a reservation that races them can separate the two.                     *)
HoldsStayHome ==
    \A a \in Attempts :
        Reserved(a) /\ ledger[a].state \in Pending =>
            /\ owner[ProjectOf[a]] = ledger[a].organization
            /\ policy[ProjectOf[a]] # NoPolicy

(* While a provider works, or may have worked when the process died, the   *)
(* full reservation is held: nobody releases it.                           *)
CallsAreHeld ==
    \A a \in Attempts :
        pc[a] \in {"calling", "crashed"} =>
            Reserved(a) /\ ledger[a].state = "DISPATCHED"

(* In one organization only one run of a request reaches providers, however*)
(* often the request is sent and whichever run died.                       *)
OneRunPerRequest ==
    \A a, b \in Attempts :
        /\ Reserved(a)
        /\ Reserved(b)
        /\ GroupOf[a] = GroupOf[b]
        /\ ledger[a].organization = ledger[b].organization
        => DispatchOf[a] = DispatchOf[b]

(* The rows one total adds up are of one currency, whatever policies were  *)
(* approved in between.                                                    *)
OneCurrencyPerMonth ==
    \A a, b \in Attempts :
        /\ Reserved(a)
        /\ Reserved(b)
        /\ ledger[a].organization = ledger[b].organization
        /\ ledger[a].month = ledger[b].month
        => ledger[a].currency = ledger[b].currency

(* Settling never costs more than was set aside, at rates that may have    *)
(* been replaced meanwhile.                                                *)
SettledWithinReservation ==
    \A a \in Attempts :
        Reserved(a) /\ ledger[a].state = "SETTLED" =>
            ledger[a].reconciled <= ledger[a].reserved

(* Rows are never removed or billed to someone else, and a settled row     *)
(* never changes again: transfers, deletions and late calls leave it alone.*)
RowsAreFinal ==
    [][\A a \in Attempts : Reserved(a) =>
          /\ Reserved(a)'
          /\ ledger[a]'.organization = ledger[a].organization
          /\ ledger[a]'.month = ledger[a].month
          /\ ledger[a]'.reserved = ledger[a].reserved
          /\ ledger[a].state = "SETTLED" => ledger[a]' = ledger[a]]_vars

(* What an organization or a project has committed in a month grows only   *)
(* while it stays within the cap in force; settling, reconciling, moving   *)
(* and deleting never add to it.                                           *)
SpendGrowsWithinCaps ==
    [][\A o \in Organizations, m \in 1 .. MaxMonth :
          /\ Committed(o, m, Projects)' > Committed(o, m, Projects) =>
                 Committed(o, m, Projects)' <= policy[o].cap
          /\ \A p \in Projects :
                 Committed(o, m, {p})' > Committed(o, m, {p}) =>
                     Committed(o, m, {p})' <= policy[p].cap]_vars

(* Reaching the cap, or its warning share, under one policy leaves a marker*)
(* for that month.                                                         *)
CrossingsAreAlerted ==
    [][\A o \in {s \in Organizations : policy[s] # NoPolicy} :
       \A t \in {100, policy[o].warning} :
          /\ policy[o]' = policy[o]
          /\ month' = month
          /\ OrganizationSpend(o) * 100 < policy[o].cap * t
          /\ OrganizationSpend(o)' * 100 >= policy[o].cap * t
          => <<o, month, t>> \in alerts']_vars
=============================================================================
