# Deepglot in TLA+

Deepglot translates websites: a Next.js application over PostgreSQL and Stripe,
a translation API with several providers, and a WordPress plugin that calls it.
This directory models the parts of the application in which several actors share
state (requests, cron jobs, serverless functions that die, Stripe's events,
browser tabs), checks them with TLC on small instances and proves the central
safety properties with TLAPS for every value of the constants.

- [1. The system](#1-the-system)
- [2. Modules](#2-modules)
- [3. Components and their models](#3-components-and-their-models)
- [4. Runs and bounds](#4-runs-and-bounds)
- [5. Proofs](#5-proofs)
- [6. Where the code does not do what is said of it](#6-where-the-code-does-not-do-what-is-said-of-it)
- [7. What is not modelled](#7-what-is-not-modelled)
- [8. Plan](#8-plan)

Paths below are relative to the repository's `src/` (so `lib/rate-limit.ts` is
`src/lib/rate-limit.ts`) unless they start with a directory of the root.

## 1. The system

The application runs as serverless functions: no process keeps state, any
function may be killed at its `maxDuration`, and two functions meet only in the
database or at a third party. What keeps state is the database, Stripe, the
customer's WordPress installation and the browser. Crons (`vercel.json`) call
`webhooks/process` and `cron/auto-upgrade` every 15 minutes, and the digest and
the retention jobs once a day or week.

A call of the translation API touches most components: the **rate limit** and
the hourly **word velocity** admit it, **API idempotency** runs its pipeline
once per key, the **AI ledger** reserves and settles the cost of each provider
call, the answers are stored as **translation segments**, usage is added up and
may trigger an **automatic upgrade**, and **webhooks** are queued. The workspace
(editing, review, imports, members) changes the same segments; a **URL
operation** retranslates or deletes those of one URL through the same API. The
WordPress plugin caches the segments and learns of edits from the **invalidation
feed**.

| Component | State it keeps | Operations | Who interferes | What makes it correct |
|---|---|---|---|---|
| API idempotency (`lib/api-idempotency.ts`) | one row per scope and key: status, owner, lease, response | acquire, poll, complete, release, prune | requests with the same key, dead owners, the cron | one execution per lease, replays of the same body only, answers final until they expire, nobody waits for ever |
| Rate limits, word velocity (`lib/rate-limit.ts`) | one row per bucket: count, resetAt | consume, reserve, refund | requests whose statements run late | caps per window, refunds only to the window that was charged |
| AI ledger and budgets (`lib/ai-budget*.ts`) | policies, reservations, alert markers | approve, reserve, settle, resolve, transfer, delete | attempts of all projects of an organization, owners, dead processes | holds outlive calls, caps, one run per request, one currency per month |
| Workspace AI (`lib/translation-ai-workflow.ts`) | idempotency receipt, velocity, usage, reservation | run a preview | second clicks, edits, cron, lost acknowledgements | a charged preview is never run again |
| Webhooks (`lib/project-webhook-delivery.ts`) | endpoints, deliveries | queue, list, send, record, test, configure, transfer | overlapping crons, managers, receivers | every retry is made, SUCCESS only if acknowledged, waiting ends |
| Translations and review (`lib/translation-*.ts`, `api/translate`) | rows with text, version, status, assignee; languages; members | translate, edit, adopt, replace, delete, import, review, staff | translations under way, tabs, imports, managers | stale writers are refused, approvals are of the text shown, removed languages stay empty |
| Automatic upgrades (`lib/auto-upgrade*.ts`, `api/webhooks/stripe`) | attempts, plan, preference; Stripe's subscription and invoices | claim, dispatch, hold, bind, prove, apply, lapse | producers, the scheduler, Stripe's events, lost answers | one charge per attempt, no plan without payment |
| URL operations (`api/projects/../url-operations`) | operation state, token and version per URL, receipts | preview, retranslate, delete, report, reconcile | second confirmations, dead functions, visits, edits, the plugin, transfers | one paid call per confirmation, the state of a URL tells the truth about it |
| Cache-invalidation feed (`lib/translation-cache-invalidation.ts`, the plugin's `Sync/SettingsSync.php`, `Support/TranslationCache.php`) | events with increasing ids; the site's cursor, epochs, marker, lock and transients | append, refresh, drain, delete, retire, store | edits, answers under way, several PHP processes with caches of their own | an acknowledged edit's old text is gone, every edit is acknowledged |
| Professional orders (`lib/professional-order*.ts`) | orders, payments, deliveries | quote, pay, start, deliver, adopt, complete, cancel | customer, operator, Stripe's events | paid before started, refunded at most once |
| Workspace members, transfer (`lib/workspace-*.ts`) | memberships, owner of a project | invite, change, remove, transfer | concurrent changes | a last owner, seats, nothing of the source workspace moves along |
| Billing (`api/billing`) | subscription rows, billing commands | checkout, portal, cancel | Stripe's events | the plan follows Stripe |
| Notifications, digest (`lib/notification-delivery.ts`, ...) | claim rows per message | claim, send, give back | crons that overlap or die | at most one message per claim |
| WordPress plugin: source inventory, warmer, URL job, settings | options used as queues and locks, transients | enqueue, drain, report, refresh | parallel page requests, WP-Cron, expired locks | no queued work is lost, one owner commits |
| Everything else: media, glossary, slugs, settings sync, imports, PDF, accounts, API keys, page views, audit, dashboard | rows changed by single transactions; text processing | | | see section 7 |

Hard behaviours, in the order of their weight: state read before a provider or
Stripe call and used after it; functions that die between two commits;
acknowledgements that are lost although the commit happened; leases and locks
that run out while their owner still works; events out of order; batches that
fill up; decisions of a manager on a screen that is out of date. `PROJECT.json`
lists each at its line under `hazards`, with the properties that would catch it.

## 2. Modules

| Module | Content | Composed with |
|---|---|---|
| `IdempotencyRecord` | the row of `ApiIdempotencyRecord` and the statements that change it, as operators | used by `Idempotency` and `WorkspaceAi` |
| `AnswerRegister` | abstract specification: a register of answers that expire | implemented by `Idempotency` |
| `Idempotency` | `executeIdempotently` over one key | |
| `Amounts` | sums over finite sets, by counting units | used by `RateLimit` and `AiBudget` |
| `RateLimit` | request and word buckets | `Amounts` |
| `AiBudget` | reservations, policies, transfer and deletion of projects | `Amounts` |
| `WorkspaceAi` | the run of one paid preview | `IdempotencyRecord` |
| `WebhookDelivery` | deliveries, endpoints, dispatchers, transfer | |
| `TranslationSegments` | translation rows, review, languages, members | |
| `AutoUpgrade` | attempts, functions, Stripe | |
| `UrlOperation` | manager operations on one URL | |
| `PluginCache` | the invalidation feed and a site's translation cache | |
| `MC*` | the constants of the instances that TLC checks | each `EXTENDS` its module |
| `LimitProofs` | theorems about the two modules that add up amounts | `RateLimit`, `AiBudget`, `TLAPS` |
| `*Proofs` | theorems and proofs | each `EXTENDS` its module and `TLAPS` |

`IdempotencyRecord` is shared because the code shares it: a paid preview takes
its receipt from the same table as an API call, with another lease, and adds the
state `DISPATCHED` that only it writes. A transfer of a project is one
transaction that touches several components; each module that a transfer matters
to has it as an action that does what the transaction does to that component's
rows (`Transfer` in `AiBudget`, `WebhookDelivery` and `UrlOperation`).

Conventions. A transaction that takes the row lock the code documents
(organization, then project), or a single SQL statement, is one action. Every
`await` on something else - a provider, Stripe, a receiver, the statement a clock was read
for - separates two actions. `clock` is a discrete `Date.now()`; a value the
code reads early and uses late (`now`, `seen`, `billTo`, a job's copy of a row)
is a variable of its own. Operators such as `RefundableAnyWindow` or
`TerminalCanceled`, next to the definition they resemble, are the plausible slips
the properties were tried against: substituted for the real definition, each
makes TLC report the property named in `PROJECT.json`.

## 3. Components and their models

### 3.1 API idempotency: `IdempotencyRecord`, `Idempotency`, `AnswerRegister`

`rec` is the row; each request has a place in the loop (`pc`), the `now` it read
before its claim, the lease it waits for (`until`), and the time at which its
function is ended (`deadline`). `Acquire` is the upsert with its WHERE clause,
`LoseClaim` and `ReadAfterLostClaim` the two statements of a lost claim,
`Poll` the read of a waiter, `ExecuteReturns`/`ExecuteThrows` the pipeline,
`Complete`, `CompleteFails` and `Release` the three ends, where `CompleteFails`
covers a commit whose acknowledgement is lost. `Die` ends a function at any place;
`Prune` is the daily cron. A response is named by the request that produced it,
which is what the properties compare. Retention may depend on the response
(`responseRetentionMs`), hence `ResponseRetentions`.

Properties: `ExclusiveWhileLeased`, `ReplayMatchesBody`, `ImplementsRegister` (the
loop implements `AnswerRegister`: an answer is published for a time, replayed
only while published, and never replaced), `EventuallyAnswered`. `AnswerIsFinal`
and `AtMostOneExecution` are proved only: the first also follows from the
register, the second is about functions that end before a lease can
(`maxDuration` 120 s in `api/translate/route.ts:87`, the lease is 5 minutes), a
case the run makes harder by letting functions outlive leases.

Left out: the in-memory store (tests only) and the replay's log line.

### 3.2 Rate limits: `RateLimit`

Two rows, `requests` and `words`, changed by single upserts whose clock was read
before (`now`, `Call` then `Consume` or `ReserveWords`). A spender is admitted, may
call the provider (`StartProvider`; its words stay spent), or fail before it and
refund (`FailBeforeProvider`, `Release`), and a refund can fail
(`ReleaseFails`). `Refundable` is the WHERE clause that compares `resetAt`.

`CallsPerWindow` counts the calls let through in a window, each by the window it
was charged to. `WordsMatchReservations` says that the row holds exactly the words of the
requests charged to the open window: the strongest thing the row can say, from
which the caps follow. The sum of words is `SumOver` of module `Amounts`, which
counts units (`<<spender, 1>>`, `<<spender, 2>>`, ...): the same number a fold over
the set gives, as the run's assumption `SumsAreFolds` compares for every subset of
the spenders, in a form that proofs can use. The names of this module's variables
and of its `LimitInit`, `LimitNext`, `LimitSpec` leave room for `AiBudget`'s
beside them, since `LimitProofs` reasons about both. Limits that the code derives from plans and environment
are constants; headers and logging are left out.

### 3.3 AI ledger: `AiBudget`

An attempt is one provider call of a request (`GroupOf`), made by one run of the
handler (`DispatchOf`: a retry of the request is a second run). `Begin` reads
the organization to bill, `Reserve` is the admission transaction with its checks
in the code's order (policies present, currency, request group, per-call limit,
caps of organization and project), `Settle` writes what was measured or
`UNKNOWN`, `Crash` leaves the row `DISPATCHED`, `Resolve` is the owner's manual
reconciliation, `Approve` an owner's policy, `Transfer` and `Delete` what happens
to a project with open holds, `NextMonth` the period key.

Observations that are part of the model and not asserted otherwise: a process
that dies after its reservation leaves it `DISPATCHED` for good (the code
documents this; only `UNKNOWN` can be resolved); a transfer checks open rows of
the project in any organization, a deletion only those of its own; a cap may be
lowered below what is committed, and lowering emits no alert; the check for
another run of a request is per organization.

What is committed against a cap (`Committed`) is a `SumOver` of the held amounts.

Abstraction: one provider and model, one kind of unit, integer rates over
`Denominator`; rounding up (`CeilDiv`) is kept, because settled amounts are
compared with reserved ones.

### 3.4 Workspace AI: `WorkspaceAi`

All runs of one preview. `Claim` takes the receipt (with the clock read at
`Receive`), `Prepare` re-reads and reserves hourly words, `Dispatch` is the
boundary transaction (monthly usage, spend reservation and the `DISPATCHED` mark
at once) whose acknowledgement may be lost, `CallProvider`, `Recheck`,
`CompleteSuggestion` and `CompleteUnknown` are the rest, `Refund` and `Release`
the way back before the boundary. `Edit` invalidates the preview, `Prune` is the
cron, `Crash` ends a run anywhere.

The acknowledgement of the stored suggestion may be lost as well: the run then
falls into the catch block, whose second `complete()` is refused and swallowed
(`lib/translation-ai-workflow.ts:258`), and ends in an error over a receipt that
holds the suggestion (`CompleteSuggestion`, its second outcome).

`SpentPreviewIsBlocked` and `MarkerIsPermanent` are what makes the boundary safe.
The latter says that only the run that made the `DISPATCHED` mark replaces it, and
by what, not that this run learns of it. `OneCallPerPreview` and
`DispatcherOwnsReceipt` (a run owns the receipt from the boundary until its first
`complete()`) are proved only: they hold for more than one reason in the code.

### 3.5 Webhooks: `WebhookDelivery`

`row`, `endpoint`, `workspace` are the tables; a dispatcher's `job[p][d]` is its
copy of a delivery: listed, read, sending, accepted or refused. `List` takes a
batch of `Limit` due rows in order of creation; `Read`, `Attempt`, `Record`
follow, and `RecordFails` is the catch block that records a failure after the
receiver accepted. Nothing claims a row, so dispatchers overlap and write older
counts over newer ones; `Vanished`, `Fault`, `Crash` are their other ends.
`Queue` creates rows inside the writer's transaction, `FinishImport` and
`QueueImport` outside of it. `CreateEndpoint`, `Configure`, `DeleteEndpoint` are
the manager's routes, `Test` the test call, `Transfer` moves the endpoints in
`Moved`, disables them, erases their secrets and fails their waiting deliveries.
Time is what the query sees of it: a waiting row is due or becomes due
(`Elapse`).

Observations: `SUCCESS` is not final while another dispatcher holds the row; a
receiver may get an event twice; attempts may exceed the first and the retries when dispatchers
overlap. `updateDeliveryOutcome` (`lib/project-webhook-delivery.ts:249`) writes by
id, so a dispatch under way during a transfer can make the source workspace's
delivery wait again, although `docs/product-decisions/workspace-transfer.md:20`
says "Pending deliveries are marked failed and past delivery records remain.";
`ConcludedIsFinal` states what remains true.

Fairness: the cron runs again and again, a dispatcher that holds a job takes its
next step (which may be a failure), and time passes for waiting rows. Managers,
imports and faults need not happen. `DeliveriesConclude` assumes that no
endpoint stays disabled; without that premise see section 6.

### 3.6 Translations and review: `TranslationSegments`

`rows` holds text, manual flag, status, assignee and version (`updatedAt`) per
segment. A machine translation is `LookUp` or (confirmed retranslation)
`Confirm` and `LookUpForced`, then `Dispatch` (admission under the project's
lock), then `Persist` after the provider's answer, or `GiveUp`. A tab is a
`view` of rows; `Look` refreshes it, and `Edit`, `Replace`, `Adopt`, `Delete`,
`DeleteUrl`, `BulkWorkflow`, `RemoveLanguage` send the versions it showed. `Save`
(visual editor, CSV import), `ImportXliff` and `UpdateWorkflow` (a single review
step, which names no version) do not. `ChangeRule`/`DeleteRule` are glossary
rules, `SetLanguage`, `RemoveLanguage`, `Switch` the language settings, and
`RemoveMember`, `ConfineMember`, `FreeMember`, `LeaveWorkspace` what happens to
translators.

Abstractions: contexts, word counts, revisions, cache invalidations, metadata,
audit, usage and webhooks are left out; every write takes a new version (the
XLIFF import's `NOW()`, which is the start of its transaction, is a listed
hazard); glossary rules are facts about a segment; the settings version and the
provider's reconnection are part of `automation`; the dispatch checks the
project's switch (`api/translate/route.ts:680`), the persistence also the
target's (line 888); a manager who loses access in between ends in `GiveUp`;
members who left do not return; the removal preview's token also covers URLs,
slugs and rules, which only refuses more. The change of a project's source
language is not modelled.

`ApprovalsLapse` and `AssignmentsStayHeld` are what the code keeps of two
sentences of its tests: an approval goes with the text it was given for, and no
row is left assigned to nobody, except by a translation that was overtaken since
its lookup (`Overtaken`) or by a departure from the workspace. For approvals,
section 6 has the run without the exception. The departure is one that the code
takes no care of: removing a member from the workspace
(`lib/workspace-members.ts:83`) deletes the project memberships without the reset
that the project's own routes make; the foreign key clears the assignee and the
rows stay `ASSIGNED`, although `lib/translation-workflow-wiring.test.ts:101` says
"member removal and language changes reset assignments before they become
invalid". `LeaveWorkspace` is that step.

Observations, not asserted: an ordinary translation under way overwrites a text
that was saved by hand after its lookup; a single review step
(`lib/translation-workflow.ts:480`) may approve a text that replaced the one on
the screen, since its request names no version.

### 3.7 Automatic upgrades: `AutoUpgrade`

One organization. An attempt (`attempt[k]`, `k` = the usage month and the
plan it starts from) is claimed under the organization's lock (`Claim`), the subscription retrieved at Stripe
(`Retrieve`), the dispatch committed (`Dispatch`), the paid change sent with the
attempt as idempotency key (`Update`; `Execute` is what Stripe does, and its
answer may be lost), the invoice bound (`Bind`; an answer that names no invoice
makes the attempt `UNKNOWN`, `lib/auto-upgrade.ts:218`) or the attempt set aside
(`SetAside`). `Prove` and `Apply` raise the plan for a paid invoice; `Hold`,
`Lapse`, `Expire`, `Decline` are the other ends. The scheduler (`Scheduler`)
enters for attempts that are open; a producer (`Producer`) when usage crosses the
plan. Stripe's events are a set from which any event is delivered at any time,
again and out of order (`InvoicePaid`, `PaymentFailed` with `Fail` or `Overdue` as
the statement that writes what was decided, `SubscriptionUpdated`,
`SubscriptionDeleted` with `Drop`, `PendingUpdateExpired`); one from before the
subscription's end (`Cancel`) may come after it. `Die` ends a function anywhere; functions also end
`MaxDuration` after they began. `sent` is Stripe's memory of keys, which it
forgets after `KeyLife`.

Abstractions: `Subscription.plan`, its price and `Organization.plan` are one
variable (the events write them in two statements); ineligibility the code finds
out (cancellation, schedules, price list, an owner's lost role, a later billing
command) is a nondeterministic refusal; enabling checks the conditions in the
database; notices are left out; months are named by their start; at the portal
customers only downgrade or cancel; a checkout, which makes a new subscription, is
left out; an operator's reconciliation of `UNKNOWN` is not in
the code.

Observations, not asserted: a `CLAIMED` attempt of a dead function is not among
the scheduler's candidates (`lib/auto-upgrade-reconcile.ts:8`) and blocks later
upgrades after its month; `payment_failed` writes by id and can reopen an applied
attempt (`api/webhooks/stripe/route.ts:331`); a renewal's invoice before the
proof makes `latest_invoice` differ, so the proof never holds; a late
`pending_update_expired` can expire a newer attempt's pending update; an upgrade
made by hand at the portal to the same price as an expired attempt's is
suppressed; after `customer.subscription.deleted` a late `subscription.updated` or
`invoice.paid` makes the subscription active again, the former with its plan
(`api/webhooks/stripe/route.ts:405`, `:308`).

`RaisesArePaid` says of a raise that an upgrade to that plan was paid, with one
exception, `Overtaken`, which takes three plans and which the proof of the
property brought up. An upgrade from plan 2 to 3 is carried out, its invoice
stays open and fails, the customer goes back to 2 (the attempt expires) and then
to 1; an upgrade from 1 is attempted; the first change's `subscription.updated`
arrives only now. The handler looks at the newest attempt alone
(`lib/auto-upgrade.ts:290`), which is for plan 2, so the event's price, 3, becomes
the plan and nobody has paid for it. TLC found such a behaviour with
`MaxPlan = 3` and `MaxSpare = 2`. With the two plans of the run the exception is
empty.

`DispatchesEnd` has an exception too, `Shadowed`: the scheduler comes for one
attempt, but decides afresh from the month and the present plan, so its decision
may fall on another attempt of the month, and its answer `already_claimed` sets
nothing aside. This takes two attempts in a month, hence three plans and a
downgrade. Section 6 has the run in which the exception leaves an attempt
dispatched for ever; with the two plans of `auto_upgrade` it is empty, and a
larger instance (section 4) checks the property where it is not.

Fairness: time passes, a running function takes its next step (which may be a
failure or its end), and the scheduler visits every open attempt (a cron every
15 minutes that inspects up to 20 candidates). Usage and Stripe's events need not
come: `DispatchesEnd` must hold without them. The assumption
`Window + MaxDuration <= KeyLife` is the code's 23 hours plus at most 5 minutes
against Stripe's 24 hours.

### 3.8 URL operations: `UrlOperation`

One observed URL of one project. `row` is its `TranslatedUrl` with the operation
state, the confirmation of the last claim (`operationToken`) and a version that
stands for `lastSeenAt` and `lastOperationAt`, which the code always compares
together. A confirmation (`Tokens`) is the fingerprint of what a preview showed:
the row, the texts with their contexts, the glossary's and the provider's
settings as versions (`content`). A function (`request[q]`) passes the places of
the route: `Confirm` takes the idempotency key, `Recover` looks for a receipt of
the same attempt and completes the operation from it without a call, `Review`
takes the preview again, `Delete` is the deletion's transaction, `Claim` the
compare-and-set to `provider_pending`, `Dispatch` the boundary of the translate
route, `Store` the transaction with texts, usage and receipt, and
`AnswerEmpty`/`Refuse`/`Throw`/`MarkFailed` the failures before and after the
call. `Judge` and `RecordOutcome` are two statements: the receipt is read, then
the outcome is written by id alone. `Die` ends a function anywhere, `Forget` ends
a key: released, its lease over, or its answer a day old. Everyone else: `Visit`
(a translated visit touches the row), `Sync` (the plugin's report), `Edit`,
`RemoveLanguage`, `AddLanguage`, `Dismiss` (a manager loses the project),
`Transfer`, and `Reconcile`, the operator's UPDATE of
`docs/product-decisions/url-operations.md:11`.

The properties: `OutcomesAreTrue` (while the outcome of a paid call is unknown
its URL is `provider_pending` with its confirmation; `completed` has a receipt;
`failed`, which invites a retry, was never called), `ConfirmationsPayOnce`,
`UsageStaysHome` (a receipt bills the workspace that owns the project), and
`DeletesAreConfirmed`.

Abstractions and assumptions: counts of words, quota and velocity are refusals; a
function ends (120 s) before its lease does (5 minutes), which is why `Forget`
waits for it; the operator reconciles only once no function of the attempt runs,
as the runbook asks ("Only after that evidence is recorded"); two writes within
one millisecond get different versions here. A page of a deletion
(`nextAfterId`) is a `Delete` that keeps the row.

Observation, not asserted: the removal of a language deletes a
`provider_pending` row without a check, although the same document says in line
9 that such a URL stays pending and blocks deletion; `OutcomesAreTrue` speaks
of a row that exists.

### 3.9 The plugin's cache: `PluginCache`

The SaaS side is `feed` (one digest event per edited text, ids in the order of
the commits because edits hold the project's lock) and `generation` (the identity
of each `ProjectLanguage`: `Switch` deletes a language, or adds it again as a new
one; the generations in between, which are odd, stand for a language that is not
listed). The site's side is what WordPress keeps in options and transients:
`known` generations, `epochs`, the `marker` beside them, the `cursor`, the `lock`
(an option row of 60 seconds), the scheduled drain (`due`) and `copies`, a text
per slot, where a slot is an epoch or the plain value of old versions.

A visitor's request refreshes the settings: `StartRefresh`, `Fetch`,
`ApplySettings`, `AdvanceLanguages`, then one page of the feed: `Delete` per
digest, `Retire` (positive epochs advance once per cursor), `SaveCursor`,
`Continue`. Further pages are left to WP-Cron (`StartDrain`), at most two per
process, where the warmer may have looked texts up before (`Warm`). `Ask` and
`Store` are a page's or the warmer's translation under way: it is stored under
the epoch read for the miss, however late. `FetchFails`, `ReadbackFails` and
`Die` are the failures, and `AdvanceFails` a write of the epochs that fails
unnoticed: unlike all others it has no readback (`Sync/SettingsSync.php:306`), so
the process goes on with the epochs it has read. A lock may also be taken from a live process that is slow.

A PHP process reads an option or a transient once and then from its own cache,
which other processes do not refresh: `read` and `missing` of a job. `snapshot`
holds the generations a refresh was told, until `ApplySettings` replaces them by
the languages that have `changed`, removed ones included. This is
WordPress without a shared object cache, as
`wordpress-plugin/deepglot/tests/RuntimeConfigRaceTest.php` describes it.

`AcknowledgedEditsAreGone`: of the texts edited before the cursor, the site shows
only translations that were stored after the edit (an answer that was asked for
before it may come late, which is the one kind of outdated text left; it lives for
30 days at most). "The digest must be applied before cursor advancement."
(`wordpress-plugin/deepglot/tests/UrlCacheInvalidationTest.php:42`).
`LanguagesStartEmpty`: texts stored for a deleted language are not shown for the
one added again under its code. `EditsAreAcknowledged`: the cursor reaches the
end of the feed whatever failed before.

Two premises mark what the code does not protect; without them TLC finds
counterexamples. `misled`: a process used an outdated read of its own. A WP-Cron
process whose warmer missed a text, which a visitor then stores and an editor
then replaces, finds the transient "missing" in its drain, deletes nothing and
acknowledges the edit. `unfinished`: a process died between the settings
(`Sync/SettingsSync.php:282`) and the epochs (line 306), or could not write the
epochs. The next refresh then
sees unchanged generations, and the old language's texts stay, although
`docs/product-decisions/target-language-lifecycle.md:13` says that WordPress
advances the epoch.

Fairness: a process that runs takes its next step, and visitors keep coming (a
refresh is due again and again). WP-Cron is not assumed to run: every refresh
takes a page.

Abstractions: one configuration (API key and backend); events of the old format
without a language, which advance all epochs; page caches; malformed batches,
which are refused as a whole; edits that post no event.

## 4. Runs and bounds

| Run | Instance | Shows | States |
|---|---|---|---|
| `idempotency` | three requests, one with another body; leases of 1, functions of 4, clock to 2 | leases exclude, replays match, register implemented, all requests leave | 519,581 |
| `rate_limit` | spenders of 1, 1, 2, 3 words against a cap of 2; two calls against a limit of 1 | exact accounting, caps per window | 1.8 million |
| `budget` | two organizations and projects, a request with two runs beside another one, two policies that differ in currency, cap, rate and end, two months | holds, settlements, caps, alerts, homes, currencies | 157,116 |
| `workspace_ai` | three runs of a preview, valid until 1, retention 2, clock to 4 | a charged preview stays blocked, its mark is permanent | 196,110, up to symmetry |
| `webhooks` | one delivery, two crons and the test call, one retry, one fault, one import, a transfer | retries, acknowledgements, secrets, conclusion | 693,065 |
| `webhook_retry` | two endpoints, one of them disabled, batches of one | violation, section 6 | |
| `segment_races` | one segment, two languages, one translation, one tab, one member, two texts, three writes | versions, tabs, confirmations, approvals, assignments, removed languages | 174,735 |
| `segment_stale` | as `segment_races` without departures | violation, section 6 | |
| `auto_upgrade` | one cron and one producer, two plans, one month, one spare event | one charge, held charges, paid raises, dispatches end | 664,992 |
| `auto_upgrade_held` | as `auto_upgrade` with three plans, clock to 1 | violation, section 6 | |
| `url_operations` | two managers, two functions at a time, two workspaces, four requests or changes by others | outcomes are true, a confirmation pays once, usage stays home, deletions are confirmed | 2,039,122 |
| `plugin_cache` | one text in one language, a site one event behind, two events, pages of one event, a visitor, a WP-Cron process, a translation under way, the language deleted and added again, one trouble | acknowledged edits are gone, languages start empty, every edit is acknowledged | 1,303,809 |

Why the bounds are enough to be interesting. The races are between two actors
and a third that arrives in between, so two or three of each are used: with
three requests an owner, a taker-over and a waiter coexist, with words of
1, 1, 2 and 3 against a cap of 2 the cap is reached in two ways, an oversized request is
refused, and refunds meet a window that has ended. Clocks run far enough for one lease, window or retention to end while
something is under way. `MaxFaults`, `MaxImports`, `MaxWrites`, `MaxDepartures`,
`MaxSpare`, `MaxMonth`, `MaxDeliveries`, `MaxInputs`, `MaxEdits`, `MaxSwitches`,
`MaxTroubles`, `MaxEpoch` and `MaxTime` bound what would otherwise be unbounded; all appear as guards of the actions they bound. In the webhook run
one delivery suffices because deliveries interact only through the batch, which
is what `webhook_retry` is about. In `auto_upgrade`, `Reclaim = 0` allows more
overlap than the code's ten minutes. Larger instances were tried outside of the
runs: `AutoUpgrade` with `Reclaim = 1`, `Window = 2`, `KeyLife = 3`, `MaxTime = 3`
(1,626,629 states), its safety with `Months = {0, 2}` (2,537,379 states), and all
four properties of `auto_upgrade` with `MaxPlan = 3` and `MaxTime = 1` (5,272,208
states); `PluginCache` with a backlog of two events, three events in all and no
drain scheduled at first (2,363,101 states).

In `segment_races` one row suffices because a step that touches several rows
(a bulk review) does to each what it does to one; that one stale row keeps all of
them from moving is part of `BulkWorkflow`'s guard, and the theorems cover any
number of rows. In `budget` the two runs `a1` and `a2` are the retry of one request
and `a3` the competitor for its caps. In `url_operations`, `MaxInputs` bounds the requests
that execute and what others change together (four of them make a claim, a second
confirmation, an edit and a transfer or a removal possible in one behaviour);
`AddLanguage` and `Reconcile` are not counted. In `plugin_cache`, pages of one
event, one event of backlog and one edit make a drain of several pages; two
switches delete the language and add it again; the trouble is a death, a failed
request, write or readback, or the lock of a live process that is taken.

Type invariants are proved for all constants (the `TypeCorrect` theorems) and are
not part of the runs, except that of `PluginCache`, whose bounds on cursor,
marker and pages a slip in the marker breaks; its `MaxEpoch = 6` is above what
two edits and two switches can reach.

Symmetry is used where no liveness is checked and the symmetric elements are
interchangeable: runs of a preview, spenders of equal words, callers, runs of a
request, managers, functions, workspaces.
Deadlock is off where a bounded instance ends by design (all requests answered,
all words spent, all writes used).

## 5. Proofs

TLAPS proves these for every value of the constants that satisfies the named
assumptions (`TimingAssumption`, `LimitAssumption`, `BudgetAssumption`, ...,
which are evaluated in the runs).

| Module | Theorems | Inductive invariant |
|---|---|---|
| `IdempotencyProofs` | `TypeCorrect`, `LeasesExclude`, `OneExecution`, `ReplaysMatch`, `AnswersAreFinal`, `Refinement` | the row belongs to a request that claimed it, readings of the clock are in the past, whoever works within its lease owns the row |
| `LimitProofs` (on `RateLimit`) | `LimitTypeCorrect`, `CallsLimited`, `WordsAreExact`, `WordsLimited`, `CapNeverExceeded`, `WindowsAdvance` | types, late clocks, `count <= WordLimit`; for calls: the admitted calls of the open window are no more than its count; for words, `WordInv`: what is held of any window is within the cap, the row counts at least what is held of its window, and exactly that while the window is open |
| `LimitProofs` (on `AiBudget`) | `TypeCorrect`, `HoldsOutliveCalls`, `ProjectsWaitForHolds`, `RequestsRunOnce`, `MonthsHaveOneCurrency`, `SettlementsStayWithin`, `LedgerIsFinal`, `SpendingStaysWithinCaps`, `CrossingsLeaveMarkers` | `TypeOK` and `CallsAreHeld`, and that the ledger is finite (`LedgerFinite`); the others are inductive on top of it |
| `WorkspaceAiProofs` | `TypeCorrect`, `DispatchersKeepTheReceipt`, `SpentPreviewsStayBlocked`, `MarkersArePermanent`, `PreviewsAreCalledOnce` | `DispatcherOwnsReceipt`, one payer, clocks agree, a spent preview is blocked for later clocks too |
| `WebhookDeliveryProofs` | `TypeCorrect`, `GivenUpAfterRetries`, `SuccessesAreAcknowledged`, `EndpointsSign`, `ConclusionsAreFinal` | a job's copy of the attempts lags behind the attempts made, origins are where the endpoint is, secrets are home |
| `TranslationSegmentsProofs` | `TypeCorrect`, `VersionsAreSound`, `AssignmentsAreValid`, `RemovalIsFinal`, `TabsAreCurrent`, `ForcedWritesAreSafe`, `ApprovalsFollowTexts`, `AssignmentsAreHeld` | versions are stamped by the write counter and name a text, requests stay in their language, assignees may work |
| `AutoUpgradeProofs` | `TypeCorrect`, `ChargedOnce`, `ChargesStayHeld`, `RaisesAreEarned` | what each function knows of its attempt is still so (`CallsAreSound`), and for every attempt what Stripe's ledger says of its key (`Booked`); for raises `PInv`: every price Stripe shows is known, every plan from the first to the present one is earned |
| `UrlOperationProofs` | `TypeCorrect`, `StatesAreTrue`, `PaidOnce`, `BilledAtHome`, `DeletesConfirmed` | a claimed confirmation matches no row to come (`ClaimsSpent`), one function holds it (`Alone`) and its key (`Keyed`), and the row it claimed is `provider_pending` with it or gone (`Owned`) |
| `PluginCacheProofs` | `TypeCorrect`, `EditsLeaveTheCache`, `NewLanguagesStartEmpty` | `Shape`: pages lie in the feed, snapshots are not from the future; `SiteInv`: what cursor, marker and every process stand for has been done, and nothing is stored ahead of an epoch; `StartInv`: a language's texts are current or its epoch is owed |

The arguments, where they are more than an induction over the actions.

*Leases.* `LeaseOwnsRow` is what makes `ExclusiveWhileLeased` inductive: a
request that is within its lease is the owner in the row, and `Acquire` by
another is refused because the clock it compares with (`now`) is not later than
the real one. The refinement maps the row to the published answer while it is
`COMPLETED`; claim, wait, release and takeover are stutters of the register.

*Holds.* A reservation is made by the transaction that checks the owner of the
project, and transfer and deletion refuse while a row is pending; the proof
needs no relation between different attempts. `RequestsRunOnce` and
`MonthsHaveOneCurrency` are inductive because the admission looks at all rows of
the organization.

*Webhooks.* Nobody claims a row, so nothing can be said of two dispatchers that
hold the same copy; what survives is that any copy's count is at most the
attempts begun (`JobsLagBehind`), and a delivery is given up only by a copy whose
count has reached the retries.

*Versions.* A remembered version is at most the write counter and every write
takes the next one, so two rows with one version are one row; from there a writer
that compares the version has compared the text.

*Charges.* `ChargedOnce` is the only theorem about time: the first use of a key
is not earlier than the attempt's creation, a request leaves at most `Window`
plus `MaxDuration` after it, and the key lives longer than that.
`ChargesStayHeld` follows from `Booked`, since only a function that has not sent
the change, or that has seen it refused, may cancel.

*Raises.* An attempt starts from the plan reached so far, so every plan from the
first to the one an attempt starts from is earned, and Stripe shows only prices
of changes it carried out. When an event's price becomes the plan, the attempt of
that price is either applied, hence paid, or among those the handler looks at;
then the newest of these starts from a higher plan, and all plans up to it are
earned, or from a lower one, and the attempt is overtaken.

*URL operations.* The argument follows the claim, not the key: a claim raises the
version of the row, so its confirmation never matches the row again, and no second
claim of it succeeds whatever became of the key. The outcome is written by id
alone; that this is the holder's own row follows from `Owned`, and that nobody
completes it in between from `Keyed`, since only a repeat of the same request by
the same manager finds the receipt.

*Calls and words per window.* `CallsPerWindow` is about the size of a set of
admitted calls; a step adds one call to a finite set (`FS_AddElement`), so no
induction over sets is needed. The sums of words and of money are sizes of sets of
units too (`Amounts`): the lemmas `SumAdd`, `SumRemove`, `SumMonotone` and
`SumSame` say how a sum changes with one element, from the sizes of a disjoint
union. `WordsAreExact` is not inductive by itself: a refund takes words out of the
row only if the spender's `resetAt` is the row's, hence only words that are in the
sum, but one that comes after the window's end may change who holds words and not
the row, and a new window starts from nothing. `WordInv` keeps an inequality for
the time after the end, and the cap for every window that ever was.

*Caps and alerts.* A step changes at most one row of the ledger, so the total
committed in an organization, a project and a month grows only by a reservation.
That one was compared with the cap as it was at that moment, against the same
sum, and it writes the marker of every threshold it crosses; a settlement writes no
more than was held, and what becomes `UNKNOWN` stays held in full.

*The plugin's cache.* An event is purged when no older text is left in the plain
value and the slot of epoch 0, and turned when the present epoch shows none
(`Purged`, `Turned`). Both last: a text is stored after all edits so far
(`FreshStays`), and an epoch that advances finds its slot empty, because nothing is
stored ahead of an epoch (`NothingAhead`). So it is enough to say what each number
stands for: up to the cursor events are purged and turned, up to the marker (also
the one a process has read) they are turned, up to a job's `from` all is done and up
to its `next` the digests are gone. `PageTurned` is the step that retires a page:
either the marker says that this cursor's epochs were advanced, whoever did it, or
they are advanced now. Deaths, failed readbacks and stolen locks only throw jobs
away, or run two of them side by side, and the invariant says nothing of the lock:
the lock spares work, the order of deletion, epochs and cursor is what protects the
cache. What it needs is that no process writes back an outdated option or skips a
digest because of an outdated miss, hence the premise `~misled`.
For `NewLanguagesStartEmpty` the generation of a language may be ahead of
its texts only while the process that stored it still owes the epoch.

*Maxima.* Induction over the naturals with an operator parameter is not available
to the provers, but its first-order form is: a non-empty set of naturals has a least
element (`WFMin` of WellFoundedInduction with `NatLessThanWellFounded`). `MaxOfBounded`
uses it for `LastEdit`.

Only model-checked: liveness (`EventuallyAnswered`, `DeliveriesConclude`,
`DispatchesEnd`, `EditsAreAcknowledged`), which is out of the prover's reach, as
anything with ENABLED is; and the three properties of section 6, which do not
hold. Every other property of the runs is a theorem. What stays unproved beside
them is what the runs' assumption `SumsAreFolds` compares on its instance: that
counting units gives what a fold gives, an induction over data.

## 6. Where the code does not do what is said of it

Each is a run that TLC ends with a counterexample.

1. `webhook_retry`. `dispatchPendingWebhookDeliveries` takes the oldest due rows
   whatever their endpoint (`lib/project-webhook-delivery.ts:205`), and the
   dispatch leaves rows of a disabled endpoint as they are. Enough of them fill
   the batch of 25 of every cron run, and newer deliveries are never retried,
   although `components/marketing/developer-docs.tsx:349` says "Failed
   deliveries retry after 60, 300, and 900 seconds."
2. `segment_stale`. A machine translation resets the review status only of rows
   its lookup had found, as they were then (`api/translate/route.ts:973`). A row
   that is created and approved while the provider works gets the machine's text
   and stays `APPROVED`; `lib/translation-workflow-wiring.test.ts:114` says
   "visual-editor, import, and machine translate writes invalidate stale
   approval".
3. `auto_upgrade_held`. An attempt from plan 2 is dispatched and its answer lost;
   the customer goes back to plan 1, from which an attempt of the same month was
   applied before. The scheduler enters for the dispatched attempt, but
   `maybeAutoUpgradeAfterUsage` looks the attempt up by month and present plan,
   finds the applied one and returns `already_claimed` (`lib/auto-upgrade.ts:138`).
   Only `disabled`, `configuration_changed` and `ineligible` set a dispatched attempt
   aside (`lib/auto-upgrade-reconcile.ts:15`), so this one stays `DISPATCHING` for
   ever and nobody is notified, although `docs/auto-upgrade.md:7` says "A changed remote state with no
   bound response is held as `UNKNOWN` for manual reconciliation; an older
   uncertain attempt is also held."

What remains of 2 and 3 when these cases are excepted, `ApprovalsLapse` and
`DispatchesEnd`, is checked by `segment_races` and `auto_upgrade`; the former is
also proved.

## 7. What is not modelled

`PROJECT.json` names every component. Left out for good: text processing
(segmentation, glossary matching, slugs, PDF, media URLs, import and export formats), rendering,
access control (sessions, invitations, API keys), append-only logs and daily
deletes (audit, page views), read-only views (runtime configuration, languages,
switcher), provider clients, and scripts. Settings, media and settings-sync
change rows in single transactions under the project's lock; what they mean for
translation rows is in `TranslationSegments`. Not yet modelled are the components
of the plan below.

## 8. Plan

Done, in the order of their weight: the receipt every paid call rests on
(`Idempotency`), the limits (`RateLimit`), the money (`AiBudget`,
`WorkspaceAi`), the events (`WebhookDelivery`), the rows
(`TranslationSegments`), the subscription (`AutoUpgrade`), the paid operations on
URLs (`UrlOperation`) and the way an edit takes to the site (`PluginCache`).

Next:

1. `SourceInventory` (WordPress): a queue in one option under an option lock with
   takeover, commits that check the owner, sends outside the lock. Property: a
   newer capture is never replaced by an older one, no commit without the lock.
   The warmer's two queues are the same protocol with a second queue.
2. `ProfessionalOrders`: the order states with payment, delivery, adoption and
   refund, over repeated and reordered events of Stripe.
3. `WorkspaceMembers`: last owner and seats; the transfer as one transaction over
   the modules that have its parts.
4. `Notifications`: claims with a takeover after 15 minutes and the sentinel that
   precedes the send.
5. `PluginCache`: several configurations, whose cursors and markers carry an
   identity, and an abstract cache that may forget but not go back.
6. Proofs: of the modules above as they come; every safety property of the present
   ones is proved.
