---------------------------- MODULE UrlOperation ----------------------------
(***************************************************************************)
(* Manager operations on one observed URL of one project: a confirmed      *)
(* preview is retranslated by a paid provider, or the URL is deleted       *)
(* (src/app/api/projects/[projektId]/url-operations/route.ts, with the     *)
(* forced path of src/app/api/translate/route.ts).                         *)
(*                                                                         *)
(* A confirmation is the fingerprint of everything its preview showed.     *)
(* Between the request and the record of the provider's outcome lie seven  *)
(* transactions and the provider's call; between any two of them another   *)
(* manager may confirm the same preview, visitors and the plugin write to  *)
(* the URL, texts, rules and settings change, the language is removed, the *)
(* project moves to another workspace, or the function dies.               *)
(***************************************************************************)
EXTENDS Naturals, FiniteSets

CONSTANTS
    Managers,     \* users who may manage the project
    Requests,     \* functions running at the same time
    Workspaces,
    ManagersOf,   \* the project's managers in a workspace
    MaxInputs,    \* bound: requests that execute, and what others change
    NoRow, NoToken, Nobody, Nowhere

ASSUME UrlAssumption ==
    /\ MaxInputs \in Nat
    /\ Nobody \notin Managers
    /\ Nowhere \notin Workspaces
    /\ ManagersOf \in [Workspaces -> SUBSET Managers]

Actions == {"retranslate", "delete"}

(* operationState, with the two ways of being "failed" (lastResult) apart *)
States == {"none", "provider_pending", "completed", "failed", "reconciled", "synced"}

Contents == [segments: Nat, rules: Nat, settings: Nat]

(* A confirmation.  version stands for lastSeenAt and lastOperationAt,     *)
(* which are always compared together; segments for the texts with their   *)
(* contexts, rules for the glossary's, settings for the provider's.        *)
Tokens == [action: Actions, id: Nat, state: States, version: Nat, content: Contents]

ASSUME TokenAssumption == NoToken \notin Tokens

Rows == [id: Nat, state: States, token: Tokens \cup {NoToken}, version: Nat]

ASSUME RowAssumption == NoRow \notin Rows

(* claimed: the version the request's claim wrote *)
Attempts == [token: Tokens, actor: Managers, workspace: Workspaces, claimed: Nat]

VARIABLES
    row,        \* TranslatedUrl of the path and language
    content,    \* versions of what else the preview shows
    active,     \* the target language is one of the project's
    workspace,  \* organization of the project
    managers,   \* users who manage it now
    keys,       \* ApiIdempotencyRecord: processing or answered
    request,    \* functions under way
    calls,      \* attempts whose provider was called
    receipts,   \* UrlOperationReceipt
    cleared,    \* confirmations an operator reconciled
    clock,      \* number of row writes so far, which number the versions
    inputs      \* number of requests and of others' changes so far

vars == <<row, content, active, workspace, managers, keys, request,
          calls, receipts, cleared, clock, inputs>>

Phases == {"idle", "admitted", "reviewing", "fresh", "claimed", "threw", "called", "answered",
           "completing", "rejecting"}

Idle == [phase |-> "idle", actor |-> Nobody, workspace |-> Nowhere, token |-> NoToken,
         claimed |-> 0, called |-> FALSE]

Running == [phase: Phases \ {"idle"}, actor: Managers, workspace: Workspaces, token: Tokens,
            claimed: Nat, called: BOOLEAN]

TypeOK ==
    /\ row \in Rows \cup {NoRow}
    /\ content \in Contents
    /\ active \in BOOLEAN
    /\ workspace \in Workspaces
    /\ managers \in SUBSET Managers
    /\ keys \in SUBSET [actor: Managers, workspace: Workspaces, token: Tokens]
    /\ request \in [Requests -> Running \cup {Idle}]
    /\ calls \in SUBSET Attempts
    /\ receipts \in SUBSET Attempts
    /\ cleared \in SUBSET (Tokens \cup {NoToken})
    /\ clock \in Nat
    /\ inputs \in Nat

Init ==
    /\ row = [id |-> 1, state |-> "none", token |-> NoToken, version |-> 1]
    /\ content = [segments |-> 0, rules |-> 0, settings |-> 0]
    /\ active = TRUE
    /\ workspace \in Workspaces
    /\ managers = ManagersOf[workspace]
    /\ keys = {}
    /\ request = [q \in Requests |-> Idle]
    /\ calls = {}
    /\ receipts = {}
    /\ cleared = {}
    /\ clock = 1
    /\ inputs = 0

Live(q) == request[q].phase # "idle"
Token(q) == request[q].token

KeyOf(q) == [actor |-> request[q].actor, workspace |-> request[q].workspace,
             token |-> request[q].token]

AttemptOf(q) == [token |-> request[q].token, actor |-> request[q].actor,
                 workspace |-> request[q].workspace, claimed |-> request[q].claimed]

Fingerprint(a) ==
    [action |-> a, id |-> row.id, state |-> row.state, version |-> row.version,
     content |-> content]

(* Mutant: whoever manages the project now is asked, wherever it went. *)
EntitledAnywhere(q) == request[q].actor \in managers

(* canManageProjectForWrite, and the workspace the request came from *)
Entitled(q) == request[q].actor \in managers /\ workspace = request[q].workspace

Pending == row # NoRow /\ row.state = "provider_pending"
Current(q) == row # NoRow /\ row.id = Token(q).id

(* updateMany ... WHERE id, and perhaps a state: nothing when none matches *)
Written(matches, s, t) ==
    IF matches
    THEN /\ clock' = clock + 1
         /\ row' = [row EXCEPT !.state = s, !.token = t, !.version = clock + 1]
    ELSE UNCHANGED <<row, clock>>

Step(q, p) == request' = [request EXCEPT ![q].phase = p]
Finish(q) == request' = [request EXCEPT ![q] = Idle]

Others == <<content, active, workspace, managers, cleared>>

-----------------------------------------------------------------------------
(* The route. *)

(* POST without a confirmation shows a preview; one that has changed since *)
(* and left no trace would only be refused.                               *)
Shown ==
    {Token(q) : q \in {r \in Requests : Live(r)}} \cup {c.token : c \in calls}
    \cup IF row = NoRow THEN {} ELSE {Fingerprint(a) : a \in Actions}

(* POST with one.  A key that is processing or answered does not execute; *)
(* only what executes is a request here.                                  *)
Confirm(q, m) ==
    /\ ~Live(q)
    /\ inputs < MaxInputs
    /\ inputs' = inputs + 1
    /\ m \in managers
    /\ \E t \in Shown :
         LET key == [actor |-> m, workspace |-> workspace, token |-> t] IN
         /\ key \notin keys
         /\ keys' = keys \cup {key}
         /\ request' = [request EXCEPT ![q] =
              [phase |-> IF t.action = "retranslate" THEN "admitted" ELSE "reviewing",
               actor |-> m, workspace |-> workspace, token |-> t,
               claimed |-> 0, called |-> FALSE]]
    /\ UNCHANGED <<row, clock, calls, receipts, Others>>

(* a receipt of the same attempt completes it without another call *)
Recoverable(q) ==
    /\ \E r \in receipts : /\ r.token = Token(q)
                           /\ r.actor = request[q].actor
                           /\ r.workspace = request[q].workspace
    /\ Current(q)
    /\ row.token = Token(q)

Recover(q) ==
    /\ request[q].phase = "admitted"
    /\ IF Entitled(q) /\ ~Recoverable(q)
       THEN Step(q, "reviewing") /\ UNCHANGED <<row, clock>>
       ELSE /\ Finish(q)
            /\ Written(Entitled(q) /\ Pending, "completed", Token(q))
    /\ UNCHANGED <<keys, calls, receipts, inputs, Others>>

(* the preview is taken again, and must not have changed *)
Confirmed(q) ==
    /\ row # NoRow
    /\ Fingerprint(Token(q).action) = Token(q)
    /\ row.state # "provider_pending"

(* canRetranslate also asks for eligible segments and for quota *)
Review(q) ==
    /\ request[q].phase = "reviewing"
    /\ \/ Confirmed(q) /\ Step(q, "fresh")
       \/ (Confirmed(q) => Token(q).action = "retranslate") /\ Finish(q)
    /\ UNCHANGED <<row, clock, keys, calls, receipts, inputs, Others>>

(* the row is as it was when the preview was taken again *)
Unchanged(q) ==
    /\ Current(q)
    /\ row.version = Token(q).version
    /\ row.state = Token(q).state

-----------------------------------------------------------------------------
(* Deletion: one transaction. *)

(* Mutant: the deletion relies on the preview taken before it. *)
DeletableAsReviewed(q) == Entitled(q) /\ Current(q)

Deletable(q) ==
    /\ Entitled(q)
    /\ content.rules = Token(q).content.rules
    /\ Unchanged(q)
    /\ content.segments = Token(q).content.segments

(* all of the URL, or a page of 250 of its segments *)
Delete(q) ==
    /\ request[q].phase = "fresh"
    /\ Token(q).action = "delete"
    /\ \/ /\ Deletable(q)
          /\ content' = [content EXCEPT !.segments = @ + 1]
          /\ row' \in {row, NoRow}
       \/ /\ ~Deletable(q)
          /\ UNCHANGED <<content, row>>
    /\ Finish(q)
    /\ UNCHANGED <<clock, active, workspace, managers, keys, calls, receipts, cleared, inputs>>

-----------------------------------------------------------------------------
(* Retranslation: claim, call, store, and the record of the outcome. *)

(* Mutant: the claim relies on the preview taken before it. *)
ClaimableAsReviewed(q) == Entitled(q) /\ Current(q)

Claimable(q) == Entitled(q) /\ Unchanged(q)

Claim(q) ==
    /\ request[q].phase = "fresh"
    /\ Token(q).action = "retranslate"
    /\ Written(Claimable(q), "provider_pending", Token(q))
    /\ IF Claimable(q)
       THEN request' = [request EXCEPT ![q].phase = "claimed", ![q].claimed = clock + 1]
       ELSE Finish(q)
    /\ UNCHANGED <<keys, calls, receipts, inputs, Others>>

(* the dispatch boundary of the translate route *)
Dispatchable(q) ==
    /\ active
    /\ request[q].actor \in managers
    /\ content.rules = Token(q).content.rules
    /\ content.settings = Token(q).content.settings

Dispatch(q) ==
    /\ request[q].phase = "claimed"
    /\ Dispatchable(q)
    /\ calls' = calls \cup {AttemptOf(q)}
    /\ request' = [request EXCEPT ![q].phase = "called", ![q].called = TRUE]
    /\ UNCHANGED <<row, clock, keys, receipts, inputs, Others>>

(* refused before the call: a limit, a stale preview, a budget *)
Refuse(q) ==
    /\ request[q].phase = "claimed"
    /\ Step(q, "answered")
    /\ UNCHANGED <<row, clock, keys, calls, receipts, inputs, Others>>

(* the translation throws: nothing is written once the provider was called *)
Throw(q) ==
    /\ request[q].phase \in {"claimed", "called"}
    /\ IF request[q].called
       THEN Finish(q) /\ keys' = keys \ {KeyOf(q)}
       ELSE Step(q, "threw") /\ UNCHANGED keys
    /\ UNCHANGED <<row, clock, calls, receipts, inputs, Others>>

MarkFailed(q) ==
    /\ request[q].phase = "threw"
    /\ Written(Current(q) /\ Pending, "failed", row.token)
    /\ Finish(q)
    /\ keys' = keys \ {KeyOf(q)}
    /\ UNCHANGED <<calls, receipts, inputs, Others>>

(* the provider answered: texts, usage and receipt in one transaction *)
Storable(q) == Dispatchable(q) /\ content.segments = Token(q).content.segments

Store(q) ==
    /\ request[q].phase = "called"
    /\ Storable(q)
    /\ \A r \in receipts : r.token # Token(q)
    /\ content' = [content EXCEPT !.segments = @ + 1]
    /\ receipts' = receipts \cup {AttemptOf(q)}
    \* what follows the transaction (quota alerts, a plan upgrade) may throw
    /\ \/ Step(q, "answered") /\ UNCHANGED keys
       \/ Finish(q) /\ keys' = keys \ {KeyOf(q)}
    /\ UNCHANGED <<row, clock, active, workspace, managers, calls, cleared, inputs>>

(* the provider failed, or the transaction refused: a response, no receipt *)
AnswerEmpty(q) ==
    /\ request[q].phase = "called"
    /\ Step(q, "answered")
    /\ UNCHANGED <<row, clock, keys, calls, receipts, inputs, Others>>

(* Mutant: an error response counts as one from before the call. *)
OutcomeOfResponse(q) ==
    IF \E r \in receipts : r.token = Token(q) THEN "completing" ELSE "rejecting"

(* managerProviderOutcome *)
Outcome(q) ==
    CASE \E r \in receipts : /\ r.token = Token(q)
                             /\ r.actor = request[q].actor
                             /\ r.workspace = request[q].workspace -> "completing"
      [] OTHER -> IF request[q].called THEN "unknown" ELSE "rejecting"

Judge(q) ==
    /\ request[q].phase = "answered"
    /\ IF Outcome(q) = "unknown" THEN Finish(q) ELSE Step(q, Outcome(q))
    /\ UNCHANGED <<row, clock, keys, calls, receipts, inputs, Others>>

RecordOutcome(q) ==
    /\ request[q].phase \in {"completing", "rejecting"}
    /\ Written(Current(q),
               IF request[q].phase = "completing" THEN "completed" ELSE "failed",
               row.token)
    /\ Finish(q)
    /\ UNCHANGED <<keys, calls, receipts, inputs, Others>>

(* The platform ends the function (maxDuration), or a statement fails.     *)
Die(q) ==
    /\ Live(q)
    /\ Finish(q)
    /\ UNCHANGED <<row, clock, keys, calls, receipts, inputs, Others>>

(* The key is released, its lease (5 minutes) ends, which outlives its     *)
(* function (maxDuration, 2 minutes), or its answer is a day old.          *)
Forget(k) ==
    /\ k \in keys
    /\ \A q \in Requests : ~(Live(q) /\ KeyOf(q) = k)
    /\ keys' = keys \ {k}
    /\ UNCHANGED <<row, clock, request, calls, receipts, inputs, Others>>

-----------------------------------------------------------------------------
(* Everyone else. *)

Around == <<keys, request, calls, receipts>>

Event ==
    /\ inputs < MaxInputs
    /\ inputs' = inputs + 1
    /\ UNCHANGED Around

Seen(s) == [id |-> clock + 1, state |-> s, token |-> NoToken, version |-> clock + 1]

(* a visit is translated: upsertTranslatedUrlHit *)
Visit ==
    /\ Event
    /\ active
    /\ clock' = clock + 1
    /\ row' = IF row = NoRow THEN Seen("none") ELSE [row EXCEPT !.version = clock + 1]
    /\ UNCHANGED <<content, active, workspace, managers, cleared>>

(* the plugin reports a synchronisation of the page *)
Sync ==
    /\ Event
    /\ active
    /\ ~Pending
    /\ clock' = clock + 1
    /\ row' = IF row = NoRow THEN Seen("synced")
              ELSE [row EXCEPT !.state = "synced", !.version = clock + 1]
    /\ UNCHANGED <<content, active, workspace, managers, cleared>>

(* a translation, a glossary rule or a setting is changed *)
Edit(part) ==
    /\ Event
    /\ content' = [content EXCEPT ![part] = @ + 1]
    /\ UNCHANGED <<row, clock, active, workspace, managers, cleared>>

(* its rows go with a target language *)
RemoveLanguage ==
    /\ Event
    /\ active
    /\ content' = [content EXCEPT !.segments = @ + 1]
    /\ active' = FALSE
    /\ row' = NoRow
    /\ UNCHANGED <<clock, workspace, managers, cleared>>

AddLanguage ==
    /\ ~active
    /\ active' = TRUE
    /\ UNCHANGED <<row, clock, content, workspace, managers, cleared, inputs, Around>>

Dismiss(m) ==
    /\ Event
    /\ m \in managers
    /\ managers' = managers \ {m}
    /\ UNCHANGED <<row, clock, content, active, workspace, cleared>>

(* commitWorkspaceTransfer: the members of the destination take over *)
Transfer ==
    /\ Event
    /\ ~Pending
    /\ workspace' \in Workspaces \ {workspace}
    /\ managers' = ManagersOf[workspace']
    /\ UNCHANGED <<row, clock, content, active, cleared>>

(* The operator's UPDATE of the runbook, once the attempt is over and its  *)
(* evidence has been recorded.                                             *)
Reconcile ==
    /\ Pending
    /\ \A q \in Requests : Live(q) => Token(q) # row.token
    /\ \A r \in receipts : r.token # row.token
    /\ cleared' = cleared \cup {row.token}
    /\ Written(TRUE, "reconciled", row.token)
    /\ UNCHANGED <<content, active, workspace, managers, inputs, Around>>

-----------------------------------------------------------------------------
RouteStep(q) ==
    \/ \E m \in Managers : Confirm(q, m)
    \/ Recover(q) \/ Review(q)
    \/ Delete(q)
    \/ Claim(q) \/ Dispatch(q) \/ Refuse(q) \/ Throw(q) \/ MarkFailed(q)
    \/ Store(q) \/ AnswerEmpty(q) \/ Judge(q) \/ RecordOutcome(q)
    \/ Die(q)

OtherStep ==
    \/ \E k \in keys : Forget(k)
    \/ Visit \/ Sync
    \/ \E part \in {"segments", "rules", "settings"} : Edit(part)
    \/ RemoveLanguage \/ AddLanguage
    \/ \E m \in Managers : Dismiss(m)
    \/ Transfer \/ Reconcile

Next == OtherStep \/ \E q \in Requests : RouteStep(q)

Spec == Init /\ [][Next]_vars

-----------------------------------------------------------------------------
(* A call whose outcome nobody knows: no receipt, and no operator's word. *)
Open(c) ==
    /\ \A r \in receipts : r.token # c.token
    /\ c.token \notin cleared

(* What a URL's operation state says is true.  While the outcome of a      *)
(* paid call is unknown its URL stays provider_pending with the call's     *)
(* confirmation, which is what blocks a second call, a deletion and a      *)
(* transfer; completed means that the receipt of that confirmation exists; *)
(* failed, which invites a retry, means that no provider was called under  *)
(* it.  (A URL removed with its language takes its state along.)           *)
OutcomesAreTrue ==
    row # NoRow =>
      /\ \A c \in calls : Open(c) /\ c.token.id = row.id =>
           row.state = "provider_pending" /\ row.token = c.token
      /\ row.state = "completed" => \E r \in receipts : r.token = row.token
      /\ row.state = "failed" => \A c \in calls : c.token # row.token

(* One confirmation pays for one provider call: whichever managers send    *)
(* it, however often, after whatever crash, lease takeover or forgotten    *)
(* answer.                                                                 *)
ConfirmationsPayOnce ==
    \A c, d \in calls : c.token = d.token => c = d

(* What a retranslation uses is billed to the workspace that owns the      *)
(* project at that moment, which is the one its manager acted for:         *)
(* a transfer waits for the claim, and a claim for a transfer.             *)
UsageStaysHome ==
    [][\A r \in receipts' \ receipts : r.workspace = workspace]_vars

(* A deletion of the URL, of all or of a page of its segments, removes     *)
(* what one live request's preview showed and nothing that changed since,  *)
(* and never while the outcome of a call is unknown.                       *)
DeletesAreConfirmed ==
    [][(active' /\ row # NoRow /\ row' = NoRow) =>
         /\ \E q \in Requests : /\ Live(q)
                                /\ Token(q).action = "delete"
                                /\ Token(q).version = row.version
                                /\ Token(q).content.segments = content.segments
         /\ \A c \in calls : Open(c) => c.token.id # row.id]_vars
=============================================================================
