---------------------------- MODULE WebhookDelivery ----------------------------
(***************************************************************************)
(* Project webhooks: queueing, dispatch and retry of deliveries            *)
(* (src/lib/project-webhook-delivery.ts), the cron that works through the  *)
(* due ones, the manager's test call, the endpoint routes and what a       *)
(* workspace transfer does to them.                                        *)
(*                                                                         *)
(* A dispatcher does not claim a row: it lists due rows, reads one, sends, *)
(* and writes the outcome over whatever the row has become.  Time is kept  *)
(* to what the queries see of it: a waiting delivery is due or not yet.    *)
(***************************************************************************)
EXTENDS Naturals, FiniteSets

CONSTANTS
    MaxDeliveries,  \* bound: deliveries are numbered in order of createdAt
    Endpoints,
    EndpointOf,     \* the endpoint each delivery is queued for
    Moved,          \* endpoints of the project that may be transferred
    Crons,          \* cron invocations that may overlap
    Tester,         \* the test route
    Limit,          \* rows per cron run
    Retries,        \* length of RETRY_DELAYS_SECONDS
    MaxFaults,      \* bound: crashes and failing transactions
    MaxImports,     \* bound: imports finishing at the same time
    NoRow, NoEndpoint, NoSecret

Deliveries == 1 .. MaxDeliveries
Dispatchers == Crons \cup {Tester}
Workspaces == {"source", "destination"}

ASSUME WebhookAssumption ==
    /\ MaxDeliveries \in Nat
    /\ Limit \in Nat \ {0}
    /\ Retries \in Nat
    /\ MaxFaults \in Nat
    /\ MaxImports \in Nat
    /\ Moved \subseteq Endpoints
    /\ EndpointOf \in [Deliveries -> Endpoints]
    /\ Tester \notin Crons

VARIABLES
    row,        \* WebhookDelivery
    created,    \* number of rows created so far
    imports,    \* import.completed events whose endpoint was found
    endpoint,   \* WebhookEndpoint
    workspace,  \* where the project of the Moved endpoints is
    job,        \* what a dispatcher does with a delivery
    tries,      \* history: attempts begun per delivery
    acked,      \* history: deliveries some receiver answered with 2xx
    faults      \* faults left

vars == <<row, created, imports, endpoint, workspace, job, tries, acked, faults>>

Statuses == {"PENDING", "SUCCESS", "FAILED"}

Rows == [status: Statuses, attempts: Nat, due: BOOLEAN, origin: Workspaces]

EndpointRows == [enabled: BOOLEAN, secret: Workspaces \cup {NoSecret},
                 last: Statuses \cup {"none"}]

Jobs == [place: {"none", "listed", "sending", "accepted", "refused"},
         attempts: Nat, secret: Workspaces \cup {NoSecret}]

Imports == [endpoint: Endpoints, origin: Workspaces]

ASSUME NullAssumption ==
    /\ NoRow \notin Rows
    /\ NoSecret \notin Workspaces
    /\ NoEndpoint \notin EndpointRows

Idle == [place |-> "none", attempts |-> 0, secret |-> NoSecret]
Listed == [Idle EXCEPT !.place = "listed"]
NoJobs == [d \in Deliveries |-> Idle]

Home(e) == IF e \in Moved THEN workspace ELSE "source"
On(e) == endpoint[e] # NoEndpoint /\ endpoint[e].enabled
Pending(d) == row[d] # NoRow /\ row[d].status = "PENDING"

Init ==
    /\ row = [d \in Deliveries |-> NoRow]
    /\ created = 0
    /\ imports = {}
    /\ endpoint = [e \in Endpoints |-> NoEndpoint]
    /\ workspace = "source"
    /\ job = [p \in Dispatchers |-> NoJobs]
    /\ tries = [d \in Deliveries |-> 0]
    /\ acked = {}
    /\ faults = MaxFaults

SetJob(p, d, place) == job' = [job EXCEPT ![p][d].place = place]
EndJob(p, d) == job' = [job EXCEPT ![p][d] = Idle]
Free(p) == job[p] = NoJobs

-----------------------------------------------------------------------------
(* queueProjectWebhookEvent creates a row for an enabled endpoint, in the  *)
(* transaction of the change it tells of, which holds the project's lock;  *)
(* the test route creates one likewise and dispatches it itself.           *)
CreateRow(d, origin) ==
    /\ d = created + 1
    /\ endpoint[EndpointOf[d]] # NoEndpoint
    /\ created' = d
    /\ row' = [row EXCEPT ![d] = [status |-> "PENDING", attempts |-> 0,
                                  due |-> TRUE, origin |-> origin]]

CreateHere(d) ==
    /\ On(EndpointOf[d])
    /\ CreateRow(d, Home(EndpointOf[d]))

Queue(d) ==
    /\ CreateHere(d)
    /\ UNCHANGED <<imports, endpoint, workspace, job, tries, acked, faults>>

Test(d) ==
    /\ Free(Tester)
    /\ CreateHere(d)
    /\ job' = [job EXCEPT ![Tester][d] = Listed]
    /\ UNCHANGED <<imports, endpoint, workspace, tries, acked, faults>>

(* The end of an import is told outside a transaction: the endpoint is     *)
(* found enabled, then the row is created, or refused by its foreign key.  *)
FinishImport(e) ==
    /\ On(e)
    /\ Cardinality(imports) < MaxImports
    /\ imports' = imports \cup {[endpoint |-> e, origin |-> Home(e)]}
    /\ UNCHANGED <<row, created, endpoint, workspace, job, tries, acked, faults>>

QueueImport(d, i) ==
    /\ EndpointOf[d] = i.endpoint
    /\ CreateRow(d, i.origin)
    /\ imports' = imports \ {i}
    /\ UNCHANGED <<endpoint, workspace, job, tries, acked, faults>>

DropImport(i) ==
    /\ endpoint[i.endpoint] = NoEndpoint
    /\ imports' = imports \ {i}
    /\ UNCHANGED <<row, created, endpoint, workspace, job, tries, acked, faults>>

-----------------------------------------------------------------------------
(* Mutant: the query forgets the status.                                   *)
DueAnyStatus == {d \in Deliveries : row[d] # NoRow /\ row[d].due}

(* Mutant: only rows that were never tried.                                *)
DueFirstAttempt ==
    {d \in Deliveries : Pending(d) /\ row[d].due /\ row[d].attempts = 0}

Due == {d \in Deliveries : Pending(d) /\ row[d].due}

(* The first Limit due rows in order of creation.                          *)
Batch == {d \in Due : Cardinality({c \in Due : c < d}) < Limit}

List(p) ==
    /\ Free(p)
    /\ Batch # {}
    /\ job' = [job EXCEPT ![p] =
           [d \in Deliveries |-> IF d \in Batch THEN Listed ELSE Idle]]
    /\ UNCHANGED <<row, created, imports, endpoint, workspace, tries, acked, faults>>

(* The row and its endpoint are read again by id, whatever their status; a *)
(* delivery of a disabled endpoint is left as it is.                       *)
Read(p, d) ==
    /\ job[p][d].place = "listed"
    /\ IF row[d] # NoRow /\ On(EndpointOf[d])
       THEN job' = [job EXCEPT ![p][d] =
                [place |-> "sending", attempts |-> row[d].attempts,
                 secret |-> endpoint[EndpointOf[d]].secret]]
       ELSE EndJob(p, d)
    /\ UNCHANGED <<row, created, imports, endpoint, workspace, tries, acked, faults>>

(* The POST: a 2xx, or another status, a timeout or an unsafe target.      *)
Attempt(p, d) ==
    /\ job[p][d].place = "sending"
    /\ tries' = [tries EXCEPT ![d] = @ + 1]
    /\ \/ SetJob(p, d, "accepted") /\ acked' = acked \cup {d}
       \/ SetJob(p, d, "refused") /\ UNCHANGED acked
    /\ UNCHANGED <<row, created, imports, endpoint, workspace, faults>>

-----------------------------------------------------------------------------
(* Mutant: the retry delay is looked up with the new attempt count.        *)
OutcomeOffByOne(attempts, accepted) ==
    IF accepted THEN "SUCCESS"
    ELSE IF attempts + 1 < Retries THEN "PENDING" ELSE "FAILED"

(* Mutant: a delivery is done after any answer.                            *)
OutcomeAnyAnswer(attempts, accepted) ==
    IF accepted \/ attempts > 0 THEN "SUCCESS" ELSE "PENDING"

(* The status after one more attempt: a failed one is retried as long as   *)
(* there is a delay for it.                                                *)
Outcome(attempts, accepted) ==
    IF accepted THEN "SUCCESS"
    ELSE IF attempts < Retries THEN "PENDING" ELSE "FAILED"

(* updateDeliveryOutcome: the row from what the dispatcher read of it, and *)
(* the endpoint's last status, in one transaction.                         *)
Record(p, d, accepted) ==
    LET status == Outcome(job[p][d].attempts, accepted) IN
    /\ job[p][d].place = IF accepted THEN "accepted" ELSE "refused"
    /\ row[d] # NoRow
    /\ row' = [row EXCEPT ![d].status = status,
                          ![d].attempts = job[p][d].attempts + 1,
                          ![d].due = status # "PENDING"]
    /\ endpoint' = [endpoint EXCEPT ![EndpointOf[d]].last = status]
    /\ EndJob(p, d)
    /\ UNCHANGED <<created, imports, workspace, tries, acked, faults>>

(* It fails when the row is gone: first into the catch block, which records*)
(* a failed attempt, then out of the dispatcher.                           *)
RecordFails(p, d) ==
    \/ job[p][d].place = "accepted" /\ SetJob(p, d, "refused")
    \/ job[p][d].place = "refused" /\ EndJob(p, d)

Vanished(p, d) ==
    /\ row[d] = NoRow
    /\ RecordFails(p, d)
    /\ UNCHANGED <<row, created, imports, endpoint, workspace, tries, acked, faults>>

(* The same when the database fails.                                       *)
Fault(p, d) ==
    /\ faults > 0
    /\ faults' = faults - 1
    /\ RecordFails(p, d)
    /\ UNCHANGED <<row, created, imports, endpoint, workspace, tries, acked>>

Crash(p) ==
    /\ faults > 0
    /\ faults' = faults - 1
    /\ ~Free(p)
    /\ job' = [job EXCEPT ![p] = NoJobs]
    /\ UNCHANGED <<row, created, imports, endpoint, workspace, tries, acked>>

(* The retry delay passes.                                                 *)
Elapse(d) ==
    /\ Pending(d)
    /\ ~row[d].due
    /\ row' = [row EXCEPT ![d].due = TRUE]
    /\ UNCHANGED <<created, imports, endpoint, workspace, job, tries, acked, faults>>

-----------------------------------------------------------------------------
CreateEndpoint(e, on) ==
    /\ endpoint[e] = NoEndpoint
    /\ endpoint' = [endpoint EXCEPT ![e] =
           [enabled |-> on, secret |-> Home(e), last |-> "none"]]
    /\ UNCHANGED <<row, created, imports, workspace, job, tries, acked, faults>>

(* Mutant: PATCH enables whatever it is asked to.                          *)
ConfigurableAlways(e, on, rotate) == endpoint[e] # NoEndpoint

(* PATCH: an endpoint whose secret was erased is enabled only with a new   *)
(* one.                                                                    *)
Configurable(e, on, rotate) ==
    /\ endpoint[e] # NoEndpoint
    /\ on /\ endpoint[e].secret = NoSecret => rotate

Configure(e, on, rotate) ==
    /\ Configurable(e, on, rotate)
    /\ endpoint' = [endpoint EXCEPT
           ![e].enabled = on,
           ![e].secret = IF rotate THEN Home(e) ELSE @]
    /\ UNCHANGED <<row, created, imports, workspace, job, tries, acked, faults>>

(* The deliveries go with their endpoint.                                  *)
DeleteEndpoint(e) ==
    /\ endpoint[e] # NoEndpoint
    /\ endpoint' = [endpoint EXCEPT ![e] = NoEndpoint]
    /\ row' = [d \in Deliveries |-> IF EndpointOf[d] = e THEN NoRow ELSE row[d]]
    /\ UNCHANGED <<created, imports, workspace, job, tries, acked, faults>>

(* commitWorkspaceTransfer: waiting deliveries fail, endpoints are         *)
(* disabled and lose their secrets.                                        *)
Transfer ==
    /\ workspace = "source"
    /\ Moved # {}
    /\ workspace' = "destination"
    /\ row' = [d \in Deliveries |->
                  IF EndpointOf[d] \in Moved /\ Pending(d)
                  THEN [row[d] EXCEPT !.status = "FAILED"] ELSE row[d]]
    /\ endpoint' = [e \in Endpoints |->
                  IF e \in Moved /\ endpoint[e] # NoEndpoint
                  THEN [endpoint[e] EXCEPT !.enabled = FALSE, !.secret = NoSecret]
                  ELSE endpoint[e]]
    /\ UNCHANGED <<created, imports, job, tries, acked, faults>>

-----------------------------------------------------------------------------
Step(p, d) ==
    \/ Read(p, d) \/ Attempt(p, d) \/ Vanished(p, d)
    \/ \E accepted \in BOOLEAN : Record(p, d, accepted)

Dispatch ==
    \/ \E p \in Crons : List(p)
    \/ \E p \in Dispatchers, d \in Deliveries : Step(p, d) \/ Fault(p, d)
    \/ \E p \in Dispatchers : Crash(p)

Manage ==
    \/ \E d \in Deliveries : Queue(d) \/ Test(d)
    \/ \E e \in Endpoints : FinishImport(e)
    \/ \E i \in imports :
           \/ DropImport(i)
           \/ \E d \in Deliveries : QueueImport(d, i)
    \/ \E e \in Endpoints, on \in BOOLEAN :
           \/ CreateEndpoint(e, on)
           \/ \E rotate \in BOOLEAN : Configure(e, on, rotate)
    \/ \E e \in Endpoints : DeleteEndpoint(e)
    \/ Transfer

Next == Dispatch \/ Manage \/ \E d \in Deliveries : Elapse(d)

Spec == Init /\ [][Next]_vars

(* vercel.json schedules the cron every 15 minutes; a dispatcher that is   *)
(* not killed goes on; delays pass.                                        *)
Fairness ==
    /\ \A p \in Crons : WF_vars(List(p))
    /\ \A p \in Dispatchers, d \in Deliveries : WF_vars(Step(p, d))
    /\ \A d \in Deliveries : WF_vars(Elapse(d))

FairSpec == Spec /\ Fairness

-----------------------------------------------------------------------------
TypeOK ==
    /\ row \in [Deliveries -> Rows \cup {NoRow}]
    /\ created \in 0 .. MaxDeliveries
    /\ imports \subseteq Imports
    /\ endpoint \in [Endpoints -> EndpointRows \cup {NoEndpoint}]
    /\ workspace \in Workspaces
    /\ job \in [Dispatchers -> [Deliveries -> Jobs]]
    /\ tries \in [Deliveries -> Nat]
    /\ acked \subseteq Deliveries
    /\ faults \in Nat

(* A delivery is given up by its dispatchers only after the first attempt  *)
(* and all the retries, however many dispatchers overlap and whatever they *)
(* wrote over each other; a waiting delivery still has a retry left.       *)
RetriesAreSpent ==
    \A d \in Deliveries : row[d] # NoRow =>
        /\ row[d].attempts <= tries[d]
        /\ row[d].status = "PENDING" => row[d].attempts <= Retries
        /\ row[d].status = "FAILED" /\ row[d].origin = Home(EndpointOf[d]) =>
               tries[d] > Retries

(* SUCCESS is only written for an event the receiver did acknowledge.      *)
SuccessIsAcknowledged ==
    \A d \in Deliveries : row[d] # NoRow /\ row[d].status = "SUCCESS" =>
        d \in acked

(* An endpoint that is enabled signs with a secret of the workspace it is  *)
(* in: no PATCH around a transfer brings the source's secret back or sends *)
(* with an empty one (docs/product-decisions/workspace-transfer.md).       *)
EnabledEndpointsSign ==
    \A e \in Endpoints : On(e) => endpoint[e].secret = Home(e)

(* A concluded delivery that no dispatcher holds is left alone.            *)
ConcludedIsFinal ==
    [][\A d \in Deliveries :
          /\ row[d] # NoRow
          /\ row[d].status # "PENDING"
          /\ \A p \in Dispatchers : job[p][d] = Idle
          => row'[d] \in {row[d], NoRow} /\ \A p \in Dispatchers : job'[p][d] = Idle]_vars

(* While no endpoint is disabled for good, every delivery is concluded,    *)
(* whatever the receivers answer and however small the batches are.        *)
DeliveriesConclude ==
    (\A e \in Endpoints : <>[](endpoint[e] # NoEndpoint => On(e))) =>
        \A d \in Deliveries : <>[]~Pending(d)

(* What the developer documentation says: a failed delivery is retried. It *)
(* is not while the batch is full of deliveries of disabled endpoints.     *)
FailedDeliveriesRetry ==
    \A d \in Deliveries, n \in 1 .. Retries :
        Pending(d) /\ On(EndpointOf[d]) /\ tries[d] = n
            ~> ~Pending(d) \/ ~On(EndpointOf[d]) \/ tries[d] # n
=============================================================================
