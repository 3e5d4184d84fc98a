------------------------- MODULE WebhookDeliveryProofs -------------------------
(* Proofs about webhook deliveries, for any number of overlapping          *)
(* dispatchers, endpoints, deliveries and retries.                         *)
EXTENDS WebhookDelivery, TLAPS

Reading == {"sending", "accepted", "refused"}

(* What a dispatcher holds is an older count of attempts, and its own      *)
(* attempt is counted once it was made.                                    *)
JobsLagBehind ==
    \A p \in Dispatchers, d \in Deliveries :
        /\ job[p][d].place \in Reading => job[p][d].attempts <= tries[d]
        /\ job[p][d].place \in {"accepted", "refused"} =>
               job[p][d].attempts < tries[d]
        /\ job[p][d].place = "accepted" => d \in acked

(* Nothing comes from the destination before the transfer.                 *)
OriginsAreHome ==
    workspace = "source" =>
        /\ \A d \in Deliveries : row[d] # NoRow => row[d].origin = "source"
        /\ \A i \in imports : i.origin = "source"

(* Deliveries go with their endpoint.                                      *)
RowsHaveEndpoints ==
    \A d \in Deliveries :
        row[d] # NoRow => endpoint[EndpointOf[d]] # NoEndpoint

(* A secret is its workspace's own, or was erased from a disabled endpoint.*)
SecretsAreHome ==
    \A e \in Endpoints : endpoint[e] # NoEndpoint =>
        \/ endpoint[e].secret = Home(e)
        \/ endpoint[e].secret = NoSecret /\ ~endpoint[e].enabled

(* Rows are created in order.                                              *)
RowsAreNumbered ==
    \A d \in Deliveries : row[d] # NoRow => d <= created

IInv ==
    /\ TypeOK
    /\ RowsAreNumbered
    /\ SecretsAreHome
    /\ RowsHaveEndpoints
    /\ JobsLagBehind
    /\ OriginsAreHome
    /\ RetriesAreSpent
    /\ SuccessIsAcknowledged

-----------------------------------------------------------------------------
LEMMA RowFields ==
    ASSUME NEW r \in Rows
    PROVE  /\ r # NoRow
           /\ r.status \in Statuses
           /\ r.attempts \in Nat
           /\ r.due \in BOOLEAN
           /\ r.origin \in Workspaces
BY NullAssumption DEF Rows

LEMMA JobFields ==
    ASSUME TypeOK, NEW p \in Dispatchers, NEW d \in Deliveries
    PROVE  /\ job[p][d] \in Jobs
           /\ job[p][d].attempts \in Nat
           /\ job[p][d].secret \in Workspaces \cup {NoSecret}
BY DEF TypeOK, Jobs

LEMMA HomeType ==
    ASSUME TypeOK, NEW e \in Endpoints
    PROVE  Home(e) \in Workspaces
BY DEF TypeOK, Home, Workspaces

(* A row is written for an event of the project's workspace, or of the one *)
(* an import ended in.                                                     *)
Writes(d, w) ==
    /\ CreateRow(d, w)
    /\ w = Home(EndpointOf[d]) \/ \E i \in imports : w = i.origin
    /\ UNCHANGED <<endpoint, workspace>>

LEMMA QueueWrites ==
    ASSUME TypeOK, NEW d \in Deliveries
    PROVE  /\ Queue(d) \/ Test(d) => \E w \in Workspaces : Writes(d, w)
           /\ \A i \in imports :
                  QueueImport(d, i) => \E w \in Workspaces : Writes(d, w)
<1>1. EndpointOf[d] \in Endpoints /\ Home(EndpointOf[d]) \in Workspaces
  BY WebhookAssumption, HomeType
<1>2. ASSUME Queue(d) \/ Test(d) PROVE Writes(d, Home(EndpointOf[d]))
  BY <1>2 DEF Queue, Test, CreateHere, Writes
<1>3. ASSUME NEW i \in imports, QueueImport(d, i)
      PROVE  i.origin \in Workspaces /\ Writes(d, i.origin)
  BY <1>3 DEF QueueImport, Writes, TypeOK, Imports
<1> QED BY <1>1, <1>2, <1>3

(* How the rows change.                                                    *)
LEMMA RowChanges ==
    ASSUME TypeOK, [Next]_vars
    PROVE  \/ row' = row
           \/ \E d \in Deliveries, w \in Workspaces : Writes(d, w)
           \/ \E p \in Dispatchers, d \in Deliveries, accepted \in BOOLEAN :
                  Record(p, d, accepted)
           \/ \E d \in Deliveries : Elapse(d)
           \/ \E e \in Endpoints : DeleteEndpoint(e)
           \/ Transfer
BY QueueWrites
   DEF Next, Dispatch, Manage, Step, List, Read, Attempt, Vanished, Fault,
       Crash, FinishImport, DropImport, CreateEndpoint, Configure, vars

(* How the jobs change.                                                    *)
LEMMA JobChanges ==
    ASSUME [Next]_vars
    PROVE  \/ job' = job
           \/ \E p \in Crons : List(p)
           \/ \E p \in Dispatchers : Crash(p)
           \/ \E d \in Deliveries : Test(d)
           \/ \E p \in Dispatchers, d \in Deliveries :
                  \/ Read(p, d)
                  \/ Attempt(p, d)
                  \/ RecordFails(p, d) /\ UNCHANGED <<tries, acked>>
                  \/ \E accepted \in BOOLEAN : Record(p, d, accepted)
BY DEF Next, Dispatch, Manage, Step, Vanished, Fault, Elapse,
       Queue, FinishImport, QueueImport, DropImport, CreateEndpoint, Configure, DeleteEndpoint, Transfer, vars

(* What the endpoint's workspace and the history depend on.                *)
LEMMA OtherChanges ==
    ASSUME [Next]_vars
    PROVE  /\ \/ UNCHANGED <<tries, acked>>
              \/ \E p \in Dispatchers, d \in Deliveries : Attempt(p, d)
           /\ UNCHANGED workspace \/ Transfer
<1>1. ASSUME NEW d \in Deliveries, Queue(d) \/ Test(d) \/ Elapse(d)
      PROVE  UNCHANGED <<tries, acked, workspace>>
  BY <1>1 DEF Queue, Test, Elapse
<1>2. ASSUME NEW p \in Dispatchers, Crash(p) \/ List(p)
      PROVE  UNCHANGED <<tries, acked, workspace>>
  BY <1>2 DEF Crash, List
<1>3. ASSUME NEW p \in Dispatchers, NEW d \in Deliveries,
             Read(p, d) \/ Vanished(p, d) \/ Fault(p, d)
      PROVE  UNCHANGED <<tries, acked, workspace>>
  BY <1>3 DEF Read, Vanished, Fault
<1>4. ASSUME NEW p \in Dispatchers, NEW d \in Deliveries,
             NEW accepted \in BOOLEAN, Record(p, d, accepted)
      PROVE  UNCHANGED <<tries, acked, workspace>>
  BY <1>4 DEF Record
<1>5. ASSUME NEW e \in Endpoints, NEW on \in BOOLEAN, NEW rotate \in BOOLEAN,
             \/ CreateEndpoint(e, on)
             \/ Configure(e, on, rotate)
             \/ DeleteEndpoint(e)
      PROVE  UNCHANGED <<tries, acked, workspace>>
  BY <1>5 DEF CreateEndpoint, Configure, DeleteEndpoint
<1>6. ASSUME NEW p \in Dispatchers, NEW d \in Deliveries, Attempt(p, d)
      PROVE  UNCHANGED workspace
  BY <1>6 DEF Attempt
<1>7. ASSUME Transfer PROVE UNCHANGED <<tries, acked>>
  BY <1>7 DEF Transfer
<1>8. ASSUME NEW e \in Endpoints, FinishImport(e)
      PROVE  UNCHANGED <<tries, acked, workspace>>
  BY <1>8 DEF FinishImport
<1>9. ASSUME NEW i \in imports, NEW d \in Deliveries,
             QueueImport(d, i) \/ DropImport(i)
      PROVE  UNCHANGED <<tries, acked, workspace>>
  BY <1>9 DEF QueueImport, DropImport
<1>10. ASSUME NEW i \in imports, DropImport(i)
       PROVE  UNCHANGED <<tries, acked, workspace>>
  BY <1>10 DEF DropImport
<1> QED BY <1>1, <1>2, <1>3, <1>4, <1>5, <1>6, <1>7, <1>8, <1>9, <1>10
        DEF Next, Dispatch, Manage, Step, Dispatchers, vars

LEMMA ImportChanges ==
    ASSUME [Next]_vars
    PROVE  /\ \/ imports' \subseteq imports
              \/ \E e \in Endpoints : FinishImport(e)
           /\ \/ created' = created
              \/ \E d \in Deliveries : \E w : CreateRow(d, w)
<1> DEFINE Same == imports' = imports /\ created' = created
<1>1. ASSUME NEW p \in Dispatchers, NEW d \in Deliveries,
             Read(p, d) \/ Attempt(p, d) \/ Vanished(p, d) \/ Fault(p, d)
      PROVE  Same
  BY <1>1 DEF Read, Attempt, Vanished, Fault
<1>2. ASSUME NEW p \in Dispatchers, NEW d \in Deliveries,
             NEW accepted \in BOOLEAN, Record(p, d, accepted)
      PROVE  Same
  BY <1>2 DEF Record
<1>3. ASSUME NEW p \in Dispatchers, List(p) \/ Crash(p) PROVE Same
  BY <1>3 DEF List, Crash
<1>4. ASSUME NEW e \in Endpoints, NEW on \in BOOLEAN, NEW rotate \in BOOLEAN,
             \/ CreateEndpoint(e, on)
             \/ Configure(e, on, rotate)
             \/ DeleteEndpoint(e)
      PROVE  Same
  BY <1>4 DEF CreateEndpoint, Configure, DeleteEndpoint
<1>5. ASSUME NEW d \in Deliveries, Elapse(d) PROVE Same
  BY <1>5 DEF Elapse
<1>6. ASSUME Transfer PROVE Same
  BY <1>6 DEF Transfer
<1>7. ASSUME NEW d \in Deliveries, Queue(d) \/ Test(d)
      PROVE  imports' = imports /\ \E w : CreateRow(d, w)
  BY <1>7 DEF Queue, Test, CreateHere
<1>8. ASSUME NEW e \in Endpoints, FinishImport(e) PROVE created' = created
  BY <1>8 DEF FinishImport
<1>9. ASSUME NEW i \in imports, DropImport(i)
      PROVE  imports' \subseteq imports /\ created' = created
  BY <1>9 DEF DropImport
<1>10. ASSUME NEW i \in imports, NEW d \in Deliveries, QueueImport(d, i)
       PROVE  imports' \subseteq imports /\ \E w : CreateRow(d, w)
  BY <1>10 DEF QueueImport
<1>11. CASE UNCHANGED vars
  BY <1>11 DEF vars
<1> QED BY <1>1, <1>2, <1>3, <1>4, <1>5, <1>6, <1>7, <1>8, <1>9, <1>10, <1>11
        DEF Next, Dispatch, Manage, Step, Dispatchers

LEMMA OutcomeStatus ==
    ASSUME NEW attempts \in Nat, NEW accepted \in BOOLEAN
    PROVE  Outcome(attempts, accepted) \in Statuses
BY DEF Outcome, Statuses

LEMMA RowUpdate ==
    ASSUME NEW r \in Rows, NEW status \in Statuses, NEW n \in Nat,
           NEW due \in BOOLEAN
    PROVE  [r EXCEPT !.status = status, !.attempts = n, !.due = due] \in Rows
BY DEF Rows

LEMMA IdleType == Idle \in Jobs /\ Listed \in Jobs
BY DEF Idle, Listed, Jobs

-----------------------------------------------------------------------------
LEMMA TypeInit == Init => TypeOK
<1> SUFFICES ASSUME Init PROVE TypeOK
  OBVIOUS
<1>1. job \in [Dispatchers -> [Deliveries -> Jobs]]
  BY IdleType DEF Init, NoJobs
<1> QED BY <1>1, WebhookAssumption DEF Init, TypeOK, Workspaces

LEMMA RowType ==
    ASSUME TypeOK, [Next]_vars
    PROVE  (row \in [Deliveries -> Rows \cup {NoRow}])'
<1>1. ASSUME NEW d \in Deliveries, NEW w \in Workspaces, Writes(d, w)
      PROVE  row' \in [Deliveries -> Rows \cup {NoRow}]
  BY <1>1 DEF Writes, CreateRow, TypeOK, Rows, Statuses
<1>2. ASSUME NEW p \in Dispatchers, NEW d \in Deliveries,
             NEW accepted \in BOOLEAN, Record(p, d, accepted)
      PROVE  row' \in [Deliveries -> Rows \cup {NoRow}]
  <2> DEFINE status == Outcome(job[p][d].attempts, accepted)
  <2>1. job[p][d].attempts \in Nat /\ status \in Statuses
    BY JobFields, OutcomeStatus
  <2>2. row[d] \in Rows
    BY <1>2 DEF Record, TypeOK
  <2> HIDE DEF status
  <2>3. [row[d] EXCEPT !.status = status,
                       !.attempts = job[p][d].attempts + 1,
                       !.due = status # "PENDING"] \in Rows
    <3>1. (status # "PENDING") \in BOOLEAN
      OBVIOUS
    <3>2. job[p][d].attempts + 1 \in Nat
      BY <2>1
    <3> QED BY <2>1, <2>2, <3>1, <3>2, RowUpdate
  <2>4. row' = [row EXCEPT ![d] =
                   [row[d] EXCEPT !.status = status,
                                  !.attempts = job[p][d].attempts + 1,
                                  !.due = status # "PENDING"]]
    BY <1>2, <2>2 DEF Record, status, TypeOK, Rows
  <2> QED BY <2>3, <2>4 DEF TypeOK
<1>3. ASSUME NEW d \in Deliveries, Elapse(d)
      PROVE  row' \in [Deliveries -> Rows \cup {NoRow}]
  BY <1>3 DEF Elapse, Pending, TypeOK, Rows
<1>4. ASSUME NEW e \in Endpoints, DeleteEndpoint(e)
      PROVE  row' \in [Deliveries -> Rows \cup {NoRow}]
  BY <1>4 DEF DeleteEndpoint, TypeOK
<1>5. CASE Transfer
  <2>1. ASSUME NEW d \in Deliveries, Pending(d)
        PROVE  [row[d] EXCEPT !.status = "FAILED"] \in Rows
    BY <2>1 DEF Pending, TypeOK, Rows, Statuses
  <2> QED BY <1>5, <2>1 DEF Transfer, TypeOK
<1> QED BY <1>1, <1>2, <1>3, <1>4, <1>5, RowChanges DEF TypeOK

LEMMA JobType ==
    ASSUME TypeOK, [Next]_vars
    PROVE  (job \in [Dispatchers -> [Deliveries -> Jobs]])'
<1>1. ASSUME NEW p \in Dispatchers, NEW new \in [Deliveries -> Jobs],
             job' = [job EXCEPT ![p] = new]
      PROVE  job' \in [Dispatchers -> [Deliveries -> Jobs]]
  BY <1>1 DEF TypeOK
<1>2. ASSUME NEW p \in Dispatchers, NEW d \in Deliveries, NEW new \in Jobs,
             job' = [job EXCEPT ![p][d] = new]
      PROVE  job' \in [Dispatchers -> [Deliveries -> Jobs]]
  BY <1>2 DEF TypeOK
<1>3. ASSUME NEW p \in Crons, List(p)
      PROVE  job' \in [Dispatchers -> [Deliveries -> Jobs]]
  <2>1. [d \in Deliveries |-> IF d \in Batch THEN Listed ELSE Idle]
            \in [Deliveries -> Jobs]
    BY IdleType
  <2> QED BY <1>1, <1>3, <2>1 DEF List, Dispatchers
<1>4. ASSUME NEW p \in Dispatchers, Crash(p)
      PROVE  job' \in [Dispatchers -> [Deliveries -> Jobs]]
  <2>1. NoJobs \in [Deliveries -> Jobs]
    BY IdleType DEF NoJobs
  <2> QED BY <1>1, <1>4, <2>1 DEF Crash
<1>5. ASSUME NEW d \in Deliveries, Test(d)
      PROVE  job' \in [Dispatchers -> [Deliveries -> Jobs]]
  BY <1>2, <1>5, IdleType DEF Test, Dispatchers
<1>6. ASSUME NEW p \in Dispatchers, NEW d \in Deliveries, Read(p, d)
      PROVE  job' \in [Dispatchers -> [Deliveries -> Jobs]]
  <2>1. CASE row[d] # NoRow /\ On(EndpointOf[d])
    <3>1. row[d].attempts \in Nat
      BY <2>1, RowFields DEF TypeOK
    <3>2. endpoint[EndpointOf[d]].secret \in Workspaces \cup {NoSecret}
      BY <2>1, WebhookAssumption DEF On, TypeOK, EndpointRows
    <3>3. [place |-> "sending", attempts |-> row[d].attempts,
           secret |-> endpoint[EndpointOf[d]].secret] \in Jobs
      BY <3>1, <3>2 DEF Jobs
    <3> QED BY <1>2, <1>6, <2>1, <3>3 DEF Read
  <2>2. CASE ~(row[d] # NoRow /\ On(EndpointOf[d]))
    BY <1>2, <1>6, <2>2, IdleType DEF Read, EndJob
  <2> QED BY <2>1, <2>2
<1>7. ASSUME NEW p \in Dispatchers, NEW d \in Deliveries,
             NEW place \in {"accepted", "refused"}, SetJob(p, d, place)
      PROVE  job' \in [Dispatchers -> [Deliveries -> Jobs]]
  <2>1. [job[p][d] EXCEPT !.place = place] \in Jobs
    BY JobFields DEF Jobs
  <2>2. job' = [job EXCEPT ![p][d] = [job[p][d] EXCEPT !.place = place]]
    BY <1>7 DEF SetJob, TypeOK
  <2> QED BY <1>2, <2>1, <2>2
<1>8. ASSUME NEW p \in Dispatchers, NEW d \in Deliveries, EndJob(p, d)
      PROVE  job' \in [Dispatchers -> [Deliveries -> Jobs]]
  BY <1>2, <1>8, IdleType DEF EndJob
<1>9. ASSUME NEW p \in Dispatchers, NEW d \in Deliveries,
             Attempt(p, d) \/ RecordFails(p, d)
      PROVE  job' \in [Dispatchers -> [Deliveries -> Jobs]]
  BY <1>7, <1>8, <1>9 DEF Attempt, RecordFails
<1>10. ASSUME NEW p \in Dispatchers, NEW d \in Deliveries,
              NEW accepted \in BOOLEAN, Record(p, d, accepted)
       PROVE  job' \in [Dispatchers -> [Deliveries -> Jobs]]
  BY <1>8, <1>10 DEF Record
<1>11. CASE job' = job
  BY <1>11 DEF TypeOK
<1> QED BY <1>3, <1>4, <1>5, <1>6, <1>9, <1>10, <1>11, JobChanges

LEMMA EndpointType ==
    ASSUME TypeOK, RowsHaveEndpoints, [Next]_vars
    PROVE  (endpoint \in [Endpoints -> EndpointRows \cup {NoEndpoint}])'
<1>1. ASSUME NEW e \in Endpoints, NEW on \in BOOLEAN, CreateEndpoint(e, on)
      PROVE  endpoint' \in [Endpoints -> EndpointRows \cup {NoEndpoint}]
  BY <1>1, HomeType DEF CreateEndpoint, TypeOK, EndpointRows
<1>2. ASSUME NEW e \in Endpoints, NEW on \in BOOLEAN, NEW rotate \in BOOLEAN,
             Configure(e, on, rotate)
      PROVE  endpoint' \in [Endpoints -> EndpointRows \cup {NoEndpoint}]
  <2>1. endpoint[e] \in EndpointRows
    BY <1>2 DEF Configure, Configurable, TypeOK
  <2>2. PICK secret \in Workspaces \cup {NoSecret} :
            endpoint' = [endpoint EXCEPT ![e] =
                [endpoint[e] EXCEPT !.enabled = on, !.secret = secret]]
    <3>1. Home(e) \in Workspaces
      BY HomeType
    <3>2. endpoint[e].secret \in Workspaces \cup {NoSecret}
      BY <2>1 DEF EndpointRows
    <3>3. endpoint' = [endpoint EXCEPT ![e] =
              [endpoint[e] EXCEPT !.enabled = on,
                  !.secret = IF rotate THEN Home(e) ELSE endpoint[e].secret]]
      BY <1>2, <2>1 DEF Configure, TypeOK, EndpointRows
    <3> QED BY <3>1, <3>2, <3>3
  <2>3. [endpoint[e] EXCEPT !.enabled = on, !.secret = secret] \in EndpointRows
    BY <2>1 DEF EndpointRows
  <2> QED BY <2>2, <2>3 DEF TypeOK
<1>3. ASSUME NEW e \in Endpoints, DeleteEndpoint(e)
      PROVE  endpoint' \in [Endpoints -> EndpointRows \cup {NoEndpoint}]
  BY <1>3 DEF DeleteEndpoint, TypeOK
<1>4. CASE Transfer
  <2>1. ASSUME NEW e \in Endpoints, endpoint[e] # NoEndpoint
        PROVE  [endpoint[e] EXCEPT !.enabled = FALSE, !.secret = NoSecret]
                   \in EndpointRows
    BY <2>1 DEF TypeOK, EndpointRows
  <2> QED BY <1>4, <2>1 DEF Transfer, TypeOK
<1>5. ASSUME NEW p \in Dispatchers, NEW d \in Deliveries,
             NEW accepted \in BOOLEAN, Record(p, d, accepted)
      PROVE  endpoint' \in [Endpoints -> EndpointRows \cup {NoEndpoint}]
  <2> DEFINE status == Outcome(job[p][d].attempts, accepted)
             e == EndpointOf[d]
  <2>1. status \in Statuses
    BY JobFields, OutcomeStatus
  <2>2. e \in Endpoints /\ endpoint[e] \in EndpointRows
    BY <1>5, WebhookAssumption DEF Record, RowsHaveEndpoints, TypeOK
  <2>3. endpoint' = [endpoint EXCEPT ![e].last = status]
    BY <1>5 DEF Record
  <2> HIDE DEF status, e
  <2>4. [endpoint[e] EXCEPT !.last = status] \in EndpointRows
    BY <2>1, <2>2 DEF EndpointRows
  <2> QED BY <2>2, <2>3, <2>4 DEF TypeOK
<1>6. CASE endpoint' = endpoint
  BY <1>6 DEF TypeOK
<1> QED BY <1>1, <1>2, <1>3, <1>4, <1>5, <1>6
        DEF Next, Dispatch, Manage, Step, List, Read, Attempt, Vanished, Fault,
            Crash, Queue, Test, FinishImport, QueueImport, DropImport,
            Elapse, vars

LEMMA TypeNext ==
    ASSUME TypeOK, RowsHaveEndpoints, [Next]_vars
    PROVE  TypeOK'
<1> DEFINE Counters == /\ created' \in 0 .. MaxDeliveries
                       /\ imports' \subseteq Imports
                       /\ workspace' \in Workspaces
                       /\ tries' \in [Deliveries -> Nat]
                       /\ acked' \subseteq Deliveries
                       /\ faults' \in Nat
<1>1. ASSUME NEW d \in Deliveries, Queue(d) \/ Test(d) PROVE Counters
  <2>1. created' \in 0 .. MaxDeliveries
    BY <1>1, WebhookAssumption DEF Queue, Test, CreateHere, CreateRow, Deliveries
  <2> QED BY <1>1, <2>1 DEF Queue, Test, TypeOK
<1>8. ASSUME NEW e \in Endpoints, FinishImport(e) PROVE Counters
  BY <1>8, HomeType DEF FinishImport, Imports, TypeOK
<1>9. ASSUME NEW d \in Deliveries, NEW i \in imports, QueueImport(d, i)
      PROVE  Counters
  <2>1. created' \in 0 .. MaxDeliveries
    BY <1>9, WebhookAssumption DEF QueueImport, CreateRow, Deliveries
  <2> QED BY <1>9, <2>1 DEF QueueImport, TypeOK
<1>10. ASSUME NEW i \in imports, DropImport(i) PROVE Counters
  BY <1>10 DEF DropImport, TypeOK
<1>2. ASSUME NEW p \in Dispatchers, NEW d \in Deliveries, Attempt(p, d)
      PROVE  Counters
  BY <1>2 DEF Attempt, TypeOK
<1>3. ASSUME NEW p \in Dispatchers, Crash(p) PROVE Counters
  BY <1>3 DEF Crash, TypeOK
<1>4. ASSUME NEW p \in Dispatchers, NEW d \in Deliveries, Fault(p, d)
      PROVE  Counters
  BY <1>4 DEF Fault, TypeOK
<1>5. ASSUME Transfer PROVE Counters
  BY <1>5 DEF Transfer, Workspaces, TypeOK
<1>6. ASSUME UNCHANGED <<created, imports, workspace, tries, acked, faults>>
      PROVE  Counters
  BY <1>6 DEF TypeOK
<1> HIDE DEF Counters
<1>11. ASSUME Dispatch PROVE Counters
  <2>1. ASSUME NEW p \in Crons, List(p) PROVE Counters
    BY <1>6, <2>1 DEF List
  <2>2. ASSUME NEW p \in Dispatchers, NEW d \in Deliveries, Step(p, d) PROVE Counters
    <3>1. Attempt(p, d) \/ UNCHANGED <<created, imports, workspace, tries, acked, faults>>
      BY <2>2 DEF Step, Read, Vanished, Record
    <3> QED BY <1>2, <1>6, <3>1
  <2> QED BY <1>3, <1>4, <1>11, <2>1, <2>2 DEF Dispatch
<1>12. ASSUME Manage PROVE Counters
  <2>1. ASSUME NEW e \in Endpoints, NEW on \in BOOLEAN, CreateEndpoint(e, on) PROVE Counters
    BY <1>6, <2>1 DEF CreateEndpoint
  <2>2. ASSUME NEW e \in Endpoints, NEW on \in BOOLEAN, NEW rotate \in BOOLEAN,
               Configure(e, on, rotate)
        PROVE  Counters
    BY <1>6, <2>2 DEF Configure
  <2>3. ASSUME NEW e \in Endpoints, DeleteEndpoint(e) PROVE Counters
    BY <1>6, <2>3 DEF DeleteEndpoint
  <2> QED BY <1>1, <1>5, <1>8, <1>9, <1>10, <1>12, <2>1, <2>2, <2>3 DEF Manage
<1>13. ASSUME NEW d \in Deliveries, Elapse(d) PROVE Counters
  BY <1>6, <1>13 DEF Elapse
<1>7. Counters
  BY <1>6, <1>11, <1>12, <1>13 DEF Next, vars
<1> USE DEF Counters
<1> QED BY <1>7, RowType, JobType, EndpointType DEF TypeOK
-----------------------------------------------------------------------------
(* History only grows.                                                     *)
LEMMA HistoryGrows ==
    ASSUME TypeOK, [Next]_vars
    PROVE  /\ acked \subseteq acked'
           /\ tries' \in [Deliveries -> Nat]
           /\ \A d \in Deliveries : tries[d] <= tries'[d]
<1>1. ASSUME NEW p \in Dispatchers, NEW d \in Deliveries, Attempt(p, d)
      PROVE  /\ acked \subseteq acked'
             /\ tries' = [tries EXCEPT ![d] = tries[d] + 1]
  <2>1. acked' = acked \/ acked' = acked \cup {d}
    BY <1>1 DEF Attempt
  <2>2. tries' = [tries EXCEPT ![d] = tries[d] + 1]
    BY <1>1 DEF Attempt
  <2> QED BY <2>1, <2>2
<1>2. ASSUME NEW d \in Deliveries, tries' = [tries EXCEPT ![d] = tries[d] + 1]
      PROVE  /\ tries' \in [Deliveries -> Nat]
             /\ \A c \in Deliveries : tries[c] <= tries'[c]
  <2>1. tries' \in [Deliveries -> Nat]
    BY <1>2 DEF TypeOK
  <2>2. ASSUME NEW c \in Deliveries PROVE tries[c] <= tries'[c]
    <3>1. tries[c] \in Nat /\ tries'[c] \in {tries[c], tries[c] + 1}
      BY <1>2 DEF TypeOK
    <3> QED BY <3>1
  <2> QED BY <2>1, <2>2
<1>3. CASE UNCHANGED <<tries, acked>>
  BY <1>3 DEF TypeOK
<1> QED BY <1>1, <1>2, <1>3, OtherChanges

LEMMA JobsNext ==
    ASSUME TypeOK, JobsLagBehind, RetriesAreSpent, [Next]_vars
    PROVE  JobsLagBehind'
<1> SUFFICES ASSUME NEW q \in Dispatchers, NEW c \in Deliveries
             PROVE  /\ job'[q][c].place \in Reading =>
                           job'[q][c].attempts <= tries'[c]
                    /\ job'[q][c].place \in {"accepted", "refused"} =>
                           job'[q][c].attempts < tries'[c]
                    /\ job'[q][c].place = "accepted" => c \in acked'
  BY DEF JobsLagBehind
<1>1. /\ tries[c] \in Nat /\ tries'[c] \in Nat /\ tries[c] <= tries'[c]
      /\ c \in acked => c \in acked'
      /\ job[q][c].attempts \in Nat
  BY HistoryGrows, JobFields DEF TypeOK
<1>2. CASE job'[q][c] = job[q][c]
  BY <1>1, <1>2 DEF JobsLagBehind, Reading
<1>3. CASE job'[q][c] \in {Idle, Listed}
  BY <1>3 DEF Idle, Listed, Reading
<1>4. CASE Read(q, c)
  <2>1. CASE row[c] # NoRow /\ On(EndpointOf[c])
    <3>1. job'[q][c].attempts = row[c].attempts /\ job'[q][c].place = "sending"
      BY <1>4, <2>1 DEF Read, TypeOK
    <3>2. row[c].attempts \in Nat /\ row[c].attempts <= tries[c]
      BY <2>1, RowFields DEF RetriesAreSpent, TypeOK
    <3> QED BY <3>1, <3>2, <1>1
  <2>2. CASE ~(row[c] # NoRow /\ On(EndpointOf[c]))
    BY <1>3, <1>4, <2>2 DEF Read, EndJob, TypeOK
  <2> QED BY <2>1, <2>2
<1>5. CASE Attempt(q, c)
  <2>1. job[q][c].attempts <= tries[c]
    BY <1>5 DEF Attempt, JobsLagBehind, Reading
  <2>2. tries'[c] = tries[c] + 1
    BY <1>5 DEF Attempt, TypeOK
  <2>3. job'[q][c].attempts = job[q][c].attempts
    BY <1>5 DEF Attempt, SetJob, TypeOK, Jobs
  <2>4. job'[q][c].place = "accepted" => c \in acked'
    BY <1>5 DEF Attempt, SetJob, TypeOK, Jobs
  <2> QED BY <1>1, <2>1, <2>2, <2>3, <2>4
<1>6. CASE RecordFails(q, c)
  <2>1. CASE job[q][c].place = "accepted" /\ SetJob(q, c, "refused")
    <3>1. /\ job'[q][c].attempts = job[q][c].attempts
          /\ job'[q][c].place = "refused"
      BY <2>1 DEF SetJob, TypeOK, Jobs
    <3> QED BY <1>1, <2>1, <3>1 DEF JobsLagBehind
  <2>2. CASE EndJob(q, c)
    BY <1>3, <2>2 DEF EndJob, TypeOK
  <2> QED BY <1>6, <2>1, <2>2 DEF RecordFails
<1>7. ASSUME NEW p \in Dispatchers, NEW new \in {Idle, Listed},
             NEW d \in Deliveries, job' = [job EXCEPT ![p][d] = new]
      PROVE  job'[q][c] \in {job[q][c], Idle, Listed}
  BY <1>7 DEF TypeOK
<1>8. \/ job'[q][c] \in {job[q][c], Idle, Listed}
      \/ Read(q, c) \/ Attempt(q, c) \/ RecordFails(q, c)
  <2>1. ASSUME NEW p \in Crons, List(p)
        PROVE  job'[q][c] \in {job[q][c], Idle, Listed}
    BY <2>1 DEF List, TypeOK, Dispatchers
  <2>2. ASSUME NEW p \in Dispatchers, Crash(p)
        PROVE  job'[q][c] \in {job[q][c], Idle, Listed}
    BY <2>2 DEF Crash, TypeOK, NoJobs
  <2>3. ASSUME NEW d \in Deliveries, Test(d)
        PROVE  job'[q][c] \in {job[q][c], Idle, Listed}
    BY <2>3, <1>7 DEF Test, Dispatchers
  <2>4. ASSUME NEW p \in Dispatchers, NEW d \in Deliveries,
               NEW accepted \in BOOLEAN, Record(p, d, accepted)
        PROVE  job'[q][c] \in {job[q][c], Idle, Listed}
    BY <2>4, <1>7 DEF Record, EndJob
  <2>5. ASSUME NEW p \in Dispatchers, NEW d \in Deliveries, p # q \/ d # c,
               Read(p, d) \/ Attempt(p, d) \/ RecordFails(p, d)
        PROVE  job'[q][c] \in {job[q][c], Idle, Listed}
    BY <2>5 DEF Read, Attempt, RecordFails, SetJob, EndJob, TypeOK
  <2> QED BY <2>1, <2>2, <2>3, <2>4, <2>5, JobChanges
<1> QED BY <1>2, <1>3, <1>4, <1>5, <1>6, <1>8

(* An endpoint disappears only when it is deleted.                         *)
LEMMA EndpointsStay ==
    ASSUME TypeOK, RowsHaveEndpoints, [Next]_vars,
           NEW e \in Endpoints, endpoint[e] # NoEndpoint
    PROVE  endpoint'[e] # NoEndpoint \/ DeleteEndpoint(e)
<1>1. CASE Transfer
  <2>1. [endpoint[e] EXCEPT !.enabled = FALSE, !.secret = NoSecret]
            \in EndpointRows
    BY DEF TypeOK, EndpointRows
  <2> QED BY <1>1, <2>1, NullAssumption DEF Transfer
<1>2. ASSUME NEW f \in Endpoints, NEW on \in BOOLEAN, CreateEndpoint(f, on)
      PROVE  endpoint'[e] # NoEndpoint
  <2>1. f # e
    BY <1>2 DEF CreateEndpoint
  <2> QED BY <1>2, <2>1 DEF CreateEndpoint, TypeOK
<1>3. ASSUME NEW f \in Endpoints, NEW on \in BOOLEAN, NEW rotate \in BOOLEAN,
             Configure(f, on, rotate)
      PROVE  endpoint'[e] # NoEndpoint
  <2>1. endpoint[e] \in EndpointRows
    BY DEF TypeOK
  <2>2. CASE f = e
    <3>1. endpoint'[e] =
              [endpoint[e] EXCEPT !.enabled = on,
                  !.secret = IF rotate THEN Home(e) ELSE endpoint[e].secret]
      BY <1>3, <2>1, <2>2 DEF Configure, TypeOK, EndpointRows
    <3>2. (IF rotate THEN Home(e) ELSE endpoint[e].secret)
              \in Workspaces \cup {NoSecret}
      BY <2>1, HomeType DEF EndpointRows
    <3>3. endpoint'[e] \in EndpointRows
      BY <2>1, <3>1, <3>2 DEF EndpointRows
    <3> QED BY <3>3, NullAssumption
  <2> QED BY <1>3, <2>2 DEF Configure, TypeOK
<1>4. ASSUME NEW p \in Dispatchers, NEW d \in Deliveries,
             NEW accepted \in BOOLEAN, Record(p, d, accepted)
      PROVE  endpoint'[e] # NoEndpoint
  <2> DEFINE status == Outcome(job[p][d].attempts, accepted)
  <2>1. endpoint[e] \in EndpointRows /\ status \in Statuses
    BY JobFields, OutcomeStatus DEF TypeOK
  <2>2. endpoint'[e] \in {endpoint[e], [endpoint[e] EXCEPT !.last = status]}
    BY <1>4 DEF Record, TypeOK
  <2> HIDE DEF status
  <2>3. [endpoint[e] EXCEPT !.last = status] \in EndpointRows
    BY <2>1 DEF EndpointRows
  <2> QED BY <2>1, <2>2, <2>3, NullAssumption
<1>5. ASSUME NEW f \in Endpoints, DeleteEndpoint(f)
      PROVE  endpoint'[e] # NoEndpoint \/ DeleteEndpoint(e)
  BY <1>5 DEF DeleteEndpoint, TypeOK
<1> QED BY <1>1, <1>2, <1>3, <1>4, <1>5
        DEF Next, Dispatch, Manage, Step, List, Read, Attempt, Vanished, Fault,
            Crash, Queue, Test, FinishImport, QueueImport, DropImport,
            Elapse, vars

LEMMA RowsHaveEndpointsNext ==
    ASSUME TypeOK, RowsHaveEndpoints, [Next]_vars
    PROVE  RowsHaveEndpoints'
<1> SUFFICES ASSUME NEW c \in Deliveries, row'[c] # NoRow
             PROVE  endpoint'[EndpointOf[c]] # NoEndpoint
  BY DEF RowsHaveEndpoints
<1>1. EndpointOf[c] \in Endpoints
  BY WebhookAssumption
<1>2. CASE row[c] # NoRow
  <2>1. ~DeleteEndpoint(EndpointOf[c])
    BY <1>1 DEF DeleteEndpoint
  <2> QED BY <1>1, <1>2, <2>1, EndpointsStay DEF RowsHaveEndpoints
<1>3. CASE row[c] = NoRow
  <2>1. ASSUME NEW d \in Deliveries, NEW w \in Workspaces, Writes(d, w)
        PROVE  c = d /\ endpoint[EndpointOf[c]] # NoEndpoint
    BY <1>3, <2>1 DEF Writes, CreateRow, TypeOK
  <2>2. ASSUME NEW d \in Deliveries, NEW p \in Dispatchers,
               NEW accepted \in BOOLEAN, Record(p, d, accepted)
        PROVE  FALSE
    BY <1>3, <2>2 DEF Record, TypeOK
  <2>3. ASSUME NEW d \in Deliveries, Elapse(d) PROVE FALSE
    BY <1>3, <2>3 DEF Elapse, Pending, TypeOK
  <2>4. ASSUME NEW e \in Endpoints, DeleteEndpoint(e) PROVE FALSE
    BY <1>3, <2>4 DEF DeleteEndpoint
  <2>5. ~Transfer
    BY <1>3 DEF Transfer, Pending
  <2>6. \E d \in Deliveries, w \in Workspaces : Writes(d, w)
    BY <1>3, <2>2, <2>3, <2>4, <2>5, RowChanges
  <2>7. ~DeleteEndpoint(EndpointOf[c])
    BY <1>1 DEF DeleteEndpoint
  <2> QED BY <1>1, <2>1, <2>6, <2>7, EndpointsStay
<1> QED BY <1>2, <1>3

LEMMA SecretsNext ==
    ASSUME TypeOK, RowsHaveEndpoints, SecretsAreHome, [Next]_vars
    PROVE  SecretsAreHome'
<1> SUFFICES ASSUME NEW e \in Endpoints, endpoint'[e] # NoEndpoint
             PROVE  \/ endpoint'[e].secret = Home(e)'
                    \/ endpoint'[e].secret = NoSecret /\ ~endpoint'[e].enabled
  BY DEF SecretsAreHome
<1>1. ASSUME NEW f \in Endpoints, NEW on \in BOOLEAN, CreateEndpoint(f, on)
      PROVE  \/ endpoint'[e].secret = Home(e)'
             \/ endpoint'[e].secret = NoSecret /\ ~endpoint'[e].enabled
  BY <1>1 DEF CreateEndpoint, SecretsAreHome, Home, TypeOK
<1>2. ASSUME NEW f \in Endpoints, NEW on \in BOOLEAN, NEW rotate \in BOOLEAN,
             Configure(f, on, rotate)
      PROVE  \/ endpoint'[e].secret = Home(e)'
             \/ endpoint'[e].secret = NoSecret /\ ~endpoint'[e].enabled
  <2>1. Home(e)' = Home(e)
    BY <1>2 DEF Configure, Home
  <2>2. CASE f = e
    <3>1. endpoint[e] \in EndpointRows
      BY <1>2, <2>2 DEF Configure, Configurable, TypeOK
    <3>2. /\ endpoint'[e].secret =
                 IF rotate THEN Home(e) ELSE endpoint[e].secret
          /\ endpoint'[e].enabled = on
      BY <1>2, <2>2, <3>1 DEF Configure, TypeOK, EndpointRows
    <3> QED BY <1>2, <2>1, <2>2, <3>2
            DEF SecretsAreHome, Configure, Configurable
  <2>3. CASE f # e
    BY <1>2, <2>1, <2>3 DEF Configure, SecretsAreHome, TypeOK
  <2> QED BY <2>2, <2>3
<1>3. ASSUME NEW f \in Endpoints, DeleteEndpoint(f)
      PROVE  \/ endpoint'[e].secret = Home(e)'
             \/ endpoint'[e].secret = NoSecret /\ ~endpoint'[e].enabled
  BY <1>3 DEF DeleteEndpoint, SecretsAreHome, Home, TypeOK
<1>4. ASSUME Transfer
      PROVE  \/ endpoint'[e].secret = Home(e)'
             \/ endpoint'[e].secret = NoSecret /\ ~endpoint'[e].enabled
  BY <1>4 DEF Transfer, SecretsAreHome, Home, TypeOK, EndpointRows
<1>5. ASSUME NEW p \in Dispatchers, NEW d \in Deliveries,
             NEW accepted \in BOOLEAN, Record(p, d, accepted)
      PROVE  \/ endpoint'[e].secret = Home(e)'
             \/ endpoint'[e].secret = NoSecret /\ ~endpoint'[e].enabled
  <2>1. Home(e)' = Home(e)
    BY <1>5 DEF Record, Home
  <2>2. endpoint[e] # NoEndpoint
    BY <1>5, WebhookAssumption DEF Record, RowsHaveEndpoints, TypeOK
  <2>3. /\ endpoint'[e].secret = endpoint[e].secret
        /\ endpoint'[e].enabled = endpoint[e].enabled
    BY <1>5, <2>2 DEF Record, TypeOK, EndpointRows
  <2> QED BY <2>1, <2>2, <2>3 DEF SecretsAreHome
<1>6. CASE UNCHANGED <<endpoint, workspace>>
  BY <1>6 DEF SecretsAreHome, Home
<1> QED BY <1>1, <1>2, <1>3, <1>4, <1>5, <1>6
        DEF Next, Dispatch, Manage, Step, List, Read, Attempt, Vanished, Fault,
            Crash, Queue, Test, FinishImport, QueueImport, DropImport,
            Elapse, vars

LEMMA OriginsNext ==
    ASSUME TypeOK, OriginsAreHome, [Next]_vars
    PROVE  OriginsAreHome'
<1> SUFFICES ASSUME workspace' = "source"
             PROVE  /\ \A c \in Deliveries :
                           row'[c] # NoRow => row'[c].origin = "source"
                    /\ \A i \in imports' : i.origin = "source"
  BY DEF OriginsAreHome
<1>1. workspace = "source" /\ ~Transfer
  BY OtherChanges DEF Transfer
<1>2. \A i \in imports : i.origin = "source"
  BY <1>1 DEF OriginsAreHome
<1>3. ASSUME NEW c \in Deliveries, row'[c] # NoRow
      PROVE  row'[c].origin = "source"
  <2>2. ASSUME NEW d \in Deliveries, NEW w \in Workspaces, Writes(d, w)
        PROVE  row'[c].origin = "source"
    <3>1. w = "source"
      BY <1>1, <1>2, <2>2 DEF Writes, Home
    <3> QED BY <1>1, <1>3, <2>2, <3>1
            DEF Writes, CreateRow, OriginsAreHome, TypeOK
  <2>3. ASSUME NEW p \in Dispatchers, NEW d \in Deliveries,
               NEW accepted \in BOOLEAN, Record(p, d, accepted)
        PROVE  row'[c].origin = "source"
    BY <1>1, <1>3, <2>3 DEF Record, OriginsAreHome, TypeOK, Rows
  <2>4. ASSUME NEW d \in Deliveries, Elapse(d) PROVE row'[c].origin = "source"
    BY <1>1, <1>3, <2>4 DEF Elapse, Pending, OriginsAreHome, TypeOK, Rows
  <2>5. ASSUME NEW e \in Endpoints, DeleteEndpoint(e)
        PROVE  row'[c].origin = "source"
    BY <1>1, <1>3, <2>5 DEF DeleteEndpoint, OriginsAreHome, TypeOK
  <2>6. CASE row' = row
    BY <1>1, <1>3, <2>6 DEF OriginsAreHome
  <2> QED BY <1>1, <2>2, <2>3, <2>4, <2>5, <2>6, RowChanges
<1>4. \A i \in imports' : i.origin = "source"
  <2>1. ASSUME NEW e \in Endpoints, FinishImport(e)
        PROVE  \A i \in imports' : i.origin = "source"
    BY <1>1, <1>2, <2>1 DEF FinishImport, Home
  <2>2. \/ imports' \subseteq imports
        \/ \E e \in Endpoints : FinishImport(e)
    BY ImportChanges
  <2> QED BY <1>2, <2>1, <2>2
<1> QED BY <1>3, <1>4

LEMMA RetriesNext ==
    ASSUME TypeOK, JobsLagBehind, OriginsAreHome, RetriesAreSpent, [Next]_vars
    PROVE  RetriesAreSpent'
<1> SUFFICES ASSUME NEW c \in Deliveries, row'[c] # NoRow
             PROVE  /\ row'[c].attempts <= tries'[c]
                    /\ row'[c].status = "PENDING" => row'[c].attempts <= Retries
                    /\ /\ row'[c].status = "FAILED"
                       /\ row'[c].origin = Home(EndpointOf[c])'
                       => tries'[c] > Retries
  BY DEF RetriesAreSpent
<1>1. /\ tries[c] \in Nat /\ tries'[c] \in Nat /\ tries[c] <= tries'[c]
      /\ Retries \in Nat
  BY HistoryGrows, WebhookAssumption DEF TypeOK
<1>2. CASE Transfer
  <2>1. row[c] # NoRow /\ row[c] \in Rows
    BY <1>2 DEF Transfer, TypeOK, Pending
  <2>2. /\ row'[c].attempts = row[c].attempts
        /\ row'[c].origin = row[c].origin
        /\ row'[c].status = "PENDING" => row[c].status = "PENDING"
    BY <1>2, <2>1 DEF Transfer, Rows
  <2>3. row'[c].status = "FAILED" /\ row'[c].origin = Home(EndpointOf[c])'
            => row[c].status = "FAILED" /\ row[c].origin = Home(EndpointOf[c])
    <3>1. CASE EndpointOf[c] \in Moved
      <4>1. Home(EndpointOf[c])' = "destination" /\ row[c].origin = "source"
        BY <1>2, <2>1, <3>1 DEF Transfer, Home, OriginsAreHome
      <4> QED BY <2>2, <4>1
    <3>2. CASE EndpointOf[c] \notin Moved
      <4>1. row'[c] = row[c] /\ Home(EndpointOf[c])' = Home(EndpointOf[c])
        BY <1>2, <3>2 DEF Transfer, Home
      <4> QED BY <4>1
    <3> QED BY <3>1, <3>2
  <2> QED BY <1>1, <2>1, <2>2, <2>3, RowFields DEF RetriesAreSpent
<1>3. ASSUME ~Transfer PROVE Home(EndpointOf[c])' = Home(EndpointOf[c])
  BY <1>3, OtherChanges DEF Home
<1>4. CASE row'[c] = row[c] /\ ~Transfer
  <2>1. row[c].attempts \in Nat
    BY <1>4, RowFields DEF TypeOK
  <2> QED BY <1>1, <1>3, <1>4, <2>1 DEF RetriesAreSpent
<1>5. ASSUME NEW w \in Workspaces, Writes(c, w)
      PROVE  /\ row'[c].attempts <= tries'[c]
             /\ row'[c].status = "PENDING" => row'[c].attempts <= Retries
             /\ row'[c].status # "FAILED"
  <2>1. row'[c].attempts = 0 /\ row'[c].status = "PENDING"
    BY <1>5 DEF Writes, CreateRow, TypeOK
  <2> QED BY <1>1, <2>1
<1>6. ASSUME NEW p \in Dispatchers, NEW accepted \in BOOLEAN,
             Record(p, c, accepted)
      PROVE  /\ row'[c].attempts <= tries'[c]
             /\ row'[c].status = "PENDING" => row'[c].attempts <= Retries
             /\ row'[c].status = "FAILED" => tries'[c] > Retries
  <2> DEFINE n == job[p][c].attempts
  <2>1. n \in Nat /\ n < tries[c]
    BY <1>6, JobFields DEF JobsLagBehind, Record
  <2>2. /\ row'[c].attempts = n + 1
        /\ row'[c].status = Outcome(n, accepted)
    BY <1>6 DEF Record, TypeOK, Rows
  <2> HIDE DEF n
  <2> QED BY <1>1, <2>1, <2>2 DEF Outcome
<1>7. ASSUME Elapse(c), ~Transfer
      PROVE  /\ row'[c].attempts <= tries'[c]
             /\ row'[c].status = "PENDING" => row'[c].attempts <= Retries
             /\ row'[c].status = "FAILED" => tries'[c] > Retries
  <2>1. row[c] \in Rows /\ row[c].status = "PENDING" /\ row[c] # NoRow
    BY <1>7 DEF Elapse, Pending, TypeOK
  <2>2. /\ row'[c].attempts = row[c].attempts
        /\ row'[c].status = "PENDING"
    BY <1>7, <2>1 DEF Elapse, TypeOK, Rows
  <2> QED BY <1>1, <2>1, <2>2, RowFields DEF RetriesAreSpent
<1>8. \/ Transfer \/ row'[c] = row[c] \/ Elapse(c)
      \/ \E w \in Workspaces : Writes(c, w)
      \/ \E p \in Dispatchers, accepted \in BOOLEAN : Record(p, c, accepted)
  <2>1. ASSUME NEW d \in Deliveries, NEW w \in Workspaces, d # c,
               Writes(d, w) \/ Elapse(d)
        PROVE  row'[c] = row[c]
    BY <2>1 DEF Writes, CreateRow, Elapse, TypeOK
  <2>2. ASSUME NEW e \in Endpoints, DeleteEndpoint(e) PROVE row'[c] = row[c]
    BY <2>2 DEF DeleteEndpoint
  <2>3. ASSUME NEW p \in Dispatchers, NEW d \in Deliveries, d # c,
               NEW accepted \in BOOLEAN, Record(p, d, accepted)
        PROVE  row'[c] = row[c]
    BY <2>3 DEF Record, TypeOK
  <2>4. \A d \in Deliveries, w \in Workspaces :
            Writes(d, w) => row'[c] = row[c] \/ Writes(c, w)
    BY <2>1
  <2>5. \A d \in Deliveries : Elapse(d) => row'[c] = row[c] \/ Elapse(c)
    BY <2>1 DEF Workspaces
  <2>6. \A p \in Dispatchers, d \in Deliveries, accepted \in BOOLEAN :
            Record(p, d, accepted) =>
                row'[c] = row[c] \/ Record(p, c, accepted)
    BY <2>3
  <2> QED BY <2>2, <2>4, <2>5, <2>6, RowChanges
<1> QED BY <1>2, <1>4, <1>5, <1>6, <1>7, <1>8

LEMMA SuccessNext ==
    ASSUME TypeOK, JobsLagBehind, SuccessIsAcknowledged, [Next]_vars
    PROVE  SuccessIsAcknowledged'
<1> SUFFICES ASSUME NEW c \in Deliveries, row'[c] # NoRow,
                    row'[c].status = "SUCCESS"
             PROVE  c \in acked'
  BY DEF SuccessIsAcknowledged
<1>1. c \in acked => c \in acked'
  BY HistoryGrows
<1>2. CASE row[c] # NoRow /\ row[c].status = "SUCCESS"
  BY <1>1, <1>2 DEF SuccessIsAcknowledged
<1>3. ASSUME NEW p \in Dispatchers, NEW accepted \in BOOLEAN,
             Record(p, c, accepted)
      PROVE  c \in acked
  <2>1. row'[c].status = Outcome(job[p][c].attempts, accepted)
    BY <1>3 DEF Record, TypeOK, Rows
  <2>2. accepted
    BY <2>1 DEF Outcome
  <2> QED BY <1>3, <2>2 DEF Record, JobsLagBehind
<1>4. ASSUME ~(row[c] # NoRow /\ row[c].status = "SUCCESS")
      PROVE  \E p \in Dispatchers, accepted \in BOOLEAN : Record(p, c, accepted)
  <2>1. ASSUME NEW d \in Deliveries, NEW w \in Workspaces, Writes(d, w)
        PROVE  FALSE
    BY <1>4, <2>1 DEF Writes, CreateRow, TypeOK
  <2>2. ASSUME NEW d \in Deliveries, Elapse(d) PROVE FALSE
    BY <1>4, <2>2 DEF Elapse, Pending, TypeOK, Rows
  <2>3. ASSUME NEW e \in Endpoints, DeleteEndpoint(e) PROVE FALSE
    BY <1>4, <2>3 DEF DeleteEndpoint
  <2>4. ASSUME Transfer PROVE FALSE
    <3>1. \/ row'[c] = row[c]
          \/ row[c] \in Rows /\ row'[c] = [row[c] EXCEPT !.status = "FAILED"]
      BY <2>4 DEF Transfer, Pending, TypeOK
    <3> QED BY <1>4, <3>1 DEF Rows
  <2>5. ASSUME NEW p \in Dispatchers, NEW d \in Deliveries, d # c,
               NEW accepted \in BOOLEAN, Record(p, d, accepted)
        PROVE  FALSE
    BY <1>4, <2>5 DEF Record, TypeOK
  <2> QED BY <1>4, <2>1, <2>2, <2>3, <2>4, <2>5, RowChanges
<1> QED BY <1>1, <1>2, <1>3, <1>4

LEMMA RowsAreNumberedNext ==
    ASSUME TypeOK, RowsAreNumbered, [Next]_vars
    PROVE  RowsAreNumbered'
<1> SUFFICES ASSUME NEW c \in Deliveries, row'[c] # NoRow
             PROVE  c <= created'
  BY DEF RowsAreNumbered
<1>1. created \in Nat /\ c \in Nat
  BY DEF TypeOK, Deliveries
<1>2. created' = created \/ \E d \in Deliveries : \E w : CreateRow(d, w)
  BY ImportChanges
<1>3. CASE row[c] # NoRow
  <2>1. c <= created
    BY <1>3 DEF RowsAreNumbered
  <2> QED BY <1>1, <1>2, <2>1 DEF CreateRow, Deliveries
<1>4. CASE row[c] = NoRow
  <2>1. ASSUME NEW d \in Deliveries, Elapse(d) PROVE FALSE
    BY <1>4, <2>1 DEF Elapse, Pending, TypeOK
  <2>2. ASSUME NEW e \in Endpoints, DeleteEndpoint(e) PROVE FALSE
    BY <1>4, <2>2 DEF DeleteEndpoint
  <2>3. ~Transfer
    BY <1>4 DEF Transfer, Pending
  <2>4. ASSUME NEW p \in Dispatchers, NEW d \in Deliveries,
               NEW accepted \in BOOLEAN, Record(p, d, accepted)
        PROVE  FALSE
    BY <1>4, <2>4 DEF Record, TypeOK
  <2>5. PICK d \in Deliveries, w \in Workspaces : Writes(d, w)
    BY <1>4, <2>1, <2>2, <2>3, <2>4, RowChanges
  <2>6. d = c
    BY <1>4, <2>5 DEF Writes, CreateRow, TypeOK
  <2> QED BY <1>1, <2>5, <2>6 DEF Writes, CreateRow
<1> QED BY <1>3, <1>4

-----------------------------------------------------------------------------
LEMMA Invariance == Spec => []IInv
<1>1. Init => IInv
  <2> SUFFICES ASSUME Init PROVE IInv
    OBVIOUS
  <2>1. TypeOK
    BY TypeInit
  <2>2. ASSUME NEW p \in Dispatchers, NEW d \in Deliveries
        PROVE  job[p][d].place = "none"
    BY DEF Init, NoJobs, Idle
  <2> QED BY <2>1, <2>2
          DEF Init, IInv, JobsLagBehind, OriginsAreHome, RowsHaveEndpoints,
              SecretsAreHome, RetriesAreSpent, SuccessIsAcknowledged, Reading,
              RowsAreNumbered
<1>2. IInv /\ [Next]_vars => IInv'
  BY TypeNext, RowsHaveEndpointsNext, SecretsNext, OriginsNext, JobsNext,
     RetriesNext, SuccessNext, RowsAreNumberedNext DEF IInv
<1> QED BY <1>1, <1>2, PTL DEF Spec

(* Every reachable state of deliveries, endpoints and dispatchers is well  *)
(* typed.                                                                  *)
THEOREM TypeCorrect == Spec => []TypeOK
<1>1. IInv => TypeOK BY DEF IInv
<1> QED BY <1>1, Invariance, PTL

(* However many dispatchers overlap, none of them gives a delivery up      *)
(* before the first attempt and every retry were made.                     *)
THEOREM GivenUpAfterRetries == Spec => []RetriesAreSpent
<1>1. IInv => RetriesAreSpent BY DEF IInv
<1> QED BY <1>1, Invariance, PTL

(* A delivery is only marked SUCCESS when a receiver acknowledged it.      *)
THEOREM SuccessesAreAcknowledged == Spec => []SuccessIsAcknowledged
<1>1. IInv => SuccessIsAcknowledged BY DEF IInv
<1> QED BY <1>1, Invariance, PTL

(* Around a transfer no endpoint is enabled without a secret of the        *)
(* workspace it is in.                                                     *)
THEOREM EndpointsSign == Spec => []EnabledEndpointsSign
<1>1. IInv => EnabledEndpointsSign
  BY DEF IInv, SecretsAreHome, EnabledEndpointsSign, On
<1> QED BY <1>1, Invariance, PTL

Concluded(d) == row[d] # NoRow /\ row[d].status # "PENDING"
Held(d) == \E p \in Dispatchers : job[p][d] # Idle

LEMMA ConcludedRow ==
    ASSUME IInv, [Next]_vars, NEW c \in Deliveries, Concluded(c), ~Held(c)
    PROVE  row'[c] \in {row[c], NoRow}
<1>1. row[c] \in Rows /\ ~Pending(c)
  BY DEF Concluded, Pending, IInv, TypeOK
<1>2. ASSUME NEW d \in Deliveries, NEW w \in Workspaces, Writes(d, w)
      PROVE  row'[c] = row[c]
  <2>1. d # c
    BY <1>2 DEF Writes, CreateRow, IInv, RowsAreNumbered, TypeOK, Concluded,
                Deliveries
  <2> QED BY <1>2, <2>1 DEF Writes, CreateRow, IInv, TypeOK
<1>3. ASSUME NEW p \in Dispatchers, NEW d \in Deliveries,
             NEW accepted \in BOOLEAN, Record(p, d, accepted)
      PROVE  row'[c] = row[c]
  <2>1. d # c
    BY <1>3 DEF Record, Held, Idle
  <2> QED BY <1>3, <2>1 DEF Record, IInv, TypeOK
<1>4. ASSUME NEW d \in Deliveries, Elapse(d) PROVE row'[c] = row[c]
  BY <1>1, <1>4 DEF Elapse, IInv, TypeOK
<1>5. ASSUME NEW e \in Endpoints, DeleteEndpoint(e)
      PROVE  row'[c] \in {row[c], NoRow}
  BY <1>5 DEF DeleteEndpoint
<1>6. CASE Transfer
  BY <1>1, <1>6 DEF Transfer
<1> QED BY <1>2, <1>3, <1>4, <1>5, <1>6, RowChanges DEF IInv

LEMMA ConcludedUnheld ==
    ASSUME IInv, [Next]_vars, NEW c \in Deliveries, Concluded(c), ~Held(c),
           NEW q \in Dispatchers
    PROVE  job'[q][c] = Idle
<1>1. job[q][c] = Idle
  BY DEF Held
<1>2. job \in [Dispatchers -> [Deliveries -> Jobs]]
  BY DEF IInv, TypeOK
<1>3. ASSUME NEW p \in Crons, List(p) PROVE job'[q][c] = Idle
  <2>1. c \notin Batch
    BY DEF Batch, Due, Concluded, Pending
  <2> QED BY <1>1, <1>2, <1>3, <2>1 DEF List, Dispatchers
<1>4. ASSUME NEW p \in Dispatchers, Crash(p) PROVE job'[q][c] = Idle
  BY <1>1, <1>2, <1>4 DEF Crash, NoJobs
<1>5. ASSUME NEW d \in Deliveries, Test(d) PROVE job'[q][c] = Idle
  <2>1. d # c
    BY <1>5 DEF Test, CreateHere, CreateRow, IInv, RowsAreNumbered, TypeOK,
                Concluded, Deliveries
  <2> QED BY <1>1, <1>2, <1>5, <2>1 DEF Test
<1>6. ASSUME NEW p \in Dispatchers, NEW d \in Deliveries,
             \/ Read(p, d)
             \/ Attempt(p, d)
             \/ RecordFails(p, d)
             \/ \E accepted \in BOOLEAN : Record(p, d, accepted)
      PROVE  job'[q][c] = Idle
  <2>1. job[p][d].place # "none"
    BY <1>6 DEF Read, Attempt, RecordFails, Record
  <2>2. d # c
    BY <2>1 DEF Held, Idle
  <2>3. \A new : job' = [job EXCEPT ![p][d] = new] => job'[q][c] = Idle
    BY <1>1, <1>2, <2>2
  <2>4. ASSUME NEW place, SetJob(p, d, place) PROVE job'[q][c] = Idle
    BY <1>1, <1>2, <2>2, <2>4 DEF SetJob
  <2>5. ASSUME EndJob(p, d) PROVE job'[q][c] = Idle
    BY <2>3, <2>5 DEF EndJob
  <2>6. ASSUME Read(p, d) PROVE job'[q][c] = Idle
    BY <2>3, <2>5, <2>6 DEF Read
  <2> QED BY <1>6, <2>4, <2>5, <2>6 DEF Attempt, RecordFails, Record
<1> QED BY <1>1, <1>3, <1>4, <1>5, <1>6, JobChanges

(* A concluded delivery that no dispatcher holds stays as it is.           *)
THEOREM ConclusionsAreFinal == Spec => ConcludedIsFinal
<1>1. IInv /\ [Next]_vars =>
          [\A d \in Deliveries :
              /\ row[d] # NoRow
              /\ row[d].status # "PENDING"
              /\ \A p \in Dispatchers : job[p][d] = Idle
              => row'[d] \in {row[d], NoRow} /\ \A p \in Dispatchers : job'[p][d] = Idle]_vars
  BY ConcludedRow, ConcludedUnheld DEF Concluded, Held
<1> QED BY <1>1, Invariance, PTL DEF Spec, ConcludedIsFinal
=============================================================================
