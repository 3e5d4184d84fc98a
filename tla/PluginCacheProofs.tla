-------------------------- MODULE PluginCacheProofs --------------------------
(***************************************************************************)
(* What a site's translation cache guarantees, for any segments, languages,*)
(* visitors, cron processes and fillers, any page size and any number of   *)
(* pages: theorems about PluginCache.                                      *)
(***************************************************************************)
EXTENDS PluginCache, WellFoundedInduction, TLAPS

-----------------------------------------------------------------------------
(* A bounded set of natural numbers that is not empty has a maximum: it is *)
(* as far below the bound as the least distance to it.                     *)
LEMMA MaxOfBounded ==
    ASSUME NEW S \in SUBSET Nat, S # {}, NEW n \in Nat, \A x \in S : x <= n
    PROVE  Max(S) \in S /\ \A x \in S : x <= Max(S)
<1> DEFINE Below == {k \in Nat : n - k \in S}
<1>1. Below # {}
  <2>1. PICK x \in S : TRUE
    OBVIOUS
  <2>2. n - x \in Nat /\ n - (n - x) = x
    BY <2>1
  <2> QED BY <2>1, <2>2
<1>2. PICK k \in Below : \A j \in Below : ~ (<<j, k>> \in OpToRel(<, Nat))
  BY <1>1, NatLessThanWellFounded, WFMin
<1>3. \A j \in Below : k <= j
  <2> TAKE j \in Below
  <2>1. ~ (<<j, k>> \in OpToRel(<, Nat))
    BY <1>2
  <2>2. <<j, k>> \in Nat \X Nat
    OBVIOUS
  <2>3. ~ (j < k)
    BY <2>1, <2>2, Zenon DEF OpToRel
  <2> QED BY <2>3
<1>4. n - k \in S /\ k \in Nat
  OBVIOUS
<1>5. \A x \in S : x <= n - k
  <2> TAKE x \in S
  <2>1. n - x \in Nat /\ n - (n - x) = x
    OBVIOUS
  <2>2. k <= n - x
    BY <1>3, <2>1
  <2> QED BY <1>4, <2>2
<1> QED BY <1>4, <1>5 DEF Max

LEMMA MinOfTwo ==
    ASSUME NEW x \in Nat, NEW y \in Nat
    PROVE  Min({x, y}) = IF x <= y THEN x ELSE y
<1>1. \E m \in {x, y} : \A e \in {x, y} : m <= e
  OBVIOUS
<1> QED BY <1>1 DEF Min

(* The last edit of a segment is the latest event that names it.           *)
LEMMA LastEditIsLast ==
    ASSUME feed \in Seq(Segments), NEW s
    PROVE  /\ LastEdit(s) \in Nat
           /\ \A id \in 1 .. Len(feed) : feed[id] = s => id <= LastEdit(s)
<1> DEFINE S == {0} \cup {id \in 1 .. Len(feed) : feed[id] = s}
<1>1. S \in SUBSET Nat /\ S # {} /\ \A id \in S : id <= Len(feed)
  OBVIOUS
<1>2. Max(S) \in S /\ \A id \in S : id <= Max(S)
  <2>1. Len(feed) \in Nat
    OBVIOUS
  <2> HIDE DEF S
  <2> QED BY <1>1, <2>1, MaxOfBounded
<1> QED BY <1>1, <1>2 DEF LastEdit

-----------------------------------------------------------------------------
(* Jobs: the events a process works on are among the n of the feed, and    *)
(* the generations g of the SaaS are not older than what it was told.      *)
Fetched == {"fetched", "applied", "clearing", "retired", "saved"}

InFeed(j, n, g) ==
    /\ j.from <= j.upto /\ j.upto <= n /\ j.next <= j.upto + 1
    /\ j.place \in Fetched => j.from < j.next
    /\ j.place = "fetched" =>
           /\ j.snapshot \in [Languages -> Nat]
           /\ \A l \in Languages : j.snapshot[l] <= g[l]
    /\ j.read # None => j.read.marker <= n

JobsInFeed == \A p \in Processes : InFeed(jobs[p], Len(feed), generation)

Shape ==
    /\ TypeOK
    /\ JobsInFeed
    /\ \A l \in Languages : known[l] <= generation[l]

LEMMA FeedLength == ASSUME TypeOK PROVE Len(feed) \in Nat
BY DEF TypeOK

LEMMA IdleJob ==
    ASSUME NEW n \in Nat, NEW g PROVE Idle \in Jobs /\ InFeed(Idle, n, g)
BY DEF Idle, Jobs, JobPlaces, InFeed, Fetched

LEMMA ShapeInit == Init => Shape
<1> SUFFICES ASSUME Init PROVE Shape
  OBVIOUS
<1>1. /\ feed \in Seq(Segments) /\ Len(feed) \in Nat
      /\ epochs \in [Languages -> 0 .. MaxEpoch]
      /\ MaxTroubles \in Nat
  BY PluginAssumption DEF Init
<1>2. /\ troubles \in 0 .. MaxTroubles
      /\ marker \in 0 .. Len(feed) /\ cursor \in 0 .. Len(feed)
  BY <1>1 DEF Init
<1>3. due \in BOOLEAN /\ misled \in BOOLEAN /\ unfinished \in BOOLEAN
  BY Zenon DEF Init
<1>4. /\ generation \in [Languages -> Nat] /\ known = generation
      /\ lock = None /\ fills \in [Fillers -> Fills \cup {None}]
  BY DEF Init
<1>5. jobs \in [Processes -> Jobs] /\ JobsInFeed
  BY <1>1, IdleJob DEF Init, JobsInFeed
<1>6. copies \in [Segments -> [Slots -> Copies \cup {None}]]
  <2> DEFINE Plain == [e \in Slots |-> IF e = Legacy THEN [after |-> 0, of |-> 0]
                                     ELSE None]
  <2>1. [after |-> 0, of |-> 0] \in Copies
    BY DEF Copies
  <2>2. Plain \in [Slots -> Copies \cup {None}]
    BY <2>1
  <2>3. copies = [s \in Segments |-> Plain]
    BY DEF Init
  <2> HIDE DEF Plain
  <2> QED BY <2>2, <2>3
<1>7. TypeOK
  BY <1>1, <1>5, <1>6, <1>2, <1>4, <1>3 DEF TypeOK
<1> QED BY <1>5, <1>7, <1>4 DEF Shape, TypeOK

LEMMA JobFields ==
    ASSUME NEW j \in Jobs
    PROVE  /\ j.place \in JobPlaces
           /\ j.from \in Nat /\ j.upto \in Nat /\ j.next \in Nat
           /\ j.pages \in Nat /\ j.more \in BOOLEAN
           /\ j.snapshot \in [Languages -> Nat] \cup {None}
           /\ j.changed \in SUBSET Languages
           /\ j.read \in Options \cup {None}
           /\ j.missing \in SUBSET Segments
BY DEF Jobs

LEMMA UpdateJob ==
    ASSUME TypeOK, NEW p \in Processes, NEW job, Update(p, job)
    PROVE  /\ jobs'[p] = job
           /\ \A q \in Processes \ {p} : jobs'[q] = jobs[q]
           /\ job \in Jobs => jobs' \in [Processes -> Jobs]
BY DEF TypeOK, Update

(* A new job of p keeps the shape of all jobs; so does a longer feed.      *)
LEMMA JobsKeepShape ==
    ASSUME Shape, NEW p \in Processes, NEW job \in Jobs, Update(p, job),
           InFeed(job, Len(feed), generation),
           feed' = feed, generation' = generation
    PROVE  jobs' \in [Processes -> Jobs] /\ JobsInFeed'
<1>1. /\ jobs'[p] = job /\ jobs' \in [Processes -> Jobs]
      /\ \A q \in Processes \ {p} : jobs'[q] = jobs[q]
  BY UpdateJob DEF Shape
<1> QED BY <1>1 DEF Shape, JobsInFeed

LEMMA InLongerFeed ==
    ASSUME NEW j \in Jobs, NEW n \in Nat, NEW m \in Nat, n <= m,
           NEW g \in [Languages -> Nat], NEW h \in [Languages -> Nat],
           \A l \in Languages : g[l] <= h[l], InFeed(j, n, g)
    PROVE  InFeed(j, m, h)
<1>1. /\ j.upto \in Nat
      /\ j.read # None => j.read.marker \in Nat
  BY JobFields DEF Options
<1>2. /\ j.from <= j.upto /\ j.upto <= m /\ j.next <= j.upto + 1
      /\ j.place \in Fetched => j.from < j.next
      /\ j.read # None => j.read.marker <= m
  BY <1>1 DEF InFeed
<1>3. ASSUME j.place = "fetched"
      PROVE  /\ j.snapshot \in [Languages -> Nat]
             /\ \A l \in Languages : j.snapshot[l] <= h[l]
  <2>1. /\ j.snapshot \in [Languages -> Nat]
        /\ \A l \in Languages : j.snapshot[l] <= g[l]
    BY <1>3 DEF InFeed
  <2>2. \A l \in Languages : /\ j.snapshot[l] \in Nat /\ g[l] \in Nat
                             /\ h[l] \in Nat
    BY <2>1
  <2> QED BY <2>1, <2>2
<1> QED BY <1>2, <1>3 DEF InFeed

-----------------------------------------------------------------------------
(* The types of what the jobs and their inputs leave.                      *)
Flags == due \in BOOLEAN /\ misled \in BOOLEAN /\ unfinished \in BOOLEAN

Rest ==
    /\ known \in [Languages -> Nat]
    /\ epochs \in [Languages -> 0 .. MaxEpoch]
    /\ marker \in 0 .. Len(feed)
    /\ cursor \in 0 .. Len(feed)
    /\ lock \in Processes \cup {None, Dead}
    /\ copies \in [Segments -> [Slots -> Copies \cup {None}]]
    /\ fills \in [Fillers -> Fills \cup {None}]
    /\ troubles \in 0 .. MaxTroubles
    /\ \A l \in Languages : known[l] <= generation[l]

LEMMA ShapeParts == ASSUME Shape PROVE Flags /\ Rest
BY DEF Shape, TypeOK, Flags, Rest

(* A step of a process p keeps the shape if it keeps the types of the rest.*)
LEMMA JobStep ==
    ASSUME Shape, NEW p \in Processes, NEW job \in Jobs, Update(p, job),
           InFeed(job, Len(feed), generation),
           feed' = feed, generation' = generation, Flags', Rest'
    PROVE  Shape'
<1>1. jobs' \in [Processes -> Jobs] /\ JobsInFeed'
  BY JobsKeepShape
<1>2. /\ feed' \in Seq(Segments) /\ generation' \in [Languages -> Nat]
      /\ Len(feed') = Len(feed)
  BY DEF Shape, TypeOK
<1>3. TypeOK'
  BY <1>1, <1>2 DEF TypeOK, Rest, Flags
<1> QED BY <1>1, <1>3 DEF Shape, Rest

(* So does a step of the SaaS or of a filler, which leaves the jobs alone. *)
LEMMA OtherStep ==
    ASSUME Shape, jobs' = jobs, feed' \in Seq(Segments), Len(feed) <= Len(feed'),
           generation' \in [Languages -> Nat],
           \A l \in Languages : generation[l] <= generation'[l], Flags', Rest'
    PROVE  Shape'
<1>1. /\ jobs \in [Processes -> Jobs] /\ Len(feed) \in Nat /\ Len(feed') \in Nat
      /\ generation \in [Languages -> Nat]
  BY FeedLength DEF Shape, TypeOK
<1>2. \A q \in Processes : InFeed(jobs[q], Len(feed'), generation')
  <2> TAKE q \in Processes
  <2>1. jobs[q] \in Jobs /\ InFeed(jobs[q], Len(feed), generation)
    BY <1>1 DEF Shape, JobsInFeed
  <2> QED BY <1>1, <2>1, InLongerFeed
<1>3. JobsInFeed'
  BY <1>2 DEF JobsInFeed
<1>4. TypeOK'
  BY <1>1 DEF TypeOK, Rest, Flags
<1> QED BY <1>3, <1>4 DEF Shape, Rest

(* What a process takes for the option is one that was stored.             *)
LEMMA SeenOption ==
    ASSUME Shape, NEW p \in Processes
    PROVE  /\ Seen(p) \in Options /\ Seen(p).marker <= Len(feed)
           /\ Seen(p).epochs \in [Languages -> 0 .. MaxEpoch]
           /\ Seen(p).marker \in 0 .. Len(feed)
<1>1. /\ jobs[p] \in Jobs /\ InFeed(jobs[p], Len(feed), generation)
      /\ epochs \in [Languages -> 0 .. MaxEpoch] /\ marker \in 0 .. Len(feed)
      /\ Len(feed) \in Nat
  BY FeedLength DEF Shape, TypeOK, JobsInFeed
<1>2. CASE jobs[p].read = None
  <2>1. Seen(p) = [epochs |-> epochs, marker |-> marker]
    BY <1>2 DEF Seen
  <2> QED BY <1>1, <2>1 DEF Options
<1>3. CASE jobs[p].read # None
  <2>1. Seen(p) = jobs[p].read /\ jobs[p].read \in Options
    BY <1>1, <1>3, JobFields DEF Seen
  <2>2. Seen(p).marker <= Len(feed)
    BY <1>1, <1>3, <2>1 DEF InFeed
  <2> QED BY <1>1, <2>1, <2>2 DEF Options
<1> QED BY <1>2, <1>3

-----------------------------------------------------------------------------
LEMMA EditShape == ASSUME Shape, NEW s \in Segments, Edit(s) PROVE Shape'
<1>1. /\ feed \in Seq(Segments) /\ feed' = Append(feed, s)
      /\ UNCHANGED <<generation, known, epochs, marker, cursor, lock, due,
                     copies, fills, jobs, troubles, misled, unfinished>>
      /\ generation \in [Languages -> Nat]
  BY DEF Shape, TypeOK, Edit, site, history
<1>2. /\ feed' \in Seq(Segments) /\ Len(feed) \in Nat
      /\ Len(feed') = Len(feed) + 1
  BY <1>1
<1>3. Flags' /\ Rest'
  BY <1>1, <1>2, ShapeParts DEF Flags, Rest
<1> QED BY <1>1, <1>2, <1>3, OtherStep

LEMMA SwitchShape == ASSUME Shape, NEW l \in Languages, Switch(l) PROVE Shape'
<1>1. /\ feed \in Seq(Segments) /\ generation' = [generation EXCEPT ![l] = @ + 1]
      /\ UNCHANGED <<feed, known, epochs, marker, cursor, lock, due,
                     copies, fills, jobs, troubles, misled, unfinished>>
      /\ generation \in [Languages -> Nat] /\ Len(feed) \in Nat
  BY FeedLength DEF Shape, TypeOK, Switch, site, history
<1>2. /\ generation' \in [Languages -> Nat]
      /\ \A m \in Languages : generation[m] <= generation'[m]
  BY <1>1
<1>3. Flags'
  BY <1>1, ShapeParts DEF Flags
<1>4. Rest'
  BY <1>1, <1>2, ShapeParts DEF Rest
<1> QED BY <1>1, <1>2, <1>3, <1>4, OtherStep

(* Asking, storing and giving up change the cache and the fills only.      *)
LEMMA FillerShape ==
    ASSUME Shape,
           UNCHANGED <<feed, generation, site, jobs, history>>,
           copies' \in [Segments -> [Slots -> Copies \cup {None}]],
           fills' \in [Fillers -> Fills \cup {None}]
    PROVE  Shape'
<1>1. /\ feed \in Seq(Segments) /\ generation \in [Languages -> Nat]
      /\ UNCHANGED <<feed, generation, known, epochs, marker, cursor, lock, due,
                     jobs, troubles, misled, unfinished>>
      /\ Len(feed) \in Nat
  BY FeedLength DEF Shape, TypeOK, site, history
<1>2. Flags' /\ Rest'
  BY <1>1, ShapeParts DEF Flags, Rest
<1> QED BY <1>1, <1>2, OtherStep

LEMMA AskShape ==
    ASSUME Shape, NEW f \in Fillers, NEW s \in Segments, Ask(f, s) PROVE Shape'
<1> DEFINE fill == [seg |-> s, slot |-> epochs[LanguageOf[s]],
                    of |-> generation[LanguageOf[s]]]
<1>1. /\ UNCHANGED <<feed, generation, site, copies, jobs, history>>
      /\ fills' = [fills EXCEPT ![f] = fill]
      /\ fills \in [Fillers -> Fills \cup {None}]
      /\ copies \in [Segments -> [Slots -> Copies \cup {None}]]
  BY DEF Shape, TypeOK, Ask
<1>2. fill \in Fills
  BY PluginAssumption DEF Shape, TypeOK, Fills
<1> HIDE DEF fill
<1> QED BY <1>1, <1>2, FillerShape

(* The copies with another one in a slot.                                  *)
LEMMA PutCopy ==
    ASSUME NEW c \in [Segments -> [Slots -> Copies \cup {None}]],
           NEW s \in Segments, NEW e \in Slots, NEW x \in Copies \cup {None}
    PROVE  /\ [c EXCEPT ![s][e] = x] \in [Segments -> [Slots -> Copies \cup {None}]]
           /\ \A t \in Segments : \A d \in Slots :
                  [c EXCEPT ![s][e] = x][t][d] =
                      IF t = s /\ d = e THEN x ELSE c[t][d]
<1> DEFINE row == [c[s] EXCEPT ![e] = x]
<1>1. c[s] \in [Slots -> Copies \cup {None}]
  OBVIOUS
<1>2. /\ row \in [Slots -> Copies \cup {None}]
      /\ \A d \in Slots : row[d] = IF d = e THEN x ELSE c[s][d]
  BY <1>1
<1>3. [c EXCEPT ![s][e] = x] = [c EXCEPT ![s] = row]
  OBVIOUS
<1> HIDE DEF row
<1> QED BY <1>2, <1>3

LEMMA StoreShape == ASSUME Shape, NEW f \in Fillers, Store(f) PROVE Shape'
<1> DEFINE copy == [after |-> LastEdit(fills[f].seg), of |-> fills[f].of]
<1>1. /\ UNCHANGED <<feed, generation, site, jobs, history>>
      /\ copies' = [copies EXCEPT ![fills[f].seg][fills[f].slot] = copy]
      /\ fills' = [fills EXCEPT ![f] = None]
      /\ fills \in [Fillers -> Fills \cup {None}] /\ fills[f] \in Fills
      /\ copies \in [Segments -> [Slots -> Copies \cup {None}]]
  BY DEF Shape, TypeOK, Store
<1>2. /\ fills[f].seg \in Segments /\ fills[f].slot \in Slots
      /\ fills[f].of \in Nat
  BY <1>1 DEF Fills, Slots
<1>3. copy \in Copies
  BY <1>2, LastEditIsLast DEF Copies, Shape, TypeOK
<1> HIDE DEF copy
<1>4. copies' \in [Segments -> [Slots -> Copies \cup {None}]]
  BY <1>1, <1>2, <1>3, PutCopy
<1>5. fills' \in [Fillers -> Fills \cup {None}]
  BY <1>1
<1> QED BY <1>1, <1>4, <1>5, FillerShape

LEMMA GiveUpShape == ASSUME Shape, NEW f \in Fillers, GiveUp(f) PROVE Shape'
<1>1. /\ UNCHANGED <<feed, generation, site, copies, jobs, history>>
      /\ fills' = [fills EXCEPT ![f] = None]
      /\ fills \in [Fillers -> Fills \cup {None}]
      /\ copies \in [Segments -> [Slots -> Copies \cup {None}]]
  BY DEF Shape, TypeOK, GiveUp
<1> QED BY <1>1, FillerShape

-----------------------------------------------------------------------------
(* A process that only goes on to another place.                           *)
LEMMA GotoJob ==
    ASSUME Shape, NEW p \in Processes, NEW place \in JobPlaces,
           place \in Fetched => jobs[p].place \in Fetched,
           place # "fetched"
    PROVE  LET job == [jobs[p] EXCEPT !.place = place]
           IN  job \in Jobs /\ InFeed(job, Len(feed), generation)
<1>1. jobs[p] \in Jobs /\ InFeed(jobs[p], Len(feed), generation)
  BY DEF Shape, TypeOK, JobsInFeed
<1>2. [jobs[p] EXCEPT !.place = place] \in Jobs
  BY <1>1 DEF Jobs
<1>3. InFeed([jobs[p] EXCEPT !.place = place], Len(feed), generation)
  BY <1>1 DEF InFeed, Jobs
<1> QED BY <1>2, <1>3

LEMMA IdleShape ==
    ASSUME Shape, NEW p \in Processes, Update(p, Idle),
           feed' = feed, generation' = generation, Flags', Rest'
    PROVE  Shape'
<1>1. Len(feed) \in Nat
  BY FeedLength DEF Shape
<1> QED BY <1>1, IdleJob, JobStep

LEMMA GotoShape ==
    ASSUME Shape, NEW p \in Processes, NEW place \in JobPlaces, Goto(p, place),
           place \in Fetched => jobs[p].place \in Fetched,
           place # "fetched",
           feed' = feed, generation' = generation, Flags', Rest'
    PROVE  Shape'
<1> DEFINE job == [jobs[p] EXCEPT !.place = place]
<1>1. job \in Jobs /\ InFeed(job, Len(feed), generation)
  BY GotoJob
<1>2. Update(p, job)
  BY DEF Goto
<1> HIDE DEF job
<1> QED BY <1>1, <1>2, JobStep

(* The lock and the troubles keep their types.                             *)
LEMMA LockTypes ==
    ASSUME Shape, NEW p \in Processes
    PROVE  /\ Acquire(p) => /\ lock' \in Processes \cup {None, Dead}
                            /\ troubles' \in 0 .. MaxTroubles
           /\ Release(p) => lock' \in Processes \cup {None, Dead}
           /\ Trouble => troubles' \in 0 .. MaxTroubles
<1>1. /\ lock \in Processes \cup {None, Dead} /\ troubles \in 0 .. MaxTroubles
      /\ MaxTroubles \in Nat
  BY PluginAssumption DEF Shape, TypeOK
<1>2. Trouble => troubles' \in 0 .. MaxTroubles
  BY <1>1 DEF Trouble
<1> QED BY <1>1, <1>2 DEF Acquire, Release

LEMMA StartRefreshShape ==
    ASSUME Shape, NEW p \in Processes, StartRefresh(p) PROVE Shape'
<1>1. Flags'
  BY ShapeParts DEF StartRefresh, Flags
<1>2. Rest'
  BY ShapeParts, LockTypes DEF StartRefresh, Rest
<1>3. Goto(p, "locked") /\ feed' = feed /\ generation' = generation
  BY DEF StartRefresh
<1> QED BY <1>1, <1>2, <1>3, GotoShape DEF JobPlaces, Fetched

LEMMA StartDrainShape ==
    ASSUME Shape, NEW p \in Processes, StartDrain(p) PROVE Shape'
<1>1. Flags'
  BY ShapeParts, Zenon DEF StartDrain, Flags
<1>2. Rest'
  BY ShapeParts, LockTypes DEF StartDrain, Rest
<1>3. Goto(p, "locked") /\ feed' = feed /\ generation' = generation
  BY DEF StartDrain
<1> QED BY <1>1, <1>2, <1>3, GotoShape DEF JobPlaces, Fetched

LEMMA WarmShape == ASSUME Shape, NEW p \in Processes, Warm(p) PROVE Shape'
<1> DEFINE job == [Idle EXCEPT
        !.place = "warm",
        !.read = [epochs |-> epochs, marker |-> marker],
        !.missing = {s \in Segments : /\ epochs[LanguageOf[s]] = 0
                                      /\ Readable(s) = None}]
<1>1. /\ epochs \in [Languages -> 0 .. MaxEpoch] /\ marker \in 0 .. Len(feed)
      /\ Len(feed) \in Nat
  BY FeedLength DEF Shape, TypeOK
<1>2. job \in Jobs
  <2>1. [epochs |-> epochs, marker |-> marker] \in Options
    BY <1>1 DEF Options
  <2> QED BY <2>1 DEF Jobs, Idle, JobPlaces
<1>3. InFeed(job, Len(feed), generation)
  BY <1>1 DEF InFeed, Idle, Fetched
<1>4. Update(p, job) /\ UNCHANGED <<feed, generation, site, copies, fills, history>>
  BY DEF Warm
<1> HIDE DEF job
<1>5. Flags' /\ Rest'
  BY <1>4, ShapeParts DEF Flags, Rest, site, history
<1> QED BY <1>2, <1>3, <1>4, <1>5, JobStep

LEMMA EndWarmShape == ASSUME Shape, NEW p \in Processes, EndWarm(p) PROVE Shape'
<1>1. Flags' /\ Rest'
  BY ShapeParts DEF EndWarm, Flags, Rest, site, history
<1> QED BY <1>1, IdleShape DEF EndWarm

LEMMA FetchShape == ASSUME Shape, NEW p \in Processes, Fetch(p) PROVE Shape'
<1> DEFINE j == jobs[p]
           from == IF j.pages > 0 THEN j.upto ELSE cursor
           upto == Min({from + PageSize, Len(feed)})
           place == IF p \in Visitors THEN "fetched" ELSE "clearing"
           snapshot == IF p \in Visitors THEN generation ELSE None
           more == Len(feed) > upto
           job == [j EXCEPT
               !.place = place, !.from = from, !.next = from + 1, !.upto = upto,
               !.more = more, !.snapshot = snapshot, !.pages = @ + 1]
<1>1. /\ j \in Jobs /\ InFeed(j, Len(feed), generation) /\ cursor \in 0 .. Len(feed)
      /\ Len(feed) \in Nat /\ generation \in [Languages -> Nat]
      /\ PageSize \in Nat
  BY FeedLength, PluginAssumption DEF Shape, TypeOK, JobsInFeed
<1>2. from \in 0 .. Len(feed)
  BY <1>1, JobFields DEF InFeed
<1> HIDE DEF from
<1>3. upto \in Nat /\ from <= upto /\ upto <= Len(feed)
  BY <1>1, <1>2, MinOfTwo
<1>4. Update(p, job) /\ UNCHANGED <<feed, generation, site, copies, fills, history>>
  BY DEF Fetch, from
<1> HIDE DEF upto
<1>5. /\ place \in JobPlaces /\ snapshot \in [Languages -> Nat] \cup {None}
      /\ from \in Nat /\ from + 1 \in Nat
      /\ place = "fetched" => /\ snapshot \in [Languages -> Nat]
                              /\ \A l \in Languages : snapshot[l] <= generation[l]
  BY <1>1, <1>2 DEF JobPlaces
<1>6. more \in BOOLEAN
  BY <1>1, <1>3
<1> HIDE DEF place, snapshot, more, j
<1>7. /\ job \in Jobs
      /\ job.from = from /\ job.next = from + 1 /\ job.upto = upto
      /\ job.read = j.read /\ job.place = place /\ job.snapshot = snapshot
  <2>1. j \in Jobs /\ upto \in Nat /\ from \in Nat
    BY <1>1, <1>3, <1>5
  <2>2. place \in JobPlaces /\ snapshot \in [Languages -> Nat] \cup {None}
    BY <1>5
  <2>3. from + 1 \in Nat /\ j.pages + 1 \in Nat
    BY <2>1, JobFields
  <2> QED BY <2>1, <2>2, <2>3, <1>6, Zenon DEF Jobs
<1> HIDE DEF job
<1>8. InFeed(job, Len(feed), generation)
  BY <1>1, <1>2, <1>3, <1>5, <1>7 DEF InFeed
<1>9. Flags' /\ Rest'
  BY <1>4, ShapeParts DEF Flags, Rest, site, history
<1> QED BY <1>4, <1>7, <1>8, <1>9, JobStep

LEMMA FailShape ==
    ASSUME Shape, NEW p \in Processes, Fail(p),
           UNCHANGED <<feed, generation, known, epochs, marker, cursor, copies,
                       fills, misled, unfinished>>
    PROVE  Shape'
<1>1. Flags'
  BY ShapeParts, Zenon DEF Fail, Flags
<1>2. Rest'
  BY ShapeParts, LockTypes DEF Fail, Finish, Rest
<1> QED BY <1>1, <1>2, IdleShape DEF Fail, Finish

LEMMA DieShape == ASSUME Shape, NEW p \in Processes, Die(p) PROVE Shape'
<1>1. Flags'
  BY ShapeParts, Zenon DEF Die, Flags, Owing
<1>2. lock' \in Processes \cup {None, Dead}
  BY ShapeParts DEF Die, Rest
<1>3. Rest'
  BY <1>2, ShapeParts, LockTypes DEF Die, Rest
<1> QED BY <1>1, <1>3, IdleShape DEF Die

LEMMA ContinueShape == ASSUME Shape, NEW p \in Processes, Continue(p) PROVE Shape'
<1>1. /\ jobs[p] \in Jobs /\ jobs[p].place = "saved"
      /\ UNCHANGED <<feed, generation, known, epochs, marker, cursor, copies,
                     fills, troubles, misled, unfinished>>
  BY DEF Shape, TypeOK, Continue, history
<1>2. CASE Goto(p, "locked") /\ UNCHANGED <<due, lock>>
  <2>1. Flags' /\ Rest'
    BY <1>1, <1>2, ShapeParts DEF Flags, Rest
  <2> QED BY <1>1, <1>2, <2>1, GotoShape DEF JobPlaces, Fetched
<1>3. CASE due' = (due \/ jobs[p].more) /\ Finish(p)
  <2>1. due' \in BOOLEAN
    BY <1>3, Zenon
  <2>2. Flags'
    BY <1>1, <2>1, ShapeParts DEF Flags
  <2>3. Rest'
    BY <1>1, <1>3, ShapeParts, LockTypes DEF Finish, Rest
  <2> QED BY <1>1, <1>3, <2>2, <2>3, IdleShape DEF Finish
<1> QED BY <1>2, <1>3 DEF Continue

LEMMA ApplySettingsShape ==
    ASSUME Shape, NEW p \in Processes, ApplySettings(p) PROVE Shape'
<1> DEFINE j == jobs[p]
           changed == {l \in Languages : known'[l] # known[l]}
           job == [j EXCEPT !.place = "applied", !.snapshot = None,
                            !.changed = changed]
<1>1. /\ j \in Jobs /\ InFeed(j, Len(feed), generation) /\ j.place = "fetched"
      /\ Update(p, job)
      /\ UNCHANGED <<feed, generation, epochs, marker, cursor, lock, due, copies,
                     fills, troubles, misled, unfinished>>
  BY DEF Shape, TypeOK, JobsInFeed, ApplySettings, history
<1>2. /\ known' \in [Languages -> Nat]
      /\ \A l \in Languages : known'[l] <= generation[l]
  BY <1>1, ShapeParts DEF ApplySettings, InFeed, Rest
<1>3. job \in Jobs
  BY <1>1 DEF Jobs, JobPlaces
<1>4. InFeed(job, Len(feed), generation)
  BY <1>1 DEF InFeed, Jobs, Fetched
<1> HIDE DEF job
<1>5. Flags' /\ Rest'
  BY <1>1, <1>2, ShapeParts DEF Flags, Rest
<1> QED BY <1>1, <1>3, <1>4, <1>5, JobStep

(* A process that writes the option has read back what it wrote.           *)
LEMMA WriteShape ==
    ASSUME Shape, NEW p \in Processes, jobs[p].place \in Fetched,
           NEW option, NEW place \in JobPlaces \ {"fetched"},
           option \in [epochs: [Languages -> Nat], marker: 0 .. Len(feed)],
           Write(p, option, place),
           UNCHANGED <<feed, generation, known, cursor, lock, due, copies, fills,
                       troubles, unfinished>>
    PROVE  Shape'
<1> DEFINE j == jobs[p]
           job == [j EXCEPT !.place = place, !.read = option]
<1>1. /\ j \in Jobs /\ InFeed(j, Len(feed), generation) /\ MaxEpoch \in Nat
      /\ Len(feed) \in Nat
  BY FeedLength, PluginAssumption DEF Shape, TypeOK, JobsInFeed
<1>2. /\ option.epochs \in [Languages -> 0 .. MaxEpoch]
      /\ option.marker \in 0 .. Len(feed)
  BY <1>1 DEF Write
<1>3. option \in Options
  BY <1>1, <1>2 DEF Options
<1>4. Update(p, job) /\ epochs' = option.epochs /\ marker' = option.marker
  BY DEF Write
<1>5. job \in Jobs /\ job.read = option
  BY <1>1, <1>3 DEF Jobs
<1>6. InFeed(job, Len(feed), generation)
  BY <1>1, <1>2, <1>5 DEF InFeed, Jobs
<1> HIDE DEF job
<1>7. Flags'
  BY ShapeParts, Zenon DEF Flags, Write
<1>8. Rest'
  BY <1>2, <1>4, ShapeParts DEF Rest
<1> QED BY <1>4, <1>5, <1>6, <1>7, <1>8, JobStep

LEMMA AdvanceLanguagesShape ==
    ASSUME Shape, NEW p \in Processes, AdvanceLanguages(p) PROVE Shape'
<1>1. /\ jobs[p].place = "applied"
      /\ UNCHANGED <<feed, generation, known, cursor, lock, due, copies, fills,
                     troubles, unfinished>>
  BY DEF AdvanceLanguages
<1>2. CASE Goto(p, "clearing") /\ UNCHANGED <<epochs, marker, misled>>
  <2>1. Flags' /\ Rest'
    BY <1>1, <1>2, ShapeParts DEF Flags, Rest
  <2> QED BY <1>1, <1>2, <2>1, GotoShape DEF JobPlaces, Fetched
<1>3. CASE Write(p, [Seen(p) EXCEPT !.epochs = Advanced(@, jobs[p].changed)],
                 "clearing")
  <2>1. Advanced(Seen(p).epochs, jobs[p].changed) \in [Languages -> Nat]
    BY SeenOption DEF Advanced
  <2>2. [Seen(p) EXCEPT !.epochs = Advanced(@, jobs[p].changed)] \in
            [epochs: [Languages -> Nat], marker: 0 .. Len(feed)]
    BY <2>1, SeenOption DEF Options
  <2> QED BY <1>1, <1>3, <2>2, WriteShape DEF JobPlaces, Fetched
<1> QED BY <1>2, <1>3 DEF AdvanceLanguages

(* When the write fails, it keeps what it has read.                        *)
LEMMA AdvanceFailsShape ==
    ASSUME Shape, NEW p \in Processes, AdvanceFails(p) PROVE Shape'
<1> DEFINE j == jobs[p]
           option == Seen(p)
           job == [j EXCEPT !.place = "clearing", !.read = option]
<1>1. /\ j \in Jobs /\ InFeed(j, Len(feed), generation) /\ j.place = "applied"
      /\ Update(p, job)
      /\ UNCHANGED <<feed, generation, known, epochs, marker, cursor, lock, due,
                     copies, fills, misled>>
      /\ unfinished' = TRUE /\ Trouble
  BY DEF Shape, TypeOK, JobsInFeed, AdvanceFails, Owing, site
<1>2. option \in Options /\ option.marker <= Len(feed)
  BY SeenOption
<1> HIDE DEF option
<1>3. job \in Jobs /\ job.read = option
  BY <1>1, <1>2 DEF Jobs, JobPlaces
<1>4. InFeed(job, Len(feed), generation)
  BY <1>1, <1>2, <1>3 DEF InFeed, Jobs, Fetched
<1> HIDE DEF job
<1>5. Flags'
  BY <1>1, ShapeParts DEF Flags
<1>6. Rest'
  BY <1>1, ShapeParts, LockTypes DEF Rest
<1> QED BY <1>1, <1>3, <1>4, <1>5, <1>6, JobStep

(* An event of the page is one of the feed.                                *)
LEMMA PageInFeed ==
    ASSUME Shape, NEW p \in Processes
    PROVE  /\ jobs[p].from \in Nat /\ jobs[p].upto \in 0 .. Len(feed)
           /\ jobs[p].next \in Nat
           /\ Page(p) \subseteq 1 .. Len(feed)
           /\ \A id \in 1 .. Len(feed) : feed[id] \in Segments
<1>1. /\ jobs[p] \in Jobs /\ InFeed(jobs[p], Len(feed), generation)
      /\ feed \in Seq(Segments) /\ Len(feed) \in Nat
  BY FeedLength DEF Shape, TypeOK, JobsInFeed
<1> QED BY <1>1, JobFields DEF InFeed, Page

LEMMA CacheSlots == Legacy \in Slots /\ 0 \in Slots /\ Legacy \notin Nat
<1>1. MaxEpoch \in Nat /\ Legacy \notin Nat
  BY PluginAssumption
<1>2. 0 \in 0 .. MaxEpoch
  BY <1>1
<1> QED BY <1>1, <1>2 DEF Slots

LEMMA DeleteShape == ASSUME Shape, NEW p \in Processes, Delete(p) PROVE Shape'
<1> DEFINE j == jobs[p]
           s == feed[j.next]
           job == [j EXCEPT !.next = @ + 1, !.missing = @ \cup {s}]
<1>1. /\ j \in Jobs /\ InFeed(j, Len(feed), generation) /\ j.place = "clearing"
      /\ j.next \in Page(p) /\ Update(p, job)
      /\ UNCHANGED <<feed, generation, known, epochs, marker, cursor, lock, due,
                     fills, troubles, unfinished>>
  BY DEF Shape, TypeOK, JobsInFeed, Delete, site
<1>2. s \in Segments /\ j.next \in Nat /\ j.upto \in Nat
  BY <1>1, PageInFeed
<1> HIDE DEF s
<1>3. job \in Jobs /\ job.next = j.next + 1
  <2>1. j.next + 1 \in Nat /\ j.missing \cup {s} \in SUBSET Segments
    BY <1>1, <1>2, JobFields
  <2> QED BY <1>1, <2>1, Zenon DEF Jobs
<1>4. InFeed(job, Len(feed), generation)
  <2>1. j.next <= j.upto /\ j.from \in Nat
    BY <1>1, PageInFeed DEF Page
  <2> QED BY <1>1, <1>2, <1>3, <2>1 DEF InFeed, Jobs
<1>5. copies' \in [Segments -> [Slots -> Copies \cup {None}]]
  <2>1. CASE UNCHANGED copies
    BY <2>1, ShapeParts DEF Rest
  <2>2. CASE copies' = [copies EXCEPT ![s][Legacy] = None, ![s][0] = None]
    <3> DEFINE c == [copies EXCEPT ![s][Legacy] = None]
    <3>1. copies' = [c EXCEPT ![s][0] = None]
      BY <2>2, Zenon
    <3>0. /\ copies \in [Segments -> [Slots -> Copies \cup {None}]]
          /\ Legacy \in Slots /\ 0 \in Slots
      BY ShapeParts, CacheSlots DEF Rest
    <3>2. c \in [Segments -> [Slots -> Copies \cup {None}]]
      BY <3>0, <1>2, PutCopy
    <3> HIDE DEF c
    <3> QED BY <3>0, <3>1, <3>2, <1>2, PutCopy
  <2> QED BY <2>1, <2>2 DEF Delete, s
<1>6. Flags'
  BY <1>1, ShapeParts, Zenon DEF Flags, Delete
<1>7. Rest'
  BY <1>1, <1>5, ShapeParts DEF Rest
<1> HIDE DEF job
<1> QED BY <1>1, <1>3, <1>4, <1>6, <1>7, JobStep

(* Marking a page retires its languages once.                              *)
LEMMA RetiredOption ==
    ASSUME Shape, NEW p \in Processes, NEW targets
    PROVE  Retired(Seen(p), targets, jobs[p].upto) \in
               [epochs: [Languages -> Nat], marker: 0 .. Len(feed)]
<1> DEFINE e == AdvancedIfPositive(Seen(p).epochs, targets)
<1>1. e \in [Languages -> Nat]
  BY SeenOption DEF AdvancedIfPositive
<1> HIDE DEF e
<1>2. [epochs |-> e, marker |-> jobs[p].upto] \in
          [epochs: [Languages -> Nat], marker: 0 .. Len(feed)]
  BY <1>1, PageInFeed
<1>3. Seen(p) \in [epochs: [Languages -> Nat], marker: 0 .. Len(feed)]
  BY SeenOption DEF Options
<1> QED BY <1>2, <1>3 DEF Retired, e

LEMMA RetireShape == ASSUME Shape, NEW p \in Processes, Retire(p) PROVE Shape'
<1>1. /\ jobs[p].place = "clearing"
      /\ UNCHANGED <<feed, generation, known, cursor, lock, due, copies, fills,
                     troubles, unfinished>>
  BY DEF Retire
<1>2. CASE Goto(p, "retired") /\ UNCHANGED <<epochs, marker, misled>>
  <2>1. Flags' /\ Rest'
    BY <1>1, <1>2, ShapeParts DEF Flags, Rest
  <2> QED BY <1>1, <1>2, <2>1, GotoShape DEF JobPlaces, Fetched
<1>3. ASSUME NEW targets,
             Write(p, Retired(Seen(p), targets, jobs[p].upto), "retired")
      PROVE  Shape'
  BY <1>1, <1>3, RetiredOption, WriteShape DEF JobPlaces, Fetched
<1> QED BY <1>2, <1>3 DEF Retire

LEMMA SaveCursorShape ==
    ASSUME Shape, NEW p \in Processes, SaveCursor(p) PROVE Shape'
<1>1. /\ jobs[p].place = "retired" /\ Goto(p, "saved")
      /\ UNCHANGED <<feed, generation, known, epochs, marker, lock, due, copies,
                     fills, troubles, misled, unfinished>>
      /\ cursor' \in 0 .. Len(feed)
  BY PageInFeed, ShapeParts DEF SaveCursor, NextCursor, Rest, history
<1>2. Flags' /\ Rest'
  BY <1>1, ShapeParts DEF Flags, Rest
<1> QED BY <1>1, <1>2, GotoShape DEF JobPlaces, Fetched

(* Every step keeps the types and the shape of the jobs.                   *)
LEMMA ShapeNext == ASSUME Shape, [Next]_vars PROVE Shape'
<1>1. ASSUME NEW s \in Segments, Edit(s) PROVE Shape'
  BY <1>1, EditShape
<1>2. ASSUME NEW l \in Languages, Switch(l) PROVE Shape'
  BY <1>2, SwitchShape
<1>3. ASSUME NEW f \in Fillers, \/ \E s \in Segments : Ask(f, s)
                                \/ Store(f) \/ GiveUp(f)
      PROVE  Shape'
  BY <1>3, AskShape, StoreShape, GiveUpShape
<1>4. ASSUME NEW p \in Processes, \/ StartRefresh(p) \/ Warm(p)
                                  \/ EndWarm(p) \/ StartDrain(p)
      PROVE  Shape'
  BY <1>4, StartRefreshShape, WarmShape, EndWarmShape, StartDrainShape
<1>5. ASSUME NEW p \in Processes, Work(p) PROVE Shape'
  BY <1>5, FetchShape, ApplySettingsShape, AdvanceLanguagesShape, DeleteShape,
     RetireShape, SaveCursorShape, ContinueShape DEF Work
<1>6. ASSUME NEW p \in Processes, \/ FetchFails(p) \/ AdvanceFails(p)
                                  \/ ReadbackFails(p) \/ Die(p)
      PROVE  Shape'
  BY <1>6, FailShape, AdvanceFailsShape, DieShape DEF FetchFails, ReadbackFails
<1>7. CASE UNCHANGED vars
  BY <1>7 DEF vars, site, history, Shape, TypeOK, JobsInFeed
<1> QED BY <1>1, <1>2, <1>3, <1>4, <1>5, <1>6, <1>7 DEF Next

(* Epochs, cursor, marker, pages and what a process has read stay within   *)
(* the feed and their types, whatever fails or dies.                       *)
THEOREM TypeCorrect == Spec => []TypeOK
<1>1. Init => Shape
  BY ShapeInit
<1>2. Shape /\ [Next]_vars => Shape'
  BY ShapeNext
<1>3. Shape => TypeOK
  BY DEF Shape
<1> QED BY <1>1, <1>2, <1>3, PTL DEF Spec

-----------------------------------------------------------------------------
(* What a step does to the cache, as long as no process is misled: a copy  *)
(* stays, goes, or is a fill's, stored after every edit so far; a fill     *)
(* stays, goes, or is asked for under the present epoch; an epoch grows by *)
(* one at most.                                                            *)
CopyStep(s, e) ==
    \/ copies'[s][e] \in {copies[s][e], None}
    \/ \E f \in Fillers :
           /\ fills[f] # None /\ fills[f].seg = s /\ fills[f].slot = e
           /\ copies'[s][e].of = fills[f].of
           /\ \A id \in 1 .. Len(feed) : feed[id] = s => id <= copies'[s][e].after

FillStep(f) ==
    \/ fills'[f] \in {fills[f], None}
    \/ LET l == LanguageOf[fills'[f].seg]
       IN  fills'[f].slot = epochs[l] /\ fills'[f].of = generation[l]

EpochStep(l) == epochs'[l] \in {epochs[l], epochs[l] + 1}

SiteStep ==
    /\ Len(feed) <= Len(feed')
    /\ \A id \in 1 .. Len(feed) : feed'[id] = feed[id]
    /\ \A l \in Languages : EpochStep(l)
    /\ \A s \in Segments : \A e \in Slots : CopyStep(s, e)
    /\ \A f \in Fillers : FillStep(f)

LEMMA QuietStep ==
    ASSUME Shape, UNCHANGED <<feed, epochs, copies, fills>> PROVE SiteStep
<1>1. Len(feed) \in Nat
  BY FeedLength DEF Shape
<1> QED BY <1>1 DEF SiteStep, CopyStep, FillStep, EpochStep

LEMMA EditStep == ASSUME Shape, NEW s \in Segments, Edit(s) PROVE SiteStep
<1>1. /\ feed \in Seq(Segments) /\ Len(feed) \in Nat
      /\ feed' = Append(feed, s) /\ UNCHANGED <<epochs, copies, fills>>
  BY FeedLength DEF Shape, TypeOK, Edit, site
<1>2. /\ Len(feed) <= Len(feed')
      /\ \A id \in 1 .. Len(feed) : feed'[id] = feed[id]
  BY <1>1
<1> QED BY <1>1, <1>2 DEF SiteStep, CopyStep, FillStep, EpochStep

LEMMA AskStep ==
    ASSUME Shape, NEW f \in Fillers, NEW s \in Segments, Ask(f, s)
    PROVE  SiteStep
<1> DEFINE fill == [seg |-> s, slot |-> epochs[LanguageOf[s]],
                    of |-> generation[LanguageOf[s]]]
<1>1. /\ Len(feed) \in Nat /\ UNCHANGED <<feed, epochs, copies>>
      /\ fills' = [fills EXCEPT ![f] = fill]
      /\ fills \in [Fillers -> Fills \cup {None}]
  BY FeedLength DEF Shape, TypeOK, Ask, site
<1>2. /\ fill.slot = epochs[LanguageOf[fill.seg]]
      /\ fill.of = generation[LanguageOf[fill.seg]]
  OBVIOUS
<1> HIDE DEF fill
<1>3. \A g \in Fillers : FillStep(g)
  BY <1>1, <1>2 DEF FillStep
<1> QED BY <1>1, <1>3 DEF SiteStep, CopyStep, EpochStep

LEMMA GiveUpStep == ASSUME Shape, NEW f \in Fillers, GiveUp(f) PROVE SiteStep
<1>1. /\ Len(feed) \in Nat /\ UNCHANGED <<feed, epochs, copies>>
      /\ fills' = [fills EXCEPT ![f] = None]
      /\ fills \in [Fillers -> Fills \cup {None}]
  BY FeedLength DEF Shape, TypeOK, GiveUp, site
<1> QED BY <1>1 DEF SiteStep, CopyStep, EpochStep, FillStep

LEMMA StoreStep == ASSUME Shape, NEW f \in Fillers, Store(f) PROVE SiteStep
<1> DEFINE s == fills[f].seg
           slot == fills[f].slot
           copy == [after |-> LastEdit(s), of |-> fills[f].of]
<1>1. /\ Len(feed) \in Nat /\ UNCHANGED <<feed, epochs>>
      /\ copies' = [copies EXCEPT ![s][slot] = copy]
      /\ fills' = [fills EXCEPT ![f] = None]
      /\ fills \in [Fillers -> Fills \cup {None}]
      /\ fills[f] # None /\ fills[f] \in Fills
      /\ copies \in [Segments -> [Slots -> Copies \cup {None}]]
  BY FeedLength DEF Shape, TypeOK, Store, site
<1>2. s \in Segments /\ slot \in Slots /\ fills[f].of \in Nat
  BY <1>1 DEF Fills, Slots
<1>3. LastEdit(s) \in Nat
      /\ \A id \in 1 .. Len(feed) : feed[id] = s => id <= LastEdit(s)
  BY <1>2, LastEditIsLast DEF Shape, TypeOK
<1>4. /\ copy \in Copies /\ copy.of = fills[f].of
      /\ \A id \in 1 .. Len(feed) : feed[id] = s => id <= copy.after
  BY <1>2, <1>3 DEF Copies
<1> HIDE DEF copy, slot, s
<1>5. \A t \in Segments : \A d \in Slots :
          copies'[t][d] = IF t = s /\ d = slot THEN copy ELSE copies[t][d]
  BY <1>1, <1>2, <1>4, PutCopy
<1>6. \A t \in Segments : \A d \in Slots : CopyStep(t, d)
  <2> TAKE t \in Segments
  <2> TAKE d \in Slots
  <2>1. CASE t = s /\ d = slot
    BY <1>1, <1>4, <1>5, <2>1 DEF CopyStep, s, slot
  <2>2. CASE ~ (t = s /\ d = slot)
    BY <1>5, <2>2 DEF CopyStep
  <2> QED BY <2>1, <2>2
<1> QED BY <1>1, <1>6 DEF SiteStep, FillStep, EpochStep

(* Deleting a digest purges it, or finds that it is gone.                  *)
LEMMA DeletedCopies ==
    ASSUME Shape, NEW p \in Processes, Delete(p), ~misled'
    PROVE  LET s == feed[jobs[p].next]
           IN  /\ copies'[s][Legacy] = None /\ copies'[s][0] = None
               /\ \A t \in Segments : \A d \in Slots :
                      copies'[t][d] \in {copies[t][d], None}
<1> DEFINE s == feed[jobs[p].next]
<1>1. /\ s \in Segments /\ Legacy \in Slots /\ 0 \in Slots /\ Legacy # 0
      /\ copies \in [Segments -> [Slots -> Copies \cup {None}]]
  BY PageInFeed, CacheSlots DEF Delete, Shape, TypeOK
<1>2. CASE s \in jobs[p].missing
  <2>1. \A e \in {Legacy, 0} : copies[s][e] = None
    BY <1>2, Zenon DEF Delete
  <2>2. copies' = copies
    BY <1>2 DEF Delete
  <2> QED BY <2>1, <2>2
<1>3. CASE s \notin jobs[p].missing
  <2> DEFINE c == [copies EXCEPT ![s][Legacy] = None]
  <2>1. copies' = [c EXCEPT ![s][0] = None]
    BY <1>3, Zenon DEF Delete
  <2>2. /\ c \in [Segments -> [Slots -> Copies \cup {None}]]
        /\ \A t \in Segments : \A d \in Slots :
               c[t][d] = IF t = s /\ d = Legacy THEN None ELSE copies[t][d]
    BY <1>1, PutCopy
  <2> HIDE DEF c
  <2>3. \A t \in Segments : \A d \in Slots :
            copies'[t][d] = IF t = s /\ d = 0 THEN None ELSE c[t][d]
    BY <1>1, <2>1, <2>2, PutCopy
  <2> HIDE DEF s
  <2> QED BY <1>1, <2>2, <2>3 DEF s
<1> QED BY <1>2, <1>3

(* The option a process has not been misled about grows by one at most.    *)
LEMMA WriteStep ==
    ASSUME Shape, NEW p \in Processes, NEW option, NEW place,
           Write(p, option, place), ~misled',
           \A l \in Languages :
               option.epochs[l] \in {Seen(p).epochs[l], Seen(p).epochs[l] + 1},
           UNCHANGED <<feed, copies, fills>>
    PROVE  ~misled /\ SiteStep /\ Seen(p).epochs = epochs
<1>1. ~misled /\ Seen(p).epochs = epochs
  BY Zenon DEF Write
<1>2. epochs' = option.epochs /\ Len(feed) \in Nat
  BY FeedLength DEF Write, Shape
<1> QED BY <1>1, <1>2 DEF SiteStep, CopyStep, FillStep, EpochStep

LEMMA AdvanceLanguagesStep ==
    ASSUME Shape, NEW p \in Processes, AdvanceLanguages(p), ~misled'
    PROVE  ~misled /\ SiteStep
<1>1. CASE UNCHANGED <<epochs, marker, misled>>
  BY <1>1, QuietStep DEF AdvanceLanguages
<1>2. CASE Write(p, [Seen(p) EXCEPT !.epochs = Advanced(@, jobs[p].changed)],
                 "clearing")
  <2> DEFINE option == [Seen(p) EXCEPT !.epochs = Advanced(@, jobs[p].changed)]
  <2>1. option.epochs = Advanced(Seen(p).epochs, jobs[p].changed)
    BY SeenOption DEF Options
  <2>2. \A l \in Languages :
            option.epochs[l] \in {Seen(p).epochs[l], Seen(p).epochs[l] + 1}
    BY <2>1 DEF Advanced
  <2> HIDE DEF option
  <2> QED BY <1>2, <2>2, WriteStep DEF AdvanceLanguages, option
<1> QED BY <1>1, <1>2 DEF AdvanceLanguages

LEMMA RetireStep ==
    ASSUME Shape, NEW p \in Processes, Retire(p), ~misled'
    PROVE  ~misled /\ SiteStep
<1>1. CASE UNCHANGED <<epochs, marker, misled>>
  BY <1>1, QuietStep DEF Retire
<1>2. ASSUME NEW targets,
             Write(p, Retired(Seen(p), targets, jobs[p].upto), "retired")
      PROVE  ~misled /\ SiteStep
  <2> DEFINE option == Retired(Seen(p), targets, jobs[p].upto)
  <2>1. \A l \in Languages :
            option.epochs[l] \in {Seen(p).epochs[l], Seen(p).epochs[l] + 1}
    BY DEF Retired, AdvancedIfPositive
  <2> HIDE DEF option
  <2> QED BY <1>2, <2>1, WriteStep DEF Retire, option
<1> QED BY <1>1, <1>2 DEF Retire

LEMMA NextIsSiteStep ==
    ASSUME Shape, [Next]_vars, ~misled' PROVE ~misled /\ SiteStep
<1>1. ASSUME NEW s \in Segments, Edit(s) PROVE ~misled /\ SiteStep
  BY <1>1, EditStep DEF Edit, history
<1>2. ASSUME NEW l \in Languages, Switch(l) PROVE ~misled /\ SiteStep
  BY <1>2, QuietStep DEF Switch, site, history
<1>3. ASSUME NEW f \in Fillers, NEW s \in Segments, Ask(f, s)
      PROVE  ~misled /\ SiteStep
  BY <1>3, AskStep DEF Ask, history
<1>4. ASSUME NEW f \in Fillers, Store(f) PROVE ~misled /\ SiteStep
  BY <1>4, StoreStep DEF Store, history
<1>5. ASSUME NEW f \in Fillers, GiveUp(f) PROVE ~misled /\ SiteStep
  BY <1>5, GiveUpStep DEF GiveUp, history
<1>6. ASSUME NEW p \in Processes, AdvanceLanguages(p) PROVE ~misled /\ SiteStep
  BY <1>6, AdvanceLanguagesStep
<1>7. ASSUME NEW p \in Processes, Retire(p) PROVE ~misled /\ SiteStep
  BY <1>7, RetireStep
<1>8. ASSUME NEW p \in Processes, Delete(p) PROVE ~misled /\ SiteStep
  <2>1. ~misled
    BY <1>8, Zenon DEF Delete
  <2>2. \A t \in Segments : \A d \in Slots : copies'[t][d] \in {copies[t][d], None}
    BY <1>8, DeletedCopies
  <2>3. UNCHANGED <<feed, epochs, fills>> /\ Len(feed) \in Nat
    BY <1>8, FeedLength DEF Delete, site, Shape
  <2> QED BY <2>1, <2>2, <2>3 DEF SiteStep, CopyStep, FillStep, EpochStep
<1>9. ASSUME NEW p \in Processes,
             \/ StartRefresh(p) \/ Warm(p) \/ EndWarm(p) \/ StartDrain(p)
             \/ Fetch(p) \/ ApplySettings(p) \/ SaveCursor(p) \/ Continue(p)
             \/ FetchFails(p) \/ AdvanceFails(p) \/ ReadbackFails(p) \/ Die(p)
      PROVE  ~misled /\ SiteStep
  <2>1. UNCHANGED <<feed, epochs, copies, fills, misled>>
    BY <1>9 DEF StartRefresh, Warm, EndWarm, StartDrain, Fetch, ApplySettings,
       SaveCursor, Continue, FetchFails, AdvanceFails, ReadbackFails, Die, site,
       history
  <2> QED BY <2>1, QuietStep
<1>10. CASE UNCHANGED vars
  BY <1>10, QuietStep DEF vars, site, history
<1> QED BY <1>1, <1>2, <1>3, <1>4, <1>5, <1>6, <1>7, <1>8, <1>9, <1>10
        DEF Next, Work

-----------------------------------------------------------------------------
(* Event id is purged where its digest was deleted: a copy that is left in *)
(* the slots of epoch 0 was stored later.  It is turned where the epoch of *)
(* its language, if not 0, shows no older copy.                            *)
Fresh(copy, id) == copy = None \/ copy.after >= id

Purged(id) == \A e \in {Legacy, 0} : Fresh(copies[feed[id]][e], id)

Turned(id) ==
    LET s == feed[id]
        e == epochs[LanguageOf[s]]
    IN  e > 0 => Fresh(copies[s][e], id)

AppliedTo(n) == \A id \in 1 .. n : Purged(id) /\ Turned(id)

TurnedTo(n) == \A id \in 1 .. n : Turned(id)

(* No copy and no fill lies ahead of its language's epoch, so the next     *)
(* epoch is empty.                                                         *)
NothingAhead ==
    /\ \A s \in Segments : \A e \in 0 .. MaxEpoch :
           e > epochs[LanguageOf[s]] => copies[s][e] = None
    /\ \A f \in Fillers :
           fills[f] # None => fills[f].slot <= epochs[LanguageOf[fills[f].seg]]

Kept ==
    /\ Len(feed) <= Len(feed')
    /\ \A id \in 1 .. Len(feed) :
           (Purged(id) => Purged(id)') /\ (Turned(id) => Turned(id)')

LEMMA EpochOf ==
    ASSUME Shape, NEW s \in Segments
    PROVE  /\ LanguageOf[s] \in Languages /\ epochs[LanguageOf[s]] \in 0 .. MaxEpoch
           /\ MaxEpoch \in Nat
BY PluginAssumption DEF Shape, TypeOK

LEMMA NothingAheadStays ==
    ASSUME Shape, Shape', SiteStep, NothingAhead PROVE NothingAhead'
<1>1. ASSUME NEW s \in Segments, NEW e \in 0 .. MaxEpoch,
             e > epochs'[LanguageOf[s]]
      PROVE  copies'[s][e] = None
  <2>1. /\ epochs[LanguageOf[s]] \in 0 .. MaxEpoch
        /\ epochs'[LanguageOf[s]] \in 0 .. MaxEpoch /\ MaxEpoch \in Nat
        /\ EpochStep(LanguageOf[s])
    BY EpochOf DEF Shape, TypeOK, SiteStep
  <2>2. e > epochs[LanguageOf[s]]
    BY <1>1, <2>1 DEF EpochStep
  <2>3. copies[s][e] = None
    BY <2>2 DEF NothingAhead
  <2>4. CopyStep(s, e)
    BY DEF SiteStep, Slots
  <2>5. ASSUME NEW f \in Fillers, fills[f] # None, fills[f].seg = s,
               fills[f].slot = e
        PROVE  FALSE
    BY <2>1, <2>2, <2>5 DEF NothingAhead
  <2> QED BY <2>3, <2>4, <2>5 DEF CopyStep
<1>2. ASSUME NEW f \in Fillers, fills'[f] # None
      PROVE  fills'[f].slot <= epochs'[LanguageOf[fills'[f].seg]]
  <2>1. fills'[f] \in Fills
    BY <1>2 DEF Shape, TypeOK
  <2> DEFINE l == LanguageOf[fills'[f].seg]
  <2>2. /\ l \in Languages /\ fills'[f].slot \in Nat /\ EpochStep(l)
        /\ epochs[l] \in Nat /\ epochs'[l] \in Nat
    BY <2>1, EpochOf DEF Fills, Shape, TypeOK, SiteStep
  <2>3. fills'[f].slot <= epochs[l]
    <3>1. CASE fills'[f] = fills[f]
      BY <1>2, <3>1 DEF NothingAhead
    <3>2. CASE fills'[f].slot = epochs[l]
      BY <2>2, <3>2
    <3> QED BY <1>2, <3>1, <3>2 DEF SiteStep, FillStep
  <2> QED BY <2>2, <2>3 DEF EpochStep
<1> QED BY <1>1, <1>2 DEF NothingAhead

(* A copy of a slot that showed no edit before id shows none after a step. *)
LEMMA FreshStays ==
    ASSUME Shape, Shape', SiteStep, NEW id \in 1 .. Len(feed), NEW e \in Slots,
           Fresh(copies[feed[id]][e], id)
    PROVE  Fresh(copies'[feed[id]][e], id)
<1> DEFINE s == feed[id]
<1>1. s \in Segments /\ id \in Nat
  BY DEF Shape, TypeOK
<1>2. CopyStep(s, e) /\ copies'[s][e] \in Copies \cup {None}
  BY <1>1 DEF SiteStep, Shape, TypeOK
<1>3. CASE copies'[s][e] \in {copies[s][e], None}
  BY <1>3 DEF Fresh
<1>4. CASE copies'[s][e] \in Copies /\ id <= copies'[s][e].after
  BY <1>1, <1>4 DEF Fresh, Copies
<1> QED BY <1>2, <1>3, <1>4 DEF CopyStep, Fresh

LEMMA EventsAreKept ==
    ASSUME Shape, Shape', SiteStep, NothingAhead PROVE Kept
<1>1. ASSUME NEW id \in 1 .. Len(feed), Purged(id) PROVE Purged(id)'
  <2>1. feed'[id] = feed[id] /\ Legacy \in Slots /\ 0 \in Slots
    BY CacheSlots DEF SiteStep
  <2> QED BY <1>1, <2>1, FreshStays DEF Purged
<1>2. ASSUME NEW id \in 1 .. Len(feed), Turned(id) PROVE Turned(id)'
  <2> DEFINE s == feed[id]
             l == LanguageOf[s]
  <2>1. feed'[id] = s /\ s \in Segments
    BY DEF SiteStep, Shape, TypeOK
  <2>2. /\ l \in Languages /\ epochs[l] \in 0 .. MaxEpoch
        /\ epochs'[l] \in 0 .. MaxEpoch /\ EpochStep(l) /\ MaxEpoch \in Nat
    BY <2>1, EpochOf DEF Shape, TypeOK, SiteStep
  <2>3. epochs'[l] \in Slots
    BY <2>2 DEF Slots
  <2>4. CASE epochs'[l] = epochs[l]
    BY <1>2, <2>1, <2>3, <2>4, FreshStays DEF Turned
  <2>5. CASE epochs'[l] = epochs[l] + 1
    <3>1. copies[s][epochs'[l]] = None
      BY <2>1, <2>2, <2>5 DEF NothingAhead
    <3>2. Fresh(copies'[s][epochs'[l]], id)
      BY <2>3, <3>1, FreshStays DEF Fresh
    <3> QED BY <2>1, <3>2 DEF Turned
  <2> QED BY <2>2, <2>4, <2>5 DEF EpochStep
<1> QED BY <1>1, <1>2 DEF Kept, SiteStep

-----------------------------------------------------------------------------
(* What a process has done of its page: up to "from" nothing is left to    *)
(* do, up to "next" the digests are gone, and once the epochs are retired  *)
(* the page is applied, which the next page of a drain relies on.          *)
JobDone(j) ==
    /\ j.read # None => TurnedTo(j.read.marker)
    /\ j.place \in {"idle", "warm"} => j.pages = 0
    /\ j.place \in Fetched => AppliedTo(j.from)
    /\ j.place \in {"fetched", "applied", "clearing"} =>
           \A id \in j.from + 1 .. j.next - 1 : Purged(id)
    /\ j.place \in {"retired", "saved"} \/ (j.place = "locked" /\ j.pages > 0)
           => AppliedTo(j.upto)

JobsDone == \A p \in Processes : JobDone(jobs[p])

SiteInv ==
    ~misled => NothingAhead /\ AppliedTo(cursor) /\ TurnedTo(marker) /\ JobsDone

LEMMA SiteInit == Init => SiteInv
<1> SUFFICES ASSUME Init PROVE NothingAhead /\ AppliedTo(cursor)
                               /\ TurnedTo(marker) /\ JobsDone
  BY DEF SiteInv
<1>1. NothingAhead
  <2>1. ASSUME NEW s \in Segments, NEW e \in 0 .. MaxEpoch
        PROVE  copies[s][e] = None
    <3>1. MaxEpoch \in Nat /\ e \in Nat
      BY PluginAssumption
    <3>2. e # Legacy /\ e \in Slots
      BY <3>1, CacheSlots DEF Slots
    <3> QED BY <3>2 DEF Init
  <2>2. \A f \in Fillers : fills[f] = None
    BY DEF Init
  <2> QED BY <2>1, <2>2 DEF NothingAhead
<1>2. AppliedTo(cursor) /\ TurnedTo(marker)
  BY DEF Init, AppliedTo, TurnedTo
<1>3. \A p \in Processes : jobs[p] = Idle
  BY DEF Init
<1>4. JobDone(Idle)
  BY DEF JobDone, Idle, Fetched
<1> QED BY <1>1, <1>2, <1>3, <1>4 DEF JobsDone

(* What is kept stays done.                                                *)
LEMMA DoneStays ==
    ASSUME Shape, Kept, NEW n \in 0 .. Len(feed)
    PROVE  (AppliedTo(n) => AppliedTo(n)') /\ (TurnedTo(n) => TurnedTo(n)')
<1>1. Len(feed) \in Nat
  BY FeedLength DEF Shape
<1> QED BY <1>1 DEF Kept, AppliedTo, TurnedTo

LEMMA JobDoneStays ==
    ASSUME Shape, Kept, NEW j \in Jobs, InFeed(j, Len(feed), generation), JobDone(j)
    PROVE  JobDone(j)'
<1>1. /\ Len(feed) \in Nat /\ j.from \in 0 .. Len(feed) /\ j.upto \in 0 .. Len(feed)
      /\ j.next \in Nat /\ j.next - 1 <= Len(feed)
      /\ j.read # None => j.read.marker \in 0 .. Len(feed)
  BY FeedLength, JobFields DEF Shape, InFeed, Options
<1>2. j.read # None => TurnedTo(j.read.marker)'
  BY <1>1, DoneStays DEF JobDone
<1>3. j.place \in Fetched => AppliedTo(j.from)'
  BY <1>1, DoneStays DEF JobDone
<1>4. j.place \in {"fetched", "applied", "clearing"} =>
          \A id \in j.from + 1 .. j.next - 1 : Purged(id)'
  BY <1>1 DEF JobDone, Kept
<1>5. j.place \in {"retired", "saved"} \/ (j.place = "locked" /\ j.pages > 0)
          => AppliedTo(j.upto)'
  BY <1>1, DoneStays DEF JobDone
<1> QED BY <1>2, <1>3, <1>4, <1>5 DEF JobDone

(* The process that steps is p: what the others have done is kept.         *)
LEMMA JobStepKeepsSite ==
    ASSUME Shape, Kept, NothingAhead', JobsDone, NEW p \in Processes,
           \A q \in Processes \ {p} : jobs'[q] = jobs[q],
           JobDone(jobs[p])', AppliedTo(cursor)', TurnedTo(marker)'
    PROVE  SiteInv'
<1>1. ASSUME NEW q \in Processes, q # p PROVE JobDone(jobs[q])'
  <2>1. PICK j : j = jobs[q]
    OBVIOUS
  <2>2. /\ j \in Jobs /\ InFeed(j, Len(feed), generation) /\ JobDone(j)
        /\ jobs'[q] = j
    BY <1>1, <2>1 DEF Shape, TypeOK, JobsInFeed, JobsDone
  <2>3. JobDone(j)'
    BY <2>2, JobDoneStays
  <2> QED BY <2>2, <2>3
<1>2. JobsDone'
  BY <1>1 DEF JobsDone
<1> QED BY <1>2 DEF SiteInv

LEMMA JobsStayKeepsSite ==
    ASSUME Shape, Kept, NothingAhead', JobsDone, jobs' = jobs,
           AppliedTo(cursor)', TurnedTo(marker)'
    PROVE  SiteInv'
<1>1. ASSUME NEW q \in Processes PROVE JobDone(jobs[q])'
  <2>1. PICK j : j = jobs[q]
    OBVIOUS
  <2>2. /\ j \in Jobs /\ InFeed(j, Len(feed), generation) /\ JobDone(j)
        /\ jobs'[q] = j
    BY <2>1 DEF Shape, TypeOK, JobsInFeed, JobsDone
  <2>3. JobDone(j)'
    BY <2>2, JobDoneStays
  <2> QED BY <2>2, <2>3
<1>2. JobsDone'
  BY <1>1 DEF JobsDone
<1> QED BY <1>2 DEF SiteInv

(* The premises of a step that misleads nobody.                            *)
Undisturbed ==
    /\ Shape /\ Shape' /\ Kept
    /\ NothingAhead /\ NothingAhead'
    /\ AppliedTo(cursor) /\ TurnedTo(marker) /\ JobsDone

LEMMA SiteStays ==
    ASSUME Undisturbed
    PROVE  /\ cursor' = cursor => AppliedTo(cursor)'
           /\ marker' = marker => TurnedTo(marker)'
<1>1. cursor \in 0 .. Len(feed) /\ marker \in 0 .. Len(feed)
  BY DEF Undisturbed, Shape, TypeOK
<1>2. PICK c : c = cursor
  OBVIOUS
<1>3. PICK m : m = marker
  OBVIOUS
<1>4. AppliedTo(c)' /\ TurnedTo(m)'
  BY <1>1, <1>2, <1>3, DoneStays DEF Undisturbed
<1> QED BY <1>2, <1>3, <1>4

(* The step of a process that leaves cursor and marker alone.              *)
LEMMA QuietJob ==
    ASSUME Undisturbed, NEW p \in Processes, NEW job, Update(p, job),
           UNCHANGED <<cursor, marker>>, JobDone(jobs[p])'
    PROVE  SiteInv'
<1>1. \A q \in Processes \ {p} : jobs'[q] = jobs[q]
  BY UpdateJob DEF Undisturbed, Shape
<1> QED BY <1>1, SiteStays, JobStepKeepsSite DEF Undisturbed

LEMMA IdleJobDone ==
    ASSUME Undisturbed, NEW p \in Processes, Update(p, Idle),
           UNCHANGED <<cursor, marker>>
    PROVE  SiteInv'
<1>1. jobs'[p] = Idle
  BY UpdateJob DEF Undisturbed, Shape
<1>2. JobDone(jobs[p])'
  BY <1>1 DEF JobDone, Idle, Fetched
<1> QED BY <1>2, QuietJob

(* A process that goes on to another place keeps what it has.              *)
LEMMA GoneTo ==
    ASSUME Shape, NEW p \in Processes, NEW place \in JobPlaces, Goto(p, place)
    PROVE  /\ jobs'[p].place = place
           /\ jobs'[p].from = jobs[p].from /\ jobs'[p].upto = jobs[p].upto
           /\ jobs'[p].next = jobs[p].next /\ jobs'[p].pages = jobs[p].pages
           /\ jobs'[p].read = jobs[p].read /\ jobs'[p].changed = jobs[p].changed
<1>1. jobs'[p] = [jobs[p] EXCEPT !.place = place] /\ jobs[p] \in Jobs
  BY UpdateJob DEF Goto, Shape, TypeOK
<1> QED BY <1>1 DEF Jobs

(* What p had done is kept as well: its job j, before the step.            *)
LEMMA OwnJobKept ==
    ASSUME Undisturbed, NEW p \in Processes
    PROVE  \E j \in Jobs :
               /\ jobs[p] = j /\ JobDone(j) /\ JobDone(j)'
               /\ InFeed(j, Len(feed), generation) /\ Len(feed) \in Nat
               /\ j.from \in 0 .. Len(feed) /\ j.upto \in 0 .. Len(feed)
               /\ j.next \in Nat /\ j.next <= j.upto + 1 /\ j.pages \in Nat
<1>1. PICK j : j = jobs[p]
  OBVIOUS
<1>2. /\ j \in Jobs /\ InFeed(j, Len(feed), generation) /\ JobDone(j)
      /\ Len(feed) \in Nat
  BY <1>1, FeedLength DEF Undisturbed, Shape, TypeOK, JobsInFeed, JobsDone
<1>3. JobDone(j)'
  BY <1>2, JobDoneStays DEF Undisturbed
<1>4. /\ j.from \in 0 .. Len(feed) /\ j.upto \in 0 .. Len(feed)
      /\ j.next \in Nat /\ j.next <= j.upto + 1 /\ j.pages \in Nat
  BY <1>2, JobFields DEF InFeed
<1> QED BY <1>1, <1>2, <1>3, <1>4

-----------------------------------------------------------------------------
(* A refresh or a drain gets the lock; a drain goes on with another page.  *)
LEMMA LockedSite ==
    ASSUME Undisturbed, NEW p \in Processes, Goto(p, "locked"),
           jobs[p].place \in {"idle", "warm", "saved"},
           UNCHANGED <<cursor, marker>>
    PROVE  SiteInv'
<1>1. PICK j \in Jobs : /\ jobs[p] = j /\ JobDone(j) /\ JobDone(j)'
                        /\ j.pages \in Nat
  BY OwnJobKept
<1>2. /\ jobs'[p].place = "locked" /\ jobs'[p].upto = j.upto
      /\ jobs'[p].pages = j.pages /\ jobs'[p].read = j.read
  <2>1. "locked" \in JobPlaces /\ Shape
    BY DEF JobPlaces, Undisturbed
  <2> QED BY <1>1, <2>1, GoneTo
<1>3. JobDone(jobs[p])'
  BY <1>1, <1>2 DEF JobDone, Fetched
<1> QED BY <1>3, QuietJob DEF Goto

LEMMA WarmSite == ASSUME Undisturbed, NEW p \in Processes, Warm(p) PROVE SiteInv'
<1> DEFINE option == [epochs |-> epochs, marker |-> marker]
           missing == {s \in Segments : /\ epochs[LanguageOf[s]] = 0
                                        /\ Readable(s) = None}
           job == [Idle EXCEPT !.place = "warm", !.read = option,
                               !.missing = missing]
<1>1. Update(p, job) /\ UNCHANGED <<cursor, marker>>
  BY DEF Warm, site
<1>2. jobs'[p] = job
  BY <1>1, UpdateJob DEF Undisturbed, Shape
<1>3. PICK m : m = marker
  OBVIOUS
<1>4. TurnedTo(m)'
  BY <1>1, <1>3, SiteStays
<1>5. /\ jobs'[p].place = "warm" /\ jobs'[p].pages = 0
      /\ jobs'[p].read.marker = m
  BY <1>2, <1>3 DEF Idle
<1>6. JobDone(jobs[p])'
  BY <1>4, <1>5 DEF JobDone, Fetched
<1> HIDE DEF job
<1> QED BY <1>1, <1>6, QuietJob

LEMMA FetchSite == ASSUME Undisturbed, NEW p \in Processes, Fetch(p) PROVE SiteInv'
<1>1. PICK j \in Jobs :
          /\ jobs[p] = j /\ JobDone(j) /\ JobDone(j)' /\ j.pages \in Nat
          /\ j.upto \in 0 .. Len(feed)
  BY OwnJobKept
<1>2. PICK from : from = IF j.pages > 0 THEN j.upto ELSE cursor
  OBVIOUS
<1>3. PICK upto : upto = Min({from + PageSize, Len(feed)})
  OBVIOUS
<1> DEFINE place == IF p \in Visitors THEN "fetched" ELSE "clearing"
           snapshot == IF p \in Visitors THEN generation ELSE None
           job == [j EXCEPT
               !.place = place, !.from = from, !.next = from + 1, !.upto = upto,
               !.more = Len(feed) > upto, !.snapshot = snapshot, !.pages = @ + 1]
<1>4. j.place = "locked" /\ Update(p, job) /\ UNCHANGED <<cursor, marker>>
  BY <1>1, <1>2, <1>3 DEF Fetch, site
<1>5. jobs'[p] = job
  BY <1>4, UpdateJob DEF Undisturbed, Shape
<1>6. /\ jobs'[p].from = from /\ jobs'[p].next = from + 1
      /\ jobs'[p].read = j.read /\ jobs'[p].place \in {"fetched", "clearing"}
  BY <1>5 DEF Jobs
<1> HIDE DEF job
<1>7. AppliedTo(from)'
  <2>1. CASE j.pages > 0
    BY <1>1, <1>2, <1>4, <2>1 DEF JobDone
  <2>2. CASE ~ (j.pages > 0)
    <3>1. from = cursor'
      BY <1>2, <1>4, <2>2
    <3> QED BY <1>4, <3>1, SiteStays
  <2> QED BY <2>1, <2>2
<1>8. from \in Nat
  BY <1>1, <1>2 DEF Undisturbed, Shape, TypeOK
<1>9. JobDone(jobs[p])'
  <2>1. \A id \in from + 1 .. (from + 1) - 1 : Purged(id)'
    BY <1>8
  <2>2. j.read # None => TurnedTo(j.read.marker)'
    BY <1>1 DEF JobDone
  <2> QED BY <1>6, <1>7, <2>1, <2>2 DEF JobDone, Fetched
<1> QED BY <1>4, <1>9, QuietJob

LEMMA ApplySettingsSite ==
    ASSUME Undisturbed, NEW p \in Processes, ApplySettings(p) PROVE SiteInv'
<1>1. PICK j \in Jobs : jobs[p] = j /\ JobDone(j)'
  BY OwnJobKept
<1>2. PICK changed : changed = {l \in Languages : known'[l] # known[l]}
  OBVIOUS
<1> DEFINE job == [j EXCEPT !.place = "applied", !.snapshot = None,
                            !.changed = changed]
<1>3. j.place = "fetched" /\ Update(p, job) /\ UNCHANGED <<cursor, marker>>
  BY <1>1, <1>2 DEF ApplySettings
<1>4. jobs'[p] = job
  BY <1>3, UpdateJob DEF Undisturbed, Shape
<1>5. /\ jobs'[p].from = j.from /\ jobs'[p].next = j.next
      /\ jobs'[p].read = j.read /\ jobs'[p].place = "applied"
  BY <1>4 DEF Jobs
<1> HIDE DEF job
<1>6. JobDone(jobs[p])'
  BY <1>1, <1>3, <1>5 DEF JobDone, Fetched
<1> QED BY <1>3, <1>6, QuietJob

(* The option is written: the marker is one up to which epochs are turned. *)
LEMMA WriteSite ==
    ASSUME Undisturbed, NEW p \in Processes, NEW option, NEW place \in JobPlaces,
           Write(p, option, place), cursor' = cursor, TurnedTo(option.marker)',
           \/ place = "clearing" /\ jobs[p].place = "applied"
           \/ /\ place = "retired" /\ jobs[p].place = "clearing"
              /\ AppliedTo(jobs[p].upto)'
    PROVE  SiteInv'
<1>1. PICK j \in Jobs : jobs[p] = j /\ JobDone(j)'
  BY OwnJobKept
<1> DEFINE job == [j EXCEPT !.place = place, !.read = option]
<1>2. Update(p, job) /\ marker' = option.marker
  BY <1>1 DEF Write
<1>3. /\ jobs'[p] = job
      /\ \A q \in Processes \ {p} : jobs'[q] = jobs[q]
  BY <1>2, UpdateJob DEF Undisturbed, Shape
<1>4. /\ jobs'[p].from = j.from /\ jobs'[p].next = j.next
      /\ jobs'[p].read = option /\ jobs'[p].place = place
      /\ jobs'[p].upto = j.upto
  BY <1>3 DEF Jobs
<1> HIDE DEF job
<1>5. JobDone(jobs[p])'
  BY <1>1, <1>4 DEF JobDone, Fetched
<1>6. AppliedTo(cursor)' /\ TurnedTo(marker)'
  BY <1>2, SiteStays
<1> QED BY <1>3, <1>5, <1>6, JobStepKeepsSite DEF Undisturbed

LEMMA SeenTurned ==
    ASSUME Undisturbed, NEW p \in Processes
    PROVE  \E m \in 0 .. Len(feed) : m = Seen(p).marker /\ TurnedTo(m)'
<1>1. PICK j \in Jobs : jobs[p] = j /\ JobDone(j)'
  BY OwnJobKept
<1>2. PICK m : m = Seen(p).marker
  OBVIOUS
<1>3. m \in 0 .. Len(feed)
  BY <1>2, SeenOption DEF Undisturbed
<1>4. CASE j.read # None
  BY <1>1, <1>2, <1>3, <1>4 DEF Seen, JobDone
<1>5. CASE j.read = None
  <2>1. m = marker
    BY <1>1, <1>2, <1>5 DEF Seen
  <2>2. TurnedTo(m)
    BY <2>1 DEF Undisturbed
  <2> QED BY <1>2, <1>3, <2>2, DoneStays DEF Undisturbed
<1> QED BY <1>4, <1>5

LEMMA AdvanceLanguagesSite ==
    ASSUME Undisturbed, NEW p \in Processes, AdvanceLanguages(p)
    PROVE  SiteInv'
<1>1. jobs[p].place = "applied" /\ cursor' = cursor
  BY DEF AdvanceLanguages
<1>2. CASE Goto(p, "clearing") /\ UNCHANGED <<epochs, marker, misled>>
  <2>1. PICK j \in Jobs : jobs[p] = j /\ JobDone(j)'
    BY OwnJobKept
  <2>2. /\ jobs'[p].place = "clearing" /\ jobs'[p].from = j.from
        /\ jobs'[p].next = j.next /\ jobs'[p].read = j.read
    <3>1. "clearing" \in JobPlaces /\ Shape
      BY DEF JobPlaces, Undisturbed
    <3> QED BY <1>2, <2>1, <3>1, GoneTo
  <2>3. JobDone(jobs[p])'
    BY <1>1, <2>1, <2>2 DEF JobDone, Fetched
  <2> QED BY <1>1, <1>2, <2>3, QuietJob DEF Goto
<1>3. CASE Write(p, [Seen(p) EXCEPT !.epochs = Advanced(@, jobs[p].changed)],
                 "clearing")
  <2>1. PICK option :
            option = [Seen(p) EXCEPT !.epochs = Advanced(@, jobs[p].changed)]
    OBVIOUS
  <2>2. PICK m \in 0 .. Len(feed) : m = Seen(p).marker /\ TurnedTo(m)'
    BY SeenTurned
  <2>3. option.marker = m
    BY <2>1, <2>2, SeenOption DEF Options, Undisturbed
  <2>4. Write(p, option, "clearing") /\ "clearing" \in JobPlaces
    BY <1>3, <2>1 DEF JobPlaces
  <2> QED BY <1>1, <2>2, <2>3, <2>4, WriteSite
<1> QED BY <1>2, <1>3 DEF AdvanceLanguages

LEMMA AdvanceFailsSite ==
    ASSUME Undisturbed, NEW p \in Processes, AdvanceFails(p)
    PROVE  SiteInv'
<1>1. PICK j \in Jobs : jobs[p] = j /\ JobDone(j)'
  BY OwnJobKept
<1>2. PICK option : option = Seen(p)
  OBVIOUS
<1>3. option.marker \in 0 .. Len(feed) /\ TurnedTo(option.marker)'
  BY <1>2, SeenTurned
<1> DEFINE job == [j EXCEPT !.place = "clearing", !.read = option]
<1>4. j.place = "applied" /\ Update(p, job) /\ UNCHANGED <<cursor, marker>>
  BY <1>1, <1>2 DEF AdvanceFails, Owing, site
<1>5. jobs'[p] = job
  BY <1>4, UpdateJob DEF Undisturbed, Shape
<1>6. /\ jobs'[p].from = j.from /\ jobs'[p].next = j.next
      /\ jobs'[p].read = option /\ jobs'[p].place = "clearing"
  BY <1>5 DEF Jobs
<1> HIDE DEF job
<1>7. JobDone(jobs[p])'
  BY <1>1, <1>3, <1>4, <1>6 DEF JobDone, Fetched
<1> QED BY <1>4, <1>7, QuietJob

LEMMA DeleteSite ==
    ASSUME Undisturbed, NEW p \in Processes, Delete(p), ~misled' PROVE SiteInv'
<1>1. PICK j \in Jobs :
          /\ jobs[p] = j /\ JobDone(j)' /\ InFeed(j, Len(feed), generation)
          /\ Len(feed) \in Nat /\ j.from \in 0 .. Len(feed)
          /\ j.upto \in 0 .. Len(feed) /\ j.next \in Nat
  BY OwnJobKept
<1>2. PICK s : s = feed[j.next]
  OBVIOUS
<1> DEFINE job == [j EXCEPT !.next = @ + 1, !.missing = @ \cup {s}]
<1>3. /\ j.place = "clearing" /\ j.next \in j.from + 1 .. j.upto
      /\ Update(p, job) /\ UNCHANGED <<feed, cursor, marker>>
  BY <1>1, <1>2 DEF Delete, Page, site
<1>4. jobs'[p] = job
  BY <1>3, UpdateJob DEF Undisturbed, Shape
<1>5. /\ jobs'[p].from = j.from /\ jobs'[p].next = j.next + 1
      /\ jobs'[p].read = j.read /\ jobs'[p].place = "clearing"
  BY <1>3, <1>4 DEF Jobs
<1> HIDE DEF job
<1>6. copies'[s][Legacy] = None /\ copies'[s][0] = None
  BY <1>1, <1>2, DeletedCopies DEF Undisturbed
<1>7. Purged(j.next)'
  BY <1>2, <1>3, <1>6 DEF Purged, Fresh
<1>8. \A id \in j.from + 1 .. (j.next + 1) - 1 : Purged(id)'
  BY <1>1, <1>3, <1>7 DEF JobDone
<1>9. JobDone(jobs[p])'
  BY <1>1, <1>3, <1>5, <1>8 DEF JobDone, Fetched
<1> QED BY <1>3, <1>9, QuietJob

(* A page whose digests are gone is applied when its epochs are turned.    *)
LEMMA PageApplied ==
    ASSUME Undisturbed, NEW p \in Processes, jobs[p].place = "clearing",
           jobs[p].next \notin Page(p), NEW n, n = jobs[p].upto, TurnedTo(n)'
    PROVE  AppliedTo(n)'
<1>1. PICK j \in Jobs :
          /\ jobs[p] = j /\ JobDone(j)' /\ InFeed(j, Len(feed), generation)
          /\ Len(feed) \in Nat /\ j.from \in 0 .. Len(feed)
          /\ j.upto \in 0 .. Len(feed) /\ j.next \in Nat
  BY OwnJobKept
<1>2. j.next > n /\ j.from < j.next /\ n = j.upto
  BY <1>1 DEF Page, InFeed, Fetched
<1>3. AppliedTo(j.from)' /\ \A id \in j.from + 1 .. j.next - 1 : Purged(id)'
  BY <1>1 DEF JobDone, Fetched
<1>4. ASSUME NEW id \in 1 .. n PROVE Purged(id)'
  <2>1. CASE id \in 1 .. j.from
    BY <1>3, <2>1 DEF AppliedTo
  <2>2. CASE id \notin 1 .. j.from
    BY <1>1, <1>2, <1>3, <2>2
  <2> QED BY <2>1, <2>2
<1> QED BY <1>4 DEF AppliedTo, TurnedTo

(* A page that is retired leaves every epoch of its languages, if not 0,   *)
(* without an older copy: it was marked before, or the next one is empty.  *)
LEMMA PageTurned ==
    ASSUME Undisturbed, NEW p \in Processes, Seen(p).epochs = epochs,
           jobs[p].place = "clearing", NEW targets,
           targets = {LanguageOf[feed[id]] : id \in Page(p)},
           UNCHANGED <<feed, copies>>,
           Seen(p).marker # jobs[p].upto,
           epochs' = AdvancedIfPositive(Seen(p).epochs, targets),
           NEW n, n = jobs[p].upto
    PROVE  TurnedTo(n)'
<1>1. PICK j \in Jobs :
          /\ jobs[p] = j /\ JobDone(j)' /\ Len(feed) \in Nat
          /\ j.from \in 0 .. Len(feed) /\ j.upto \in 0 .. Len(feed)
  BY OwnJobKept
<1>2. AppliedTo(j.from)'
  BY <1>1 DEF JobDone, Fetched
<1>3. ASSUME NEW id \in 1 .. n, id \notin 1 .. j.from PROVE Turned(id)'
  <2> DEFINE s == feed[id]
             l == LanguageOf[s]
  <2>1. id \in Page(p) /\ id \in 1 .. Len(feed)
    BY <1>1, <1>3 DEF Page
  <2>2. l \in targets /\ s \in Segments
    BY <2>1 DEF Undisturbed, Shape, TypeOK
  <2>3. /\ l \in Languages /\ epochs[l] \in 0 .. MaxEpoch
        /\ epochs'[l] \in 0 .. MaxEpoch /\ MaxEpoch \in Nat
    BY <2>2, EpochOf DEF Undisturbed, Shape, TypeOK
  <2>4. epochs'[l] = IF epochs[l] > 0 THEN epochs[l] + 1 ELSE epochs[l]
    BY <2>2, <2>3 DEF AdvancedIfPositive
  <2>5. CASE epochs[l] > 0
    <3>1. copies[s][epochs'[l]] = None
      BY <2>2, <2>3, <2>4, <2>5 DEF Undisturbed, NothingAhead
    <3> QED BY <3>1 DEF Turned, Fresh
  <2>6. CASE ~ (epochs[l] > 0)
    BY <2>3, <2>4, <2>6 DEF Turned
  <2> QED BY <2>5, <2>6
<1> QED BY <1>2, <1>3 DEF TurnedTo, AppliedTo

LEMMA RetireSite ==
    ASSUME Undisturbed, NEW p \in Processes, Retire(p), ~misled' PROVE SiteInv'
<1>1. PICK j \in Jobs :
          /\ jobs[p] = j /\ JobDone(j)' /\ InFeed(j, Len(feed), generation)
          /\ Len(feed) \in Nat /\ j.from \in 0 .. Len(feed)
          /\ j.upto \in 0 .. Len(feed)
  BY OwnJobKept
<1>2. PICK targets : targets = {LanguageOf[feed[id]] : id \in Page(p)}
  OBVIOUS
<1>3. PICK option : option = Retired(Seen(p), targets, j.upto)
  OBVIOUS
<1>4. /\ j.place = "clearing" /\ j.next \notin Page(p)
      /\ UNCHANGED <<feed, cursor, copies>>
      /\ IF Page(p) = {} \/ option = Seen(p)
         THEN Goto(p, "retired") /\ UNCHANGED <<epochs, marker, misled>>
         ELSE Write(p, option, "retired")
  BY <1>1, <1>2, <1>3 DEF Retire
<1>5. PICK m \in 0 .. Len(feed) : m = Seen(p).marker /\ TurnedTo(m)'
  BY SeenTurned
<1>6. TurnedTo(j.upto)'
  <2>1. CASE Page(p) = {}
    <3>1. j.from = j.upto
      BY <1>1, <2>1 DEF Page, InFeed
    <3> QED BY <1>1, <1>4, <3>1 DEF JobDone, Fetched, AppliedTo, TurnedTo
  <2>2. CASE m = j.upto
    BY <1>5, <2>2
  <2>3. CASE Page(p) # {} /\ m # j.upto
    <3>1. /\ option.epochs = AdvancedIfPositive(Seen(p).epochs, targets)
          /\ option.marker = j.upto
      BY <1>3, <1>5, <2>3 DEF Retired
    <3>2. Write(p, option, "retired")
      BY <1>4, <1>5, <2>3, <3>1
    <3>3. Seen(p).epochs = epochs
      BY <3>2, Zenon DEF Write
    <3>4. epochs' = AdvancedIfPositive(Seen(p).epochs, targets)
      BY <3>1, <3>2 DEF Write
    <3> QED BY <1>1, <1>2, <1>4, <1>5, <2>3, <3>3, <3>4, PageTurned
  <2> QED BY <2>1, <2>2, <2>3
<1>7. AppliedTo(j.upto)'
  BY <1>1, <1>4, <1>6, PageApplied
<1>8. CASE Goto(p, "retired") /\ UNCHANGED <<epochs, marker, misled>>
  <2>1. /\ jobs'[p].place = "retired" /\ jobs'[p].from = j.from
        /\ jobs'[p].upto = j.upto /\ jobs'[p].read = j.read
    <3>1. "retired" \in JobPlaces /\ Shape
      BY DEF JobPlaces, Undisturbed
    <3> QED BY <1>1, <1>8, <3>1, GoneTo
  <2>2. JobDone(jobs[p])'
    BY <1>1, <1>4, <1>7, <2>1 DEF JobDone, Fetched
  <2> QED BY <1>4, <1>8, <2>2, QuietJob DEF Goto
<1>9. CASE Write(p, option, "retired")
  <2>1. TurnedTo(option.marker)'
    <3>1. option.marker \in {m, j.upto}
      BY <1>3, <1>5 DEF Retired
    <3> QED BY <1>5, <1>6, <3>1
  <2>2. "retired" \in JobPlaces
    BY DEF JobPlaces
  <2>3. AppliedTo(jobs[p].upto)'
    <3>1. jobs'[p].upto = j.upto
      <4>1. jobs'[p] = [j EXCEPT !.place = "retired", !.read = option]
        BY <1>1, <1>9, UpdateJob DEF Write, Undisturbed, Shape
      <4> QED BY <4>1 DEF Jobs
    <3> QED BY <1>7, <3>1
  <2> QED BY <1>1, <1>4, <1>9, <2>1, <2>2, <2>3, WriteSite
<1> QED BY <1>4, <1>8, <1>9

LEMMA SaveCursorSite ==
    ASSUME Undisturbed, NEW p \in Processes, SaveCursor(p) PROVE SiteInv'
<1>1. PICK j \in Jobs : /\ jobs[p] = j /\ JobDone(j)'
  BY OwnJobKept
<1>2. /\ j.place = "retired" /\ Goto(p, "saved") /\ marker' = marker
      /\ cursor' \in {cursor, j.upto}
  BY <1>1 DEF SaveCursor, NextCursor
<1>3. /\ jobs'[p].place = "saved" /\ jobs'[p].from = j.from
      /\ jobs'[p].upto = j.upto /\ jobs'[p].read = j.read
  <2>1. "saved" \in JobPlaces /\ Shape
    BY DEF JobPlaces, Undisturbed
  <2> QED BY <1>1, <1>2, <2>1, GoneTo
<1>4. JobDone(jobs[p])'
  BY <1>1, <1>2, <1>3 DEF JobDone, Fetched
<1>5. AppliedTo(cursor)'
  <2>1. AppliedTo(j.upto)'
    BY <1>1, <1>2 DEF JobDone
  <2> QED BY <1>2, <2>1, SiteStays
<1>6. \A q \in Processes \ {p} : jobs'[q] = jobs[q]
  BY <1>2, UpdateJob DEF Goto, Undisturbed, Shape
<1> QED BY <1>2, <1>4, <1>5, <1>6, SiteStays, JobStepKeepsSite DEF Undisturbed

(* Every step keeps what was done, unless it misleads a process.           *)
LEMMA SiteNext ==
    ASSUME Shape, Shape', SiteInv, [Next]_vars PROVE SiteInv'
<1> SUFFICES ASSUME ~misled' PROVE SiteInv'
  BY DEF SiteInv
<1>1. ~misled /\ SiteStep
  BY NextIsSiteStep
<1>2. NothingAhead /\ AppliedTo(cursor) /\ TurnedTo(marker) /\ JobsDone
  BY <1>1 DEF SiteInv
<1>3. Undisturbed
  BY <1>1, <1>2, NothingAheadStays, EventsAreKept DEF Undisturbed
<1>4. CASE UNCHANGED <<cursor, marker, jobs>>
  BY <1>3, <1>4, SiteStays, JobsStayKeepsSite DEF Undisturbed
<1>5. ASSUME NEW s \in Segments, Edit(s) PROVE SiteInv'
  BY <1>4, <1>5 DEF Edit, site
<1>6. ASSUME NEW l \in Languages, Switch(l) PROVE SiteInv'
  BY <1>4, <1>6 DEF Switch, site
<1>7. ASSUME NEW f \in Fillers, \/ \E s \in Segments : Ask(f, s)
                                \/ Store(f) \/ GiveUp(f)
      PROVE  SiteInv'
  BY <1>4, <1>7 DEF Ask, Store, GiveUp, site
<1>8. ASSUME NEW p \in Processes, StartRefresh(p) \/ StartDrain(p)
      PROVE  SiteInv'
  <2>1. /\ Goto(p, "locked") /\ UNCHANGED <<cursor, marker>>
        /\ jobs[p].place \in {"idle", "warm"}
    BY <1>8 DEF StartRefresh, StartDrain, Idle
  <2> QED BY <1>3, <2>1, LockedSite
<1>9. ASSUME NEW p \in Processes,
             \/ EndWarm(p) \/ FetchFails(p) \/ ReadbackFails(p) \/ Die(p)
      PROVE  SiteInv'
  <2>1. Update(p, Idle) /\ UNCHANGED <<cursor, marker>>
    BY <1>9 DEF EndWarm, FetchFails, ReadbackFails, Fail, Finish, Die, site
  <2> QED BY <1>3, <2>1, IdleJobDone
<1>10. ASSUME NEW p \in Processes, Continue(p) PROVE SiteInv'
  <2>1. /\ jobs[p].place = "saved" /\ UNCHANGED <<cursor, marker>>
        /\ Goto(p, "locked") \/ Update(p, Idle)
    BY <1>10 DEF Continue, Finish
  <2> QED BY <1>3, <2>1, LockedSite, IdleJobDone
<1>11. ASSUME NEW p \in Processes,
              \/ Warm(p) \/ Fetch(p) \/ ApplySettings(p) \/ AdvanceLanguages(p)
              \/ AdvanceFails(p) \/ Delete(p) \/ Retire(p) \/ SaveCursor(p)
       PROVE  SiteInv'
  BY <1>3, <1>11, WarmSite, FetchSite, ApplySettingsSite, AdvanceLanguagesSite,
     AdvanceFailsSite, DeleteSite, RetireSite, SaveCursorSite
<1>12. CASE UNCHANGED vars
  BY <1>4, <1>12 DEF vars, site
<1> QED BY <1>5, <1>6, <1>7, <1>8, <1>9, <1>10, <1>11, <1>12 DEF Next, Work

(* What an applied event promises about the copy that is shown.            *)
LEMMA AppliedIsGone ==
    ASSUME Shape, NEW n \in 0 .. Len(feed), AppliedTo(n), NEW id \in 1 .. n,
           NEW s \in Segments, feed[id] = s, Readable(s) # None
    PROVE  Readable(s).after >= id
<1> DEFINE e == epochs[LanguageOf[s]]
<1>1. Purged(id) /\ Turned(id)
  BY DEF AppliedTo
<1>2. e \in Nat
  BY EpochOf
<1>3. CASE e > 0
  BY <1>1, <1>3 DEF Turned, Fresh, Readable
<1>4. CASE e = 0
  BY <1>1, <1>4 DEF Purged, Fresh, Readable
<1> QED BY <1>2, <1>3, <1>4

(* An edit the site has acknowledged is gone from its cache, over pages,   *)
(* retries, lost locks, deaths and concurrent fills, as long as no process *)
(* trusts an outdated read of its own.                                     *)
THEOREM EditsLeaveTheCache == Spec => []AcknowledgedEditsAreGone
<1>1. Init => Shape /\ SiteInv
  BY ShapeInit, SiteInit
<1>2. Shape /\ SiteInv /\ [Next]_vars => (Shape /\ SiteInv)'
  BY ShapeNext, SiteNext
<1>3. Shape /\ SiteInv => AcknowledgedEditsAreGone
  <2> SUFFICES ASSUME Shape, SiteInv, ~misled, NEW s \in Segments,
                      NEW id \in 1 .. cursor, feed[id] = s, Readable(s) # None
               PROVE  Readable(s).after >= id
    BY DEF AcknowledgedEditsAreGone
  <2>1. AppliedTo(cursor) /\ cursor \in 0 .. Len(feed)
    BY DEF SiteInv, Shape, TypeOK
  <2> QED BY <2>1, AppliedIsGone
<1> QED BY <1>1, <1>2, <1>3, PTL DEF Spec

-----------------------------------------------------------------------------
(* A language whose generation the settings have changed is owed its epoch *)
(* by the process that changed them; else what its slot shows, or a fill   *)
(* would store there, is of the generation the site knows.                 *)
Owed(l) == \E p \in Processes : jobs[p].place = "applied" /\ l \in jobs[p].changed

New(copy, l) == copy = None \/ copy.of >= known[l]

Current(s) ==
    LET l == LanguageOf[s]
        e == epochs[l]
    IN  /\ New(copies[s][e], l)
        /\ e = 0 => New(copies[s][Legacy], l)
        /\ \A f \in Fillers :
               fills[f] # None /\ fills[f].seg = s /\ fills[f].slot = e
                   => fills[f].of >= known[l]

StartInv ==
    ~misled /\ ~unfinished =>
        \A s \in Segments : Owed(LanguageOf[s]) \/ Current(s)

LEMMA StartInit == Init => StartInv
<1> SUFFICES ASSUME Init, NEW s \in Segments PROVE Current(s)
  BY DEF StartInv
<1>1. \A e \in Slots : copies[s][e] = None \/ copies[s][e].of = 0
  BY DEF Init
<1>2. /\ LanguageOf[s] \in Languages /\ known[LanguageOf[s]] = 0
      /\ epochs[LanguageOf[s]] \in Slots /\ Legacy \in Slots
      /\ \A f \in Fillers : fills[f] = None
  BY PluginAssumption DEF Init, Slots
<1> QED BY <1>1, <1>2 DEF Current, New

LEMMA KnownOf ==
    ASSUME Shape, NEW l \in Languages
    PROVE  known[l] \in Nat /\ generation[l] \in Nat /\ known[l] <= generation[l]
BY DEF Shape, TypeOK

(* A step that keeps epoch and generation of a language keeps its segments *)
(* current; so does one that turns its epoch, whatever it was.             *)
LEMMA CurrentStays ==
    ASSUME Shape, Shape', SiteStep, NEW s \in Segments, Current(s),
           known'[LanguageOf[s]] = known[LanguageOf[s]],
           epochs'[LanguageOf[s]] = epochs[LanguageOf[s]]
    PROVE  Current(s)'
<1> DEFINE l == LanguageOf[s]
           e == epochs[l]
<1>1. /\ l \in Languages /\ e \in Slots /\ e \in Nat /\ Legacy \in Slots
      /\ Legacy # e /\ known[l] \in Nat /\ known[l] <= generation[l]
      /\ generation[l] \in Nat
  <2>1. l \in Languages /\ e \in 0 .. MaxEpoch /\ MaxEpoch \in Nat
    BY EpochOf
  <2>2. e \in Slots /\ Legacy \in Slots /\ Legacy \notin Nat
    BY <2>1, CacheSlots DEF Slots
  <2> QED BY <2>1, <2>2, KnownOf
<1>2. ASSUME NEW d \in Slots, New(copies[s][d], l),
             \A f \in Fillers : fills[f] # None /\ fills[f].seg = s
                                    /\ fills[f].slot = d
                  => fills[f].of >= known[l]
      PROVE  New(copies'[s][d], l)
  <2>1. CopyStep(s, d)
    BY DEF SiteStep
  <2> QED BY <1>2, <2>1 DEF CopyStep, New
<1>3. New(copies'[s][e], l)
  BY <1>1, <1>2 DEF Current
<1>4. ASSUME e = 0 PROVE New(copies'[s][Legacy], l)
  <2>1. \A f \in Fillers : fills[f] # None => fills[f].slot # Legacy
    BY CacheSlots DEF Shape, TypeOK, Fills
  <2> QED BY <1>1, <1>2, <1>4, <2>1 DEF Current
<1>5. ASSUME NEW f \in Fillers, fills'[f] # None, fills'[f].seg = s,
             fills'[f].slot = e
      PROVE  fills'[f].of >= known[l]
  <2>1. FillStep(f)
    BY DEF SiteStep
  <2>2. CASE fills'[f] = fills[f]
    BY <1>5, <2>2 DEF Current
  <2>3. CASE fills'[f].of = generation[LanguageOf[fills'[f].seg]]
    BY <1>1, <1>5, <2>3
  <2> QED BY <1>5, <2>1, <2>2, <2>3 DEF FillStep
<1> QED BY <1>1, <1>3, <1>4, <1>5 DEF Current, New

LEMMA CurrentWhenTurned ==
    ASSUME Shape, Shape', SiteStep, NothingAhead, NEW s \in Segments,
           known'[LanguageOf[s]] = known[LanguageOf[s]],
           epochs'[LanguageOf[s]] = epochs[LanguageOf[s]] + 1
    PROVE  Current(s)'
<1> DEFINE l == LanguageOf[s]
           e == epochs[l] + 1
<1>1. /\ l \in Languages /\ e \in 0 .. MaxEpoch /\ e \in Slots
      /\ epochs[l] \in Nat /\ e # 0 /\ e > epochs[l] /\ epochs'[l] = e
      /\ known[l] \in Nat /\ known[l] <= generation[l] /\ generation[l] \in Nat
  <2>1. l \in Languages /\ epochs[l] \in 0 .. MaxEpoch /\ MaxEpoch \in Nat
    BY EpochOf
  <2>2. epochs'[l] = e /\ epochs' \in [Languages -> 0 .. MaxEpoch]
    BY DEF Shape, TypeOK
  <2>3. e \in 0 .. MaxEpoch /\ e \in Slots
    BY <2>1, <2>2 DEF Slots
  <2> QED BY <2>1, <2>2, <2>3, KnownOf
<1>2. copies[s][e] = None
  BY <1>1 DEF NothingAhead
<1>3. \A f \in Fillers : fills[f] # None /\ fills[f].seg = s => fills[f].slot # e
  BY <1>1 DEF NothingAhead
<1>4. copies'[s][e] = None
  BY <1>1, <1>2, <1>3 DEF SiteStep, CopyStep
<1>5. ASSUME NEW f \in Fillers, fills'[f] # None, fills'[f].seg = s,
             fills'[f].slot = e
      PROVE  fills'[f].of >= known[l]
  <2>1. FillStep(f)
    BY DEF SiteStep
  <2>2. CASE fills'[f] = fills[f]
    BY <1>3, <1>5, <2>2
  <2>3. CASE fills'[f].of = generation[LanguageOf[fills'[f].seg]]
    BY <1>1, <1>5, <2>3
  <2> QED BY <1>5, <2>1, <2>2, <2>3 DEF FillStep
<1> QED BY <1>1, <1>4, <1>5 DEF Current, New

(* Languages that nobody owes any more have had their epochs turned.       *)
LEMMA OwedStays ==
    ASSUME Shape, Shape', SiteStep, NothingAhead, NEW s \in Segments,
           known'[LanguageOf[s]] = known[LanguageOf[s]],
           Owed(LanguageOf[s]) =>
               \/ Owed(LanguageOf[s])'
               \/ epochs'[LanguageOf[s]] = epochs[LanguageOf[s]] + 1,
           Owed(LanguageOf[s]) \/ Current(s)
    PROVE  Owed(LanguageOf[s])' \/ Current(s)'
<1>1. EpochStep(LanguageOf[s])
  BY EpochOf DEF SiteStep
<1> QED BY <1>1, CurrentStays, CurrentWhenTurned DEF EpochStep

LEMMA OwedByOthers ==
    ASSUME Shape, NEW p \in Processes, NEW job, Update(p, job),
           NEW l, Owed(l), ~ (jobs[p].place = "applied" /\ l \in jobs[p].changed)
    PROVE  Owed(l)'
<1>1. PICK q \in Processes : jobs[q].place = "applied" /\ l \in jobs[q].changed
  BY DEF Owed
<1>2. jobs'[q] = jobs[q]
  BY <1>1, UpdateJob DEF Shape
<1> QED BY <1>1, <1>2 DEF Owed

(* The epochs of the languages a process owes are turned before it goes on.*)
LEMMA AdvanceLanguagesOwed ==
    ASSUME Shape, NEW p \in Processes, AdvanceLanguages(p), ~misled',
           NEW l \in Languages, Owed(l)
    PROVE  Owed(l)' \/ epochs'[l] = epochs[l] + 1
<1>1. CASE l \notin jobs[p].changed
  <2>1. \E job : Update(p, job)
    BY DEF AdvanceLanguages, Write, Goto
  <2> QED BY <1>1, <2>1, OwedByOthers
<1>2. CASE l \in jobs[p].changed
  <2> DEFINE e == Advanced(Seen(p).epochs, jobs[p].changed)
  <2>1. PICK option : option = [Seen(p) EXCEPT !.epochs = e]
    OBVIOUS
  <2>2. Write(p, option, "clearing")
    BY <1>2, <2>1 DEF AdvanceLanguages
  <2>3. epochs' = option.epochs
    BY <2>2 DEF Write
  <2>4. Seen(p).epochs = epochs
    BY <2>2, Zenon DEF Write
  <2>5. option.epochs = e
    BY <2>1, SeenOption DEF Options
  <2> QED BY <1>2, <2>3, <2>4, <2>5 DEF Advanced
<1> QED BY <1>1, <1>2

LEMMA OwedNext ==
    ASSUME Shape, [Next]_vars, ~misled', ~unfinished', NEW l \in Languages, Owed(l)
    PROVE  Owed(l)' \/ epochs'[l] = epochs[l] + 1
<1>1. CASE jobs' = jobs
  BY <1>1 DEF Owed
<1>2. ASSUME NEW s \in Segments, Edit(s) PROVE Owed(l)'
  BY <1>2 DEF Edit, Owed
<1>3. ASSUME NEW m \in Languages, Switch(m) PROVE Owed(l)'
  BY <1>3 DEF Switch, Owed
<1>4. ASSUME NEW f \in Fillers, \/ \E s \in Segments : Ask(f, s)
                                \/ Store(f) \/ GiveUp(f)
      PROVE  Owed(l)'
  BY <1>4 DEF Ask, Store, GiveUp, Owed
<1>5. ASSUME NEW p \in Processes, jobs[p].place # "applied",
             \E job : Update(p, job)
      PROVE  Owed(l)'
  BY <1>5, OwedByOthers
<1>6. ASSUME NEW p \in Processes,
             StartRefresh(p) \/ Warm(p) \/ EndWarm(p) \/ StartDrain(p)
      PROVE  Owed(l)'
  <2>1. jobs[p].place \in {"idle", "warm"} /\ \E job : Update(p, job)
    BY <1>6 DEF StartRefresh, Warm, EndWarm, StartDrain, Goto, Idle
  <2> QED BY <1>5, <2>1
<1>7. ASSUME NEW p \in Processes,
             Fetch(p) \/ Delete(p) \/ Retire(p) \/ SaveCursor(p) \/ Continue(p)
      PROVE  Owed(l)'
  <2>1. jobs[p].place \in {"locked", "clearing", "retired", "saved"}
    BY <1>7 DEF Fetch, Delete, Retire, SaveCursor, Continue
  <2>2. \E job : Update(p, job)
    BY <1>7 DEF Fetch, Delete, Retire, SaveCursor, Continue, Write, Goto, Finish
  <2> QED BY <1>5, <2>1, <2>2
<1>8. ASSUME NEW p \in Processes, FetchFails(p) \/ ReadbackFails(p)
      PROVE  Owed(l)'
  <2>1. /\ jobs[p].place \in {"locked", "clearing", "retired"}
        /\ Update(p, Idle)
    BY <1>8 DEF FetchFails, ReadbackFails, Fail, Finish
  <2> QED BY <1>5, <2>1
<1>9. ASSUME NEW p \in Processes, Die(p) PROVE Owed(l)'
  <2>1. Update(p, Idle)
    BY <1>9 DEF Die
  <2>2. ~ Owing(p)
    BY <1>9, Zenon DEF Die
  <2> QED BY <2>1, <2>2, OwedByOthers DEF Owing
<1>10. ASSUME NEW p \in Processes, ApplySettings(p) PROVE Owed(l)'
  <2>1. jobs[p].place = "fetched" /\ \E job : Update(p, job)
    BY <1>10 DEF ApplySettings
  <2> QED BY <1>5, <2>1
<1>11. ASSUME NEW p \in Processes, AdvanceLanguages(p)
       PROVE  Owed(l)' \/ epochs'[l] = epochs[l] + 1
  BY <1>11, AdvanceLanguagesOwed
<1>12. CASE UNCHANGED vars
  BY <1>1, <1>12 DEF vars
<1>13. \A p \in Processes : ~ AdvanceFails(p)
  BY Zenon DEF AdvanceFails
<1> QED BY <1>2, <1>3, <1>4, <1>6, <1>7, <1>8, <1>9, <1>10, <1>11, <1>12, <1>13
        DEF Next, Work

(* Settings that name another generation make their process owe the epoch. *)
LEMMA KnownNext ==
    ASSUME Shape, [Next]_vars, NEW l \in Languages, known'[l] # known[l]
    PROVE  Owed(l)'
<1>1. known' # known
  OBVIOUS
<1>2. PICK p \in Processes : ApplySettings(p)
  BY <1>1 DEF Next, Work, vars, site, history, Edit, Switch, Ask, Store, GiveUp,
     StartRefresh, Warm, EndWarm, StartDrain, Fetch, AdvanceLanguages, Delete,
     AdvanceFails, Retire, SaveCursor, Continue, FetchFails, ReadbackFails, Die
<1>3. PICK changed : changed = {m \in Languages : known'[m] # known[m]}
  OBVIOUS
<1>4. Update(p, [jobs[p] EXCEPT !.place = "applied", !.snapshot = None,
                                !.changed = changed])
  BY <1>2, <1>3 DEF ApplySettings
<1>5. /\ jobs[p] \in Jobs
      /\ jobs'[p] = [jobs[p] EXCEPT !.place = "applied", !.snapshot = None,
                                    !.changed = changed]
  BY <1>4, UpdateJob DEF Shape, TypeOK
<1>6. jobs'[p].place = "applied" /\ jobs'[p].changed = changed
  BY <1>5 DEF Jobs
<1> QED BY <1>3, <1>6 DEF Owed

LEMMA StartNext ==
    ASSUME Shape, Shape', SiteInv, StartInv, [Next]_vars PROVE StartInv'
<1> SUFFICES ASSUME ~misled', ~unfinished', NEW s \in Segments
             PROVE  Owed(LanguageOf[s])' \/ Current(s)'
  BY DEF StartInv
<1> DEFINE l == LanguageOf[s]
<1>1. ~misled /\ SiteStep
  BY NextIsSiteStep
<1>2. ~unfinished
  BY Zenon DEF Next, Work, vars, site, history, Edit, Switch, Ask, Store, GiveUp,
     StartRefresh, Warm, EndWarm, StartDrain, Fetch, ApplySettings,
     AdvanceLanguages, AdvanceFails, Delete, Retire, SaveCursor, Continue,
     FetchFails, ReadbackFails, Die
<1>3. NothingAhead /\ (Owed(l) \/ Current(s)) /\ l \in Languages
  BY <1>1, <1>2, EpochOf DEF SiteInv, StartInv
<1>4. CASE known'[l] # known[l]
  BY <1>3, <1>4, KnownNext
<1>5. CASE known'[l] = known[l]
  <2>1. Owed(l) => Owed(l)' \/ epochs'[l] = epochs[l] + 1
    BY <1>3, OwedNext
  <2> QED BY <1>1, <1>3, <1>5, <2>1, OwedStays
<1> QED BY <1>4, <1>5

(* Nothing stored for a language that was deleted since is shown for the   *)
(* one that was added under its code, once nobody owes it the epoch.       *)
THEOREM NewLanguagesStartEmpty == Spec => []LanguagesStartEmpty
<1>1. Init => Shape /\ SiteInv /\ StartInv
  BY ShapeInit, SiteInit, StartInit
<1>2. Shape /\ SiteInv /\ StartInv /\ [Next]_vars => (Shape /\ SiteInv /\ StartInv)'
  BY ShapeNext, SiteNext, StartNext
<1>3. Shape /\ StartInv => LanguagesStartEmpty
  <2> SUFFICES ASSUME Shape, StartInv, ~misled, ~unfinished,
                      \A p \in Processes : ~Owing(p),
                      NEW s \in Segments, Readable(s) # None
               PROVE  Readable(s).of >= known[LanguageOf[s]]
    BY DEF LanguagesStartEmpty
  <2>1. Current(s)
    BY DEF StartInv, Owed, Owing
  <2>2. epochs[LanguageOf[s]] \in Nat
    BY EpochOf
  <2> QED BY <2>1, <2>2 DEF Current, New, Readable
<1> QED BY <1>1, <1>2, <1>3, PTL DEF Spec
=============================================================================
