----------------------------- MODULE PluginCache -----------------------------
(***************************************************************************)
(* How an edit in the dashboard reaches the translations a WordPress site  *)
(* has cached.  The SaaS appends one digest event per edited segment to    *)
(* UrlCacheInvalidation, in the transaction of the edit.  The plugin reads *)
(* the feed from its cursor, deletes the digests, retires the epochs of    *)
(* the languages, and only then stores the new cursor                      *)
(* (includes/Sync/SettingsSync.php, includes/Support/TranslationCache.php).*)
(* The first page is applied by a visitor's request that refreshes the     *)
(* settings, further pages by WP-Cron; both under one lock of 60 seconds.  *)
(*                                                                         *)
(* A PHP process reads an option or a transient from the database once and *)
(* then from its own options cache; the cache of another process does not  *)
(* see its writes.  Modelled is a site without a shared object cache, with *)
(* one configuration (API key and backend).                                *)
(***************************************************************************)
EXTENDS Naturals, Sequences, FiniteSetsExt

CONSTANTS
    Segments,       \* source texts, named by their digest
    Languages,
    LanguageOf,     \* LanguageOf[s]: target language of the digest
    Backlog,        \* events of the feed when we look first
    Started,        \* Started[l]: epoch of a language then
    Visitors,       \* requests that refresh the settings
    Crons,          \* WP-Cron processes: the warmer, then the drain
    Fillers,        \* requests that translate what the cache lacks
    PageSize,       \* events of one answer (250)
    MaxPages,       \* MAX_BACKGROUND_INVALIDATION_PAGES
    MaxEdits,       \* bound on the events
    MaxSwitches,    \* bound: how often languages are deleted, or added again
    MaxTroubles,    \* bound on deaths, failed writes and lost locks together
    MaxEpoch,       \* bound on the epochs
    Legacy,         \* slot of the plain value of old plugin versions
    None

ASSUME PluginAssumption ==
    /\ LanguageOf \in [Segments -> Languages]
    /\ Backlog \in Seq(Segments)
    /\ Started \in [Languages -> 0 .. MaxEpoch]
    /\ {PageSize, MaxPages} \subseteq Nat \ {0}
    /\ {MaxEdits, MaxSwitches, MaxTroubles, MaxEpoch} \subseteq Nat
    /\ Visitors \cap Crons = {}
    /\ Legacy \notin Nat

VARIABLES
    feed,           \* feed[id]: the digest of event id
    generation,     \* ProjectLanguage.id of each target, counted; odd: deleted
    known,          \* targets and their generations in the site's settings
    epochs,         \* deepglot_language_cache_epochs: epoch per language,
    marker,         \* ... and its __url_cache_cursor
    cursor,         \* deepglot_url_cache_invalidation_cursor
    lock,           \* deepglot_runtime_refresh_lock
    due,            \* the drain is scheduled
    copies,         \* copies[s][slot]: a translation in the site's cache
    fills,          \* what a filler got from the SaaS and has not stored yet
    jobs,           \* refreshes and drains
    troubles,       \* how many there were
    misled,         \* history: a process trusted an outdated read of its own
    unfinished      \* history: epochs were not written after the settings

site == <<known, epochs, marker, cursor, lock, due>>
history == <<troubles, misled, unfinished>>
vars == <<feed, generation, site, copies, fills, jobs, history>>

Dead == "dead"          \* holder of a lock whose process has died
Processes == Visitors \cup Crons
Slots == {Legacy} \cup 0 .. MaxEpoch

(* An idle process has read nothing.                                       *)
Idle == [place |-> "idle", from |-> 0, upto |-> 0, next |-> 0, pages |-> 0,
         more |-> FALSE, snapshot |-> None, changed |-> {}, read |-> None,
         missing |-> {}]

Init ==
    /\ feed = Backlog
    /\ generation = [l \in Languages |-> 0]
    /\ known = generation
    /\ epochs = Started
    /\ marker = 0
    /\ cursor = 0
    /\ lock = None
    /\ due \in BOOLEAN
    /\ copies = [s \in Segments |-> [e \in Slots |->
                    IF e = Legacy THEN [after |-> 0, of |-> 0]
                    ELSE None]]
    /\ fills = [f \in Fillers |-> None]
    /\ jobs = [p \in Processes |-> Idle]
    /\ troubles = 0
    /\ misled = FALSE
    /\ unfinished = FALSE

Update(p, job) == jobs' = [jobs EXCEPT ![p] = job]
Goto(p, place) == Update(p, [jobs[p] EXCEPT !.place = place])
Trouble == troubles < MaxTroubles /\ troubles' = troubles + 1

-----------------------------------------------------------------------------
(* Edits and languages in the dashboard.                                   *)

(* The last edit of a segment, by the number of its event.                 *)
LastEdit(s) ==
    Max({0} \cup {id \in 1 .. Len(feed) : feed[id] = s})

(* Under the project's lock, so ids follow the order of the commits.       *)
Edit(s) ==
    /\ Len(feed) < MaxEdits
    /\ feed' = Append(feed, s)
    /\ UNCHANGED <<generation, site, copies, fills, jobs, history>>

(* A target language is deleted, or added again under the same code.       *)
Present(n) == n % 2 = 0
Switch(l) ==
    /\ \A m \in Languages : generation[m] < MaxSwitches
    /\ generation' = [generation EXCEPT ![l] = @ + 1]
    /\ UNCHANGED <<feed, site, copies, fills, jobs, history>>

-----------------------------------------------------------------------------
(* The translation cache.                                                  *)

(* get: the envelope of the language's epoch; at epoch 0 the plain value.  *)
Readable(s) ==
    LET slot == epochs[LanguageOf[s]]
    IN  IF copies[s][slot] # None \/ slot > 0
        THEN copies[s][slot]
        ELSE copies[s][Legacy]

(* A miss is asked for, in a language both sides list; the answer takes a  *)
(* while.                                                                  *)
Ask(f, s) ==
    /\ fills[f] = None
    /\ Present(known[LanguageOf[s]]) /\ Present(generation[LanguageOf[s]])
    /\ Readable(s) = None
    /\ fills' = [fills EXCEPT ![f] =
                    [seg |-> s, slot |-> epochs[LanguageOf[s]],
                     of |-> generation[LanguageOf[s]]]]
    /\ UNCHANGED <<feed, generation, site, copies, jobs, history>>

(* set: under the epoch the process has read for the miss.  The text is    *)
(* the one the SaaS had when it answered, so it may be older than the last *)
(* edit at the time it is stored, which is what is kept here.              *)
Store(f) ==
    /\ fills[f] # None
    /\ copies' = [copies EXCEPT ![fills[f].seg][fills[f].slot] =
                      [after |-> LastEdit(fills[f].seg), of |-> fills[f].of]]
    /\ fills' = [fills EXCEPT ![f] = None]
    /\ UNCHANGED <<feed, generation, site, jobs, history>>

(* The request fails, or its answer names no translation.                 *)
GiveUp(f) ==
    /\ fills[f] # None
    /\ fills' = [fills EXCEPT ![f] = None]
    /\ UNCHANGED <<feed, generation, site, copies, jobs, history>>

-----------------------------------------------------------------------------
(* The lock: an option row that is added, and deleted by its own token.    *)

(* Free, or older than its time to live.                                   *)
Available == lock \in {None, Dead}

(* That of a process still at work may grow too old as well, which counts  *)
(* as a trouble.                                                           *)
Acquire(p) ==
    /\ \/ Available /\ UNCHANGED troubles
       \/ lock \in Processes /\ Trouble
    /\ lock' = p

Release(p) == lock' = IF lock = p THEN None ELSE lock

Finish(p) ==
    /\ Update(p, Idle)
    /\ Release(p)

StartRefresh(p) ==
    /\ p \in Visitors
    /\ jobs[p] = Idle
    /\ Acquire(p)
    /\ Goto(p, "locked")
    /\ UNCHANGED <<feed, generation, known, epochs, marker, cursor, due, copies,
                   fills, misled, unfinished>>

(* The warmer looks texts up before the drain runs in the same process,    *)
(* which works off the events that were due when it started.               *)
Warm(p) ==
    /\ p \in Crons
    /\ jobs[p] = Idle
    /\ due
    /\ Update(p, [Idle EXCEPT
           !.place = "warm",
           !.read = [epochs |-> epochs, marker |-> marker],
           !.missing = {s \in Segments : /\ epochs[LanguageOf[s]] = 0
                                         /\ Readable(s) = None}])
    /\ UNCHANGED <<feed, generation, site, copies, fills, history>>

(* Without the lock the drain is only put off.                             *)
StartDrain(p) ==
    /\ p \in Crons
    /\ jobs[p].place \in {"idle", "warm"}
    /\ due
    /\ due' = FALSE
    /\ Acquire(p)
    /\ Goto(p, "locked")
    /\ UNCHANGED <<feed, generation, known, epochs, marker, cursor, copies,
                   fills, misled, unfinished>>

(* The cursor is read, which for a second page is the one the process has  *)
(* stored itself, then the feed from there (runtime-config/route.ts).      *)
Fetch(p) ==
    /\ jobs[p].place = "locked"
    /\ LET from == IF jobs[p].pages > 0 THEN jobs[p].upto ELSE cursor
           upto == Min({from + PageSize, Len(feed)})
       IN
       Update(p, [jobs[p] EXCEPT
           !.place = IF p \in Visitors THEN "fetched" ELSE "clearing",
           !.from = from, !.next = from + 1, !.upto = upto,
           !.more = Len(feed) > upto,
           !.snapshot = IF p \in Visitors THEN generation ELSE None,
           !.pages = @ + 1])
    /\ UNCHANGED <<feed, generation, site, copies, fills, history>>

(* No answer: a drain is scheduled again, a refresh backs off.             *)
Fail(p) ==
    /\ due' = (due \/ p \in Crons)
    /\ Finish(p)
    /\ Trouble

FetchFails(p) ==
    /\ jobs[p].place = "locked"
    /\ Fail(p)
    /\ UNCHANGED <<feed, generation, known, epochs, marker, cursor, copies,
                   fills, misled, unfinished>>

-----------------------------------------------------------------------------
(* A refresh: the settings first, then the epochs of the languages that    *)
(* were removed or whose generation has changed.                           *)

(* A snapshot older than the stored one changes no language.               *)
ApplySettings(p) ==
    /\ jobs[p].place = "fetched"
    /\ LET newer == \A l \in Languages : jobs[p].snapshot[l] >= known[l]
       IN  known' = IF newer THEN jobs[p].snapshot ELSE known
    /\ Update(p, [jobs[p] EXCEPT
           !.place = "applied", !.snapshot = None,
           !.changed = {l \in Languages : known'[l] # known[l]}])
    /\ UNCHANGED <<feed, generation, epochs, marker, cursor, lock, due, copies,
                   fills, history>>

(* What a process takes for the epochs option.                             *)
Seen(p) == IF jobs[p].read # None THEN jobs[p].read
           ELSE [epochs |-> epochs, marker |-> marker]

(* Epoch 0 is left to the digests.                                         *)
AdvancedIfPositive(e, targets) ==
    [l \in Languages |-> IF l \in targets /\ e[l] > 0 THEN e[l] + 1 ELSE e[l]]

Advanced(e, targets) ==
    [l \in Languages |-> IF l \in targets THEN e[l] + 1 ELSE e[l]]

Write(p, option, place) ==
    /\ \A l \in Languages : option.epochs[l] <= MaxEpoch
    /\ epochs' = option.epochs
    /\ marker' = option.marker
    /\ misled' = (misled \/ Seen(p).epochs # epochs)
    /\ Update(p, [jobs[p] EXCEPT !.place = place, !.read = option])

AdvanceLanguages(p) ==
    /\ jobs[p].place = "applied"
    /\ IF jobs[p].changed = {}
       THEN Goto(p, "clearing") /\ UNCHANGED <<epochs, marker, misled>>
       ELSE Write(p, [Seen(p) EXCEPT !.epochs = Advanced(@, jobs[p].changed)],
                  "clearing")
    /\ UNCHANGED <<feed, generation, known, cursor, lock, due, copies, fills,
                   troubles, unfinished>>

Owing(p) == jobs[p].place = "applied" /\ jobs[p].changed # {}

(* This write has no readback: when it fails the process goes on with the  *)
(* epochs it has read.                                                     *)
AdvanceFails(p) ==
    /\ Owing(p)
    /\ Trouble
    /\ Update(p, [jobs[p] EXCEPT !.place = "clearing", !.read = Seen(p)])
    /\ unfinished' = TRUE
    /\ UNCHANGED <<feed, generation, site, copies, fills, misled>>

-----------------------------------------------------------------------------
(* applyCacheInvalidations.                                                *)

Page(p) == jobs[p].from + 1 .. jobs[p].upto

(* deleteByDigest, with a readback.  A key this process has missed before  *)
(* is missing for it.                                                      *)
Delete(p) ==
    /\ jobs[p].place = "clearing"
    /\ jobs[p].next \in Page(p)
    /\ LET s == feed[jobs[p].next] IN
       /\ IF s \in jobs[p].missing
          THEN /\ misled' = (misled \/ \E e \in {Legacy, 0} : copies[s][e] # None)
               /\ UNCHANGED copies
          ELSE /\ copies' = [copies EXCEPT ![s][Legacy] = None, ![s][0] = None]
               /\ UNCHANGED misled
       /\ Update(p, [jobs[p] EXCEPT !.next = @ + 1, !.missing = @ \cup {s}])
    /\ UNCHANGED <<feed, generation, site, fills, troubles, unfinished>>

(* Mutants: any marker counts as this page's; it is set behind the page.   *)
RetiredOnce(option, targets, upto) ==
    IF option.marker # 0 THEN option
    ELSE [epochs |-> AdvancedIfPositive(option.epochs, targets), marker |-> upto]

RetiredBehind(option, targets, upto) ==
    IF option.marker = upto + 1 THEN option
    ELSE [epochs |-> AdvancedIfPositive(option.epochs, targets),
          marker |-> upto + 1]

(* invalidatePositiveLanguageEpochs: once per cursor.                      *)
Retired(option, targets, upto) ==
    IF option.marker = upto THEN option
    ELSE [epochs |-> AdvancedIfPositive(option.epochs, targets), marker |-> upto]

Retire(p) ==
    /\ jobs[p].place = "clearing"
    /\ jobs[p].next \notin Page(p)
    /\ LET targets == {LanguageOf[feed[id]] : id \in Page(p)}
           option == Retired(Seen(p), targets, jobs[p].upto)
       IN  IF Page(p) = {} \/ option = Seen(p)
           THEN Goto(p, "retired") /\ UNCHANGED <<epochs, marker, misled>>
           ELSE Write(p, option, "retired")
    /\ UNCHANGED <<feed, generation, known, cursor, lock, due, copies, fills,
                   troubles, unfinished>>

(* Mutant: the last page is not marked.                                    *)
NextCursorIfMore(p) == IF jobs[p].more THEN jobs[p].upto ELSE cursor

NextCursor(p) == IF Page(p) = {} THEN cursor ELSE jobs[p].upto

(* Known page caches are purged, and the cursor is stored.                 *)
SaveCursor(p) ==
    /\ jobs[p].place = "retired"
    /\ Goto(p, "saved")
    /\ cursor' = NextCursor(p)
    /\ UNCHANGED <<feed, generation, known, epochs, marker, lock, due, copies,
                   fills, history>>

(* A readback shows that the deletion or the write did not take: false.    *)
ReadbackFails(p) ==
    /\ jobs[p].place \in {"clearing", "retired"}
    /\ Page(p) # {}
    /\ Fail(p)
    /\ UNCHANGED <<feed, generation, known, epochs, marker, cursor, copies,
                   fills, misled, unfinished>>

(* Further pages: a refresh leaves them to the drain, a drain takes two.   *)
Continue(p) ==
    /\ jobs[p].place = "saved"
    /\ IF p \in Crons /\ jobs[p].more /\ jobs[p].pages < MaxPages
       THEN Goto(p, "locked") /\ UNCHANGED <<due, lock>>
       ELSE due' = (due \/ jobs[p].more) /\ Finish(p)
    /\ UNCHANGED <<feed, generation, known, epochs, marker, cursor, copies,
                   fills, history>>

(* The process dies; its lock stays until it is 60 seconds old.            *)
Die(p) ==
    /\ jobs[p] # Idle
    /\ Trouble
    /\ Update(p, Idle)
    /\ lock' = IF lock = p THEN Dead ELSE lock
    /\ unfinished' = (unfinished \/ Owing(p))
    /\ UNCHANGED <<feed, generation, known, epochs, marker, cursor, due, copies,
                   fills, misled>>

EndWarm(p) ==
    /\ jobs[p].place = "warm"
    /\ Update(p, Idle)
    /\ UNCHANGED <<feed, generation, site, copies, fills, history>>

-----------------------------------------------------------------------------
Work(p) ==
    \/ Fetch(p) \/ ApplySettings(p) \/ AdvanceLanguages(p) \/ Delete(p)
    \/ Retire(p) \/ SaveCursor(p) \/ Continue(p)

Next ==
    \/ \E s \in Segments : Edit(s)
    \/ \E l \in Languages : Switch(l)
    \/ \E f \in Fillers : (\E s \in Segments : Ask(f, s)) \/ Store(f) \/ GiveUp(f)
    \/ \E p \in Processes :
           \/ StartRefresh(p) \/ Warm(p) \/ EndWarm(p) \/ StartDrain(p) \/ Work(p)
           \/ FetchFails(p) \/ AdvanceFails(p) \/ ReadbackFails(p) \/ Die(p)

Spec == Init /\ [][Next]_vars

(* Requests and cron processes that run go on, and visitors keep coming.   *)
(* (Each of these steps changes a job.)                                    *)
Fairness ==
    /\ \A p \in Processes : WF_jobs(Work(p))
    /\ WF_jobs(\E p \in Visitors : StartRefresh(p))

FairSpec == Spec /\ Fairness

-----------------------------------------------------------------------------
Copies == [after: Nat, of: Nat]
Fills == [seg: Segments, slot: 0 .. MaxEpoch, of: Nat]
Options == [epochs: [Languages -> 0 .. MaxEpoch], marker: Nat]
JobPlaces == {"idle", "warm", "locked", "fetched", "applied", "clearing",
              "retired", "saved"}
Jobs == [place: JobPlaces, from: Nat, upto: Nat, next: Nat, pages: Nat,
         more: BOOLEAN, snapshot: [Languages -> Nat] \cup {None},
         changed: SUBSET Languages, read: Options \cup {None},
         missing: SUBSET Segments]

TypeOK ==
    /\ feed \in Seq(Segments)
    /\ generation \in [Languages -> Nat]
    /\ known \in [Languages -> Nat]
    /\ epochs \in [Languages -> 0 .. MaxEpoch]
    /\ marker \in 0 .. Len(feed)
    /\ cursor \in 0 .. Len(feed)
    /\ lock \in Processes \cup {None, Dead}
    /\ due \in BOOLEAN
    /\ copies \in [Segments -> [Slots -> Copies \cup {None}]]
    /\ fills \in [Fillers -> Fills \cup {None}]
    /\ jobs \in [Processes -> Jobs]
    /\ troubles \in 0 .. MaxTroubles
    /\ misled \in BOOLEAN
    /\ unfinished \in BOOLEAN

(* What the site has acknowledged is gone: a translation it still shows    *)
(* although a later edit lies before its cursor was under way, asked for   *)
(* before the edit and stored after it (the digest must be applied before  *)
(* the cursor advances, UrlCacheInvalidationTest.php).  Not promised once  *)
(* a process has trusted an outdated read of its own.                      *)
AcknowledgedEditsAreGone ==
    ~misled =>
        \A s \in Segments : \A id \in 1 .. cursor :
            feed[id] = s /\ Readable(s) # None
                => Readable(s).after >= id

(* A translation stored for a language that was deleted since is not shown *)
(* for the one that was added under the same code                          *)
(* (target-language-lifecycle.md); nor is this promised if the process     *)
(* dies between the settings and the epochs, or cannot write the epochs.   *)
LanguagesStartEmpty ==
    ~misled /\ ~unfinished /\ (\A p \in Processes : ~Owing(p)) =>
        \A s \in Segments : Readable(s) # None
            => Readable(s).of >= known[LanguageOf[s]]

(* Every edit is acknowledged in the end, whatever pages, lost locks,      *)
(* failed readbacks and deaths come in between.                            *)
EditsAreAcknowledged == <>[](cursor = Len(feed))
=============================================================================
