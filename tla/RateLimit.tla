------------------------------ MODULE RateLimit ------------------------------
(***************************************************************************)
(* The two fixed-window buckets of src/lib/rate-limit.ts over PostgreSQL,  *)
(* each a single row changed by single statements:                         *)
(*   - a request bucket, consumed by every call (consumeRateLimit);        *)
(*   - an organization's word bucket, reserved before provider work and    *)
(*     refunded when no provider call was started                          *)
(*     (consumeTranslateWordVelocity, releaseTranslateWordVelocity).       *)
(* A caller reads `now` first and runs its statement later, so statements  *)
(* reach the row out of the order of their clocks.                         *)
(***************************************************************************)
EXTENDS Naturals, FiniteSets, Amounts

CONSTANTS
    Callers,      \* calls of a rate-limited route with one subject
    CallLimit,    \* its limit per window
    Spenders,     \* translation requests of one organization
    Words,        \* Words[s]: fresh words request s would spend
    WordLimit,    \* hourly cap of the organization
    Window,       \* length of a window
    MaxTime       \* bound: the clock stops there

ASSUME LimitAssumption ==
    /\ CallLimit \in Nat \ {0}
    /\ WordLimit \in Nat \ {0}
    /\ Window \in Nat \ {0}
    /\ MaxTime \in Nat
    /\ Words \in [Spenders -> Nat \ {0}]
    /\ Callers \cap Spenders = {}

VARIABLES
    clock,
    requests,   \* the row of the request bucket
    words,      \* the row of the word bucket
    at,         \* place of each caller and spender
    now,        \* the clock it read before its statement
    windowOf    \* resetAt of the window it was charged to

limitVars == <<clock, requests, words, at, now, windowOf>>

Actors == Callers \cup Spenders

Buckets == [count: Nat, resetAt: Nat]

LimitPlaces == {"idle", "ready", "allowed", "blocked", "oversize",
           "refund", "refunded", "spent"}

(* A row that was never written counts as a window that is already over.   *)
LimitInit ==
    /\ clock = 0
    /\ requests = [count |-> 0, resetAt |-> 0]
    /\ words = [count |-> 0, resetAt |-> 0]
    /\ at = [a \in Actors |-> "idle"]
    /\ now = [a \in Actors |-> 0]
    /\ windowOf = [a \in Actors |-> 0]

Goto(a, place) == at' = [at EXCEPT ![a] = place]

-----------------------------------------------------------------------------
(* Mutant: an over-full window starts again.                               *)
ChargedOnOverflow(bucket, cost, time) ==
    IF bucket.resetAt <= time \/ bucket.count >= CallLimit
    THEN [count |-> cost, resetAt |-> time + Window]
    ELSE [bucket EXCEPT !.count = @ + cost]

(* ON CONFLICT DO UPDATE SET: a new window, or one more charge to it.      *)
Charged(bucket, cost, time) ==
    IF bucket.resetAt <= time
    THEN [count |-> cost, resetAt |-> time + Window]
    ELSE [bucket EXCEPT !.count = @ + cost]

(* Mutant: the charge is compared before it is added.                      *)
ReservableOffByOne(bucket, cost, time) ==
    bucket.resetAt <= time \/ bucket.count < WordLimit

(* reserveBucket: the WHERE of the upsert.                                 *)
Reservable(bucket, cost, time) ==
    bucket.resetAt <= time \/ bucket.count + cost <= WordLimit

(* Mutant: any open window is refunded, not only the one that was charged. *)
RefundableAnyWindow(bucket, window, time) == bucket.resetAt > time

(* releaseBucket: the WHERE of the UPDATE.                                 *)
Refundable(bucket, window, time) ==
    bucket.resetAt > time /\ bucket.resetAt = window

(* GREATEST(0, count - cost).                                              *)
Refunded(bucket, cost) ==
    [bucket EXCEPT !.count = IF @ > cost THEN @ - cost ELSE 0]

-----------------------------------------------------------------------------
(* `now = new Date()` at the call, before the statement is sent.           *)
Call(a) ==
    /\ at[a] = "idle"
    /\ Goto(a, "ready")
    /\ now' = [now EXCEPT ![a] = clock]
    /\ UNCHANGED <<clock, requests, words, windowOf>>

(* consumeRateLimit: charge first, decide from the row that came back.     *)
Consume(c) ==
    /\ at[c] = "ready"
    /\ requests' = Charged(requests, 1, now[c])
    /\ windowOf' = [windowOf EXCEPT ![c] = requests'.resetAt]
    /\ Goto(c, IF requests'.count <= CallLimit THEN "allowed" ELSE "blocked")
    /\ UNCHANGED <<clock, words, now>>

(* consumeTranslateWordVelocity: a request above the whole cap is turned   *)
(* away without touching the row.                                          *)
Oversize(s) ==
    /\ at[s] = "ready"
    /\ Words[s] > WordLimit
    /\ Goto(s, "oversize")
    /\ UNCHANGED <<clock, requests, words, now, windowOf>>

ReserveWords(s) ==
    /\ at[s] = "ready"
    /\ Words[s] <= WordLimit
    /\ Reservable(words, Words[s], now[s])
    /\ words' = Charged(words, Words[s], now[s])
    /\ windowOf' = [windowOf EXCEPT ![s] = words'.resetAt]
    /\ Goto(s, "allowed")
    /\ UNCHANGED <<clock, requests, now>>

Blocked(s) ==
    /\ at[s] = "ready"
    /\ Words[s] <= WordLimit
    /\ ~Reservable(words, Words[s], now[s])
    /\ Goto(s, "blocked")
    /\ UNCHANGED <<clock, requests, words, now, windowOf>>

(* The provider was started: the reservation is kept whatever follows.     *)
StartProvider(s) ==
    /\ at[s] = "allowed"
    /\ Goto(s, "spent")
    /\ UNCHANGED <<clock, requests, words, now, windowOf>>

(* The request failed before any provider call, and the refund reads the   *)
(* clock before it runs its UPDATE.                                        *)
FailBeforeProvider(s) ==
    /\ at[s] = "allowed"
    /\ Goto(s, "refund")
    /\ now' = [now EXCEPT ![s] = clock]
    /\ UNCHANGED <<clock, requests, words, windowOf>>

Release(s) ==
    /\ at[s] = "refund"
    /\ words' = IF Refundable(words, windowOf[s], now[s])
                THEN Refunded(words, Words[s])
                ELSE words
    /\ Goto(s, "refunded")
    /\ UNCHANGED <<clock, requests, now, windowOf>>

(* The refund failed: the error is swallowed and the reservation is kept.  *)
ReleaseFails(s) ==
    /\ at[s] = "refund"
    /\ Goto(s, "spent")
    /\ UNCHANGED <<clock, requests, words, now, windowOf>>

Tick ==
    /\ clock < MaxTime
    /\ clock' = clock + 1
    /\ UNCHANGED <<requests, words, at, now, windowOf>>

LimitNext ==
    \/ \E a \in Actors : Call(a)
    \/ \E c \in Callers : Consume(c)
    \/ \E s \in Spenders :
         \/ Oversize(s) \/ ReserveWords(s) \/ Blocked(s)
         \/ StartProvider(s) \/ FailBeforeProvider(s) \/ Release(s)
         \/ ReleaseFails(s)
    \/ Tick

LimitSpec == LimitInit /\ [][LimitNext]_limitVars

-----------------------------------------------------------------------------
LimitTypeOK ==
    /\ clock \in Nat
    /\ requests \in Buckets
    /\ words \in Buckets
    /\ at \in [Actors -> LimitPlaces]
    /\ now \in [Actors -> Nat]
    /\ windowOf \in [Actors -> Nat]

(* Requests whose words are still held in the window that ends at w.       *)
HeldIn(w) ==
    {s \in Spenders : windowOf[s] = w /\ at[s] \in {"allowed", "refund", "spent"}}

Total(S) == SumOver(Words, S)

(* While a window is open the row holds exactly the words of the requests  *)
(* charged to it and not refunded: no refund is lost, applied twice or     *)
(* taken out of a later window's charges.                                  *)
WordsMatchReservations ==
    clock < words.resetAt => words.count = Total(HeldIn(words.resetAt))

(* Requests charged to one window never spend more than the cap together,  *)
(* whatever the order in which their statements reach the row.             *)
CapHoldsPerWindow ==
    \A w \in {windowOf[s] : s \in Spenders} : w > 0 => Total(HeldIn(w)) <= WordLimit

(* At most CallLimit calls are let through in one window.                  *)
CallsPerWindow ==
    \A w \in {windowOf[c] : c \in Callers} :
        Cardinality({c \in Callers : at[c] = "allowed" /\ windowOf[c] = w})
            <= CallLimit

(* A word window is replaced only by a later one, after it has ended.      *)
WindowsMoveForward ==
    [][words'.resetAt # words.resetAt =>
         words.resetAt < words'.resetAt /\ words.resetAt <= clock]_limitVars

(* The count in a row never exceeds the cap.                               *)
CountWithinCap == words.count <= WordLimit
=============================================================================
