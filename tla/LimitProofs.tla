---------------------------- MODULE LimitProofs ----------------------------
(***************************************************************************)
(* What the limits on spending guarantee: theorems about RateLimit (calls  *)
(* and words per window) and AiBudget (amounts per month), for any actors, *)
(* caps, policies and windows.  Both compare sums with a cap, so the facts *)
(* about sums come first.                                                  *)
(***************************************************************************)
EXTENDS RateLimit, AiBudget, FiniteSetTheorems, TLAPS

-----------------------------------------------------------------------------
(* Sums of Amounts: each x of S stands for f[x] units of its own.          *)
LEMMA UnitsExist ==
    ASSUME NEW f, NEW S, NEW u
    PROVE  u \in UnitsOf(f, S) <=> \E x \in S : u \in {x} \X (1 .. f[x])
BY DEF UnitsOf

LEMMA TermUnits ==
    ASSUME NEW x, NEW n \in Nat
    PROVE  /\ IsFiniteSet({x} \X (1 .. n))
           /\ Cardinality({x} \X (1 .. n)) = n
<1>1. IsFiniteSet({x}) /\ Cardinality({x}) = 1
  BY FS_Singleton
<1>2. IsFiniteSet(1 .. n) /\ Cardinality(1 .. n) = n
  BY FS_Interval
<1>3. /\ IsFiniteSet({x} \X (1 .. n))
      /\ Cardinality({x} \X (1 .. n)) = Cardinality({x}) * Cardinality(1 .. n)
  BY <1>1, <1>2, FS_Product, Zenon
<1> QED BY <1>1, <1>2, <1>3

(* A sum of finitely many natural numbers is one.                          *)
LEMMA SumNat ==
    ASSUME NEW S, IsFiniteSet(S), NEW f, \A x \in S : f[x] \in Nat
    PROVE  IsFiniteSet(UnitsOf(f, S)) /\ SumOver(f, S) \in Nat
<1> DEFINE Terms == {{x} \X (1 .. f[x]) : x \in S}
           term == [x \in S |-> {x} \X (1 .. f[x])]
<1>1. term \in Surjection(S, Terms)
  <2>1. term \in [S -> Terms]
    OBVIOUS
  <2>2. \A T \in Terms : \E x \in S : term[x] = T
    OBVIOUS
  <2> QED BY <2>1, <2>2, Zenon DEF Surjection
<1>2. IsFiniteSet(Terms)
  BY <1>1, FS_Surjection
<1>3. \A T \in Terms : IsFiniteSet(T)
  <2> SUFFICES ASSUME NEW x \in S PROVE IsFiniteSet({x} \X (1 .. f[x]))
    OBVIOUS
  <2>1. f[x] \in Nat
    OBVIOUS
  <2> QED BY <2>1, TermUnits
<1>4. IsFiniteSet(UNION Terms)
  BY <1>2, <1>3, FS_UNION
<1> QED BY <1>4, FS_CardinalityType DEF UnitsOf, SumOver

LEMMA SumEmpty == ASSUME NEW f PROVE SumOver(f, {}) = 0
<1>1. UnitsOf(f, {}) = {}
  BY DEF UnitsOf
<1> QED BY <1>1, FS_EmptySet DEF SumOver

(* One element more adds its amount.                                       *)
LEMMA SumAdd ==
    ASSUME NEW S, IsFiniteSet(S), NEW f, NEW x, x \notin S,
           \A y \in S \cup {x} : f[y] \in Nat
    PROVE  SumOver(f, S \cup {x}) = SumOver(f, S) + f[x]
<1> DEFINE U == UnitsOf(f, S)
           V == {x} \X (1 .. f[x])
<1>1. UnitsOf(f, S \cup {x}) = U \cup V
  BY DEF UnitsOf
<1>2. U \cap V = {}
  BY DEF UnitsOf
<1>3. IsFiniteSet(U) /\ Cardinality(U) \in Nat
  BY SumNat DEF SumOver
<1>4. IsFiniteSet(V) /\ Cardinality(V) = f[x] /\ f[x] \in Nat
  BY TermUnits
<1>5. Cardinality(U \cup V) = Cardinality(U) + Cardinality(V) - Cardinality({})
  BY <1>2, <1>3, <1>4, FS_Union
<1>6. Cardinality(U \cup V) = Cardinality(U) + f[x]
  BY <1>3, <1>4, <1>5, FS_EmptySet
<1> QED BY <1>1, <1>6, Zenon DEF SumOver

(* One element less takes it away.                                         *)
LEMMA SumRemove ==
    ASSUME NEW S, IsFiniteSet(S), NEW f, \A y \in S : f[y] \in Nat,
           NEW x \in S
    PROVE  /\ SumOver(f, S) = SumOver(f, S \ {x}) + f[x]
           /\ SumOver(f, S \ {x}) = SumOver(f, S) - f[x]
           /\ f[x] <= SumOver(f, S)
<1> DEFINE R == S \ {x}
<1>1. IsFiniteSet(R) /\ x \notin R /\ S = R \cup {x}
  BY FS_RemoveElement
<1>2. SumOver(f, R) \in Nat
  BY <1>1, SumNat
<1>3. SumOver(f, R \cup {x}) = SumOver(f, R) + f[x]
  BY <1>1, SumAdd
<1>4. SumOver(f, S) = SumOver(f, R) + f[x]
  BY <1>1, <1>3, Zenon
<1>5. f[x] \in Nat
  OBVIOUS
<1> QED BY <1>2, <1>4, <1>5

(* Fewer elements, or smaller amounts, sum up to no more.                  *)
LEMMA SumMonotone ==
    ASSUME NEW T, IsFiniteSet(T), NEW S \in SUBSET T, NEW f, NEW g,
           \A x \in T : g[x] \in Nat,
           \A x \in S : f[x] \in Nat /\ f[x] <= g[x]
    PROVE  SumOver(f, S) <= SumOver(g, T)
<1>1. UnitsOf(f, S) \subseteq UnitsOf(g, T)
  <2> SUFFICES ASSUME NEW x \in S, NEW u \in {x} \X (1 .. f[x])
               PROVE  u \in {x} \X (1 .. g[x])
    BY DEF UnitsOf
  <2>1. 1 .. f[x] \subseteq 1 .. g[x]
    OBVIOUS
  <2> QED BY <2>1
<1>2. IsFiniteSet(UnitsOf(g, T))
  BY SumNat
<1> QED BY <1>1, <1>2, FS_Subset DEF SumOver

(* Only the amounts of its elements count.                                 *)
LEMMA SumSame ==
    ASSUME NEW S, NEW f, NEW g, \A x \in S : f[x] = g[x]
    PROVE  SumOver(f, S) = SumOver(g, S)
<1>1. UnitsOf(f, S) = UnitsOf(g, S)
  BY DEF UnitsOf
<1> QED BY <1>1 DEF SumOver

-----------------------------------------------------------------------------
(* RateLimit: types, and clocks that lag behind but never run ahead.      *)
ReadingsArePast == \A a \in Actors : now[a] <= clock

LimitInv == LimitTypeOK /\ ReadingsArePast /\ CountWithinCap

(* A charge leaves a bucket, in the same window or in a new one.           *)
LEMMA ChargedBucket ==
  ASSUME NEW bucket \in Buckets, NEW cost \in Nat, NEW time \in Nat
  PROVE  /\ Charged(bucket, cost, time) \in Buckets
         /\ Charged(bucket, cost, time).count =
              IF bucket.resetAt <= time THEN cost ELSE bucket.count + cost
         /\ Charged(bucket, cost, time).resetAt =
              IF bucket.resetAt <= time THEN time + Window ELSE bucket.resetAt
BY LimitAssumption DEF Charged, Buckets

LEMMA RefundedBucket ==
  ASSUME NEW bucket \in Buckets, NEW cost \in Nat
  PROVE  /\ Refunded(bucket, cost) \in Buckets
         /\ Refunded(bucket, cost).count <= bucket.count
         /\ Refunded(bucket, cost).resetAt = bucket.resetAt
BY DEF Refunded, Buckets

LEMMA LimitInvInit == LimitInit => LimitInv
BY LimitAssumption
   DEF LimitInit, LimitInv, LimitTypeOK, Buckets, LimitPlaces,
       ReadingsArePast, CountWithinCap

LEMMA LimitInvStep == LimitInv /\ [LimitNext]_limitVars => LimitInv'
<1> SUFFICES ASSUME LimitInv, [LimitNext]_limitVars PROVE LimitInv'
  OBVIOUS
<1> USE LimitAssumption DEF LimitInv
<1>u. CASE UNCHANGED limitVars
  BY <1>u DEF limitVars, LimitTypeOK, ReadingsArePast, CountWithinCap
<1>1. ASSUME NEW a \in Actors, Call(a) PROVE LimitInv'
  BY <1>1 DEF Call, Goto, LimitTypeOK, LimitPlaces, ReadingsArePast,
              CountWithinCap
<1>2. ASSUME NEW c \in Callers, Consume(c) PROVE LimitInv'
  <2>1. c \in Actors
    BY DEF Actors
  <2>2. requests' \in Buckets
    BY <1>2, <2>1, ChargedBucket DEF Consume, LimitTypeOK
  <2>3. requests'.resetAt \in Nat
    BY <2>2 DEF Buckets
  <2> QED
    BY <1>2, <2>1, <2>2, <2>3
       DEF Consume, Goto, LimitTypeOK, LimitPlaces, ReadingsArePast,
           CountWithinCap
<1>3. ASSUME NEW s \in Spenders, ReserveWords(s) PROVE LimitInv'
  <2>1. s \in Actors /\ Words[s] \in Nat
    BY DEF Actors
  <2>2. words' \in Buckets
    BY <1>3, <2>1, ChargedBucket DEF ReserveWords, LimitTypeOK
  <2>3. words'.count <= WordLimit
    <3>1. words \in Buckets /\ now[s] \in Nat
      BY <2>1 DEF LimitTypeOK
    <3>2. /\ words' = Charged(words, Words[s], now[s])
          /\ Words[s] <= WordLimit
          /\ words.resetAt <= now[s] \/ words.count + Words[s] <= WordLimit
      BY <1>3 DEF ReserveWords, Reservable
    <3> QED
      BY <2>1, <3>1, <3>2, ChargedBucket
  <2>4. words'.resetAt \in Nat
    BY <2>2 DEF Buckets
  <2> QED
    BY <1>3, <2>1, <2>2, <2>3, <2>4
       DEF ReserveWords, Goto, LimitTypeOK, LimitPlaces, ReadingsArePast,
           CountWithinCap
<1>4. ASSUME NEW s \in Spenders, Release(s) PROVE LimitInv'
  <2>1. s \in Actors /\ Words[s] \in Nat
    BY DEF Actors
  <2>2. words' \in Buckets /\ words'.count <= words.count
    BY <1>4, <2>1, RefundedBucket DEF Release, LimitTypeOK, Buckets
  <2>3. words'.count <= WordLimit
    BY <2>2 DEF LimitTypeOK, Buckets, CountWithinCap
  <2> QED
    BY <1>4, <2>1, <2>2, <2>3
       DEF Release, Goto, LimitTypeOK, LimitPlaces, ReadingsArePast,
           CountWithinCap
<1>5. ASSUME NEW s \in Spenders,
             Oversize(s) \/ Blocked(s) \/ StartProvider(s)
               \/ FailBeforeProvider(s) \/ ReleaseFails(s)
      PROVE  LimitInv'
  <2>1. s \in Actors
    BY DEF Actors
  <2> QED
    BY <1>5, <2>1 DEF Oversize, Blocked, StartProvider, FailBeforeProvider,
       ReleaseFails, Goto, LimitTypeOK, LimitPlaces, ReadingsArePast,
       CountWithinCap
<1>6. CASE Tick
  BY <1>6 DEF Tick, LimitTypeOK, ReadingsArePast, CountWithinCap
<1> QED
  BY <1>u, <1>1, <1>2, <1>3, <1>4, <1>5, <1>6 DEF LimitNext

LEMMA LimitInvariance == LimitSpec => []LimitInv
BY LimitInvInit, LimitInvStep, PTL DEF LimitSpec

-----------------------------------------------------------------------------
(* The word bucket never holds more than the cap, in any interleaving of   *)
(* reservations and refunds whose clocks lag behind.                       *)
THEOREM CapNeverExceeded == LimitSpec => []CountWithinCap
<1>1. LimitInv => CountWithinCap
  BY DEF LimitInv
<1> QED
  BY LimitInvariance, <1>1, PTL

(* A word window is only ever replaced by a later one, once it is over.    *)
THEOREM WindowsAdvance == LimitSpec => WindowsMoveForward
<1>1. LimitInv /\ [LimitNext]_limitVars =>
        [words'.resetAt # words.resetAt =>
           words.resetAt < words'.resetAt /\ words.resetAt <= clock]_limitVars
  <2> SUFFICES ASSUME LimitInv, LimitNext, words'.resetAt # words.resetAt
               PROVE  words.resetAt < words'.resetAt
                        /\ words.resetAt <= clock
    OBVIOUS
  <2>t. words \in Buckets /\ words.resetAt \in Nat
    BY DEF LimitInv, LimitTypeOK, Buckets
  <2>1. ASSUME NEW s \in Spenders, ReserveWords(s)
        PROVE  words.resetAt < words'.resetAt /\ words.resetAt <= clock
    <3>1. /\ s \in Actors /\ Words[s] \in Nat /\ now[s] \in Nat
          /\ now[s] <= clock /\ clock \in Nat
      BY LimitAssumption DEF Actors, LimitInv, LimitTypeOK, ReadingsArePast
    <3>2. words.resetAt <= now[s] /\ words'.resetAt = now[s] + Window
      BY <2>1, <2>t, <3>1, ChargedBucket DEF ReserveWords
    <3> QED
      BY <2>t, <3>1, <3>2, LimitAssumption
  <2>2. ASSUME NEW s \in Spenders, Release(s) PROVE FALSE
    BY <2>2, <2>t, RefundedBucket, LimitAssumption DEF Release
  <2> QED
    BY <2>1, <2>2 DEF LimitNext, Call, Consume, Oversize, Blocked,
                    StartProvider,
       FailBeforeProvider, ReleaseFails, Tick
<1> QED
  BY LimitInvariance, <1>1, PTL DEF LimitSpec, WindowsMoveForward

(* Rows, clocks and places keep their types.                               *)
THEOREM LimitTypeCorrect == LimitSpec => []LimitTypeOK
<1>1. LimitInv => LimitTypeOK
  BY DEF LimitInv
<1> QED
  BY LimitInvariance, <1>1, PTL

-----------------------------------------------------------------------------
(* The calls let through in the window that ends at w.                     *)
LetThrough(w) == {c \in Callers : at[c] = "allowed" /\ windowOf[c] = w}

(* The row counts at least the calls let through in its window, and no     *)
(* call was charged to a later one.                                        *)
CallInv ==
    /\ \A c \in Callers : windowOf[c] <= requests.resetAt
    /\ \A w \in Nat : /\ IsFiniteSet(LetThrough(w))
                      /\ Cardinality(LetThrough(w)) <= CallLimit
    /\ Cardinality(LetThrough(requests.resetAt)) <= requests.count

LEMMA CallInvInit == LimitInit => CallInv
<1> SUFFICES ASSUME LimitInit PROVE CallInv
  OBVIOUS
<1>1. \A w \in Nat : LetThrough(w) = {}
  BY DEF LimitInit, LetThrough, Actors
<1>2. requests.resetAt = 0 /\ requests.count = 0
  BY DEF LimitInit
<1>3. \A c \in Callers : windowOf[c] <= requests.resetAt
  BY <1>2 DEF LimitInit, Actors
<1> QED
  BY <1>1, <1>2, <1>3, FS_EmptySet, LimitAssumption DEF CallInv

(* A step that leaves the callers' places and windows alone.               *)
LEMMA CallInvKept ==
  ASSUME CallInv, requests' = requests,
         \A c \in Callers : windowOf'[c] = windowOf[c],
         \A c \in Callers : at'[c] = "allowed" <=> at[c] = "allowed"
  PROVE  CallInv'
<1>1. \A w : LetThrough(w)' = LetThrough(w)
  BY DEF LetThrough
<1>2. LetThrough(requests.resetAt)' = LetThrough(requests.resetAt)
  BY DEF LetThrough
<1> QED
  BY <1>1, <1>2 DEF CallInv

LEMMA CallInvConsume ==
  ASSUME LimitInv, CallInv, NEW c \in Callers, Consume(c)
  PROVE  CallInv'
<1>0. PICK r, s : r = requests.resetAt /\ s = requests'.resetAt
  OBVIOUS
<1>1. /\ c \in Actors /\ now[c] \in Nat /\ Callers \subseteq Actors
      /\ requests \in Buckets /\ r \in Nat /\ requests.count \in Nat
  BY <1>0 DEF LimitInv, LimitTypeOK, Actors, Buckets
<1>2. /\ requests'.count = IF r <= now[c] THEN 1 ELSE requests.count + 1
      /\ s = IF r <= now[c] THEN now[c] + Window ELSE r
      /\ requests' \in Buckets
  BY <1>0, <1>1, ChargedBucket DEF Consume
<1>3. s \in Nat /\ r <= s /\ (s = r \/ r < s)
  BY <1>0, <1>1, <1>2, LimitAssumption
<1>4. /\ at[c] = "ready"
      /\ at' = [at EXCEPT ![c] = IF requests'.count <= CallLimit
                                 THEN "allowed" ELSE "blocked"]
      /\ windowOf' = [windowOf EXCEPT ![c] = s]
  BY <1>0 DEF Consume, Goto
<1>5. /\ \A d \in Callers : windowOf[d] \in Nat
      /\ \A d \in Callers \ {c} : at'[d] = at[d] /\ windowOf'[d] = windowOf[d]
      /\ windowOf'[c] = s
      /\ at'[c] = IF requests'.count <= CallLimit THEN "allowed" ELSE "blocked"
  BY <1>1, <1>4 DEF LimitInv, LimitTypeOK
<1>6. \A d \in Callers : windowOf'[d] <= s
  <2> TAKE d \in Callers
  <2>1. windowOf[d] <= r
    BY <1>0 DEF CallInv
  <2> QED
    BY <2>1, <1>1, <1>3, <1>5
<1>7. \A w \in Nat : w # s => LetThrough(w)' = LetThrough(w)
  BY <1>4, <1>5 DEF LetThrough
<1>8. LetThrough(s)' = LetThrough(s) \cup
        (IF requests'.count <= CallLimit THEN {c} ELSE {})
  BY <1>4, <1>5 DEF LetThrough
<1>9. /\ IsFiniteSet(LetThrough(s)) /\ Cardinality(LetThrough(s)) \in Nat
      /\ Cardinality(LetThrough(s)) <= CallLimit
      /\ c \notin LetThrough(s)
  BY <1>3, <1>4, FS_CardinalityType DEF CallInv, LetThrough
<1>10. Cardinality(LetThrough(s)) < requests'.count
  <2>1. CASE s = r
    <3>1. Cardinality(LetThrough(s)) <= requests.count
      BY <2>1, <1>0 DEF CallInv
    <3>2. requests'.count = requests.count + 1
      BY <2>1, <1>1, <1>2, LimitAssumption
    <3> QED
      BY <3>1, <3>2, <1>1, <1>9
  <2>2. CASE r < s
    <3>1. requests'.count = 1
      BY <2>2, <1>1, <1>2
    <3>2. \A d \in Callers : windowOf[d] # s
      BY <2>2, <1>0, <1>1, <1>3, <1>5 DEF CallInv
    <3>3. LetThrough(s) = {}
      BY <3>2 DEF LetThrough
    <3> QED
      BY <3>1, <3>3, FS_EmptySet
  <2> QED
    BY <2>1, <2>2, <1>3
<1>11. /\ IsFiniteSet(LetThrough(s)')
       /\ Cardinality(LetThrough(s)') <= CallLimit
       /\ Cardinality(LetThrough(s)') <= requests'.count
  <2>0. requests'.count \in Nat /\ CallLimit \in Nat
    BY <1>2, LimitAssumption DEF Buckets
  <2>1. CASE requests'.count <= CallLimit
    <3>1. LetThrough(s)' = LetThrough(s) \cup {c}
      BY <2>1, <1>8
    <3>2. /\ IsFiniteSet(LetThrough(s)')
          /\ Cardinality(LetThrough(s)') = Cardinality(LetThrough(s)) + 1
      BY <3>1, <1>9, FS_AddElement
    <3> QED
      BY <3>2, <2>0, <2>1, <1>9, <1>10
  <2>2. CASE ~(requests'.count <= CallLimit)
    <3>1. LetThrough(s)' = LetThrough(s)
      BY <2>2, <1>8
    <3> QED
      BY <3>1, <2>0, <1>9, <1>10
  <2> QED
    BY <2>1, <2>2
<1>12. \A w \in Nat : /\ IsFiniteSet(LetThrough(w)')
                      /\ Cardinality(LetThrough(w)') <= CallLimit
  BY <1>7, <1>11 DEF CallInv
<1>13. Cardinality(LetThrough(requests.resetAt))' <= requests'.count
  <2>1. LetThrough(requests.resetAt)' = LetThrough(s)'
    BY <1>0 DEF LetThrough
  <2> QED
    BY <2>1, <1>11
<1> QED
  BY <1>0, <1>6, <1>12, <1>13 DEF CallInv

LEMMA CallInvStep == LimitInv /\ CallInv /\ [LimitNext]_limitVars => CallInv'
<1> SUFFICES ASSUME LimitInv, CallInv, [LimitNext]_limitVars PROVE CallInv'
  OBVIOUS
<1>0. \A s \in Spenders : s \notin Callers
  BY LimitAssumption
<1>u. CASE UNCHANGED limitVars
  BY <1>u, CallInvKept DEF limitVars
<1>1. ASSUME NEW a \in Actors, Call(a) PROVE CallInv'
  BY <1>1, CallInvKept DEF Call, Goto, LimitInv, LimitTypeOK, Actors
<1>2. ASSUME NEW c \in Callers, Consume(c) PROVE CallInv'
  BY <1>2, CallInvConsume
<1>3. ASSUME NEW s \in Spenders,
             \/ Oversize(s) \/ ReserveWords(s) \/ Blocked(s)
             \/ StartProvider(s)
             \/ FailBeforeProvider(s) \/ Release(s) \/ ReleaseFails(s)
      PROVE  CallInv'
  <2>1. requests' = requests
    BY <1>3 DEF Oversize, ReserveWords, Blocked, StartProvider,
       FailBeforeProvider, Release, ReleaseFails
  <2>2. \A c \in Callers : windowOf'[c] = windowOf[c] /\ at'[c] = at[c]
    BY <1>0, <1>3 DEF Oversize, ReserveWords, Blocked, StartProvider,
       FailBeforeProvider, Release, ReleaseFails, Goto, LimitInv,
       LimitTypeOK, Actors
  <2> QED
    BY <2>1, <2>2, CallInvKept
<1>4. CASE Tick
  BY <1>4, CallInvKept DEF Tick
<1> QED
  BY <1>u, <1>1, <1>2, <1>3, <1>4 DEF LimitNext

(* However the clocks of the calls lag behind, no window lets more calls   *)
(* through than its limit.                                                 *)
THEOREM CallsLimited == LimitSpec => []CallsPerWindow
<1>1. LimitInv /\ CallInv => CallsPerWindow
  BY DEF LimitInv, LimitTypeOK, Actors, CallInv, CallsPerWindow, LetThrough
<1>2. LimitSpec => []CallInv
  BY LimitInvariance, CallInvInit, CallInvStep, PTL DEF LimitSpec
<1> QED
  BY LimitInvariance, <1>1, <1>2, PTL

-----------------------------------------------------------------------------
(* Words: a row may count words of requests that were refunded too late,   *)
(* and then its window is over; it never counts fewer than are held.       *)
WordInv ==
    /\ \A s \in Spenders : windowOf[s] <= words.resetAt
    /\ \A w \in Nat : IsFiniteSet(HeldIn(w)) /\ Total(HeldIn(w)) <= WordLimit
    /\ Total(HeldIn(words.resetAt)) <= words.count
    /\ clock < words.resetAt => words.count = Total(HeldIn(words.resetAt))

LEMMA WordInvInit == LimitInit => WordInv
<1> SUFFICES ASSUME LimitInit PROVE WordInv
  OBVIOUS
<1>1. \A w \in Nat : HeldIn(w) = {}
  BY DEF LimitInit, HeldIn, Actors
<1>2. /\ words.resetAt = 0 /\ words.count = 0 /\ clock = 0
      /\ \A s \in Spenders : windowOf[s] = 0
  BY DEF LimitInit, Actors
<1>3. Total({}) = 0
  BY SumEmpty DEF Total
<1> QED BY <1>1, <1>2, <1>3, FS_EmptySet, LimitAssumption DEF WordInv

LEMMA HeldWords ==
    ASSUME WordInv, NEW w \in Nat
    PROVE  Total(HeldIn(w)) \in Nat /\ Total(HeldIn(w)) <= WordLimit
<1>1. IsFiniteSet(HeldIn(w)) /\ \A s \in HeldIn(w) : Words[s] \in Nat
  BY LimitAssumption DEF WordInv, HeldIn
<1> QED BY <1>1, SumNat DEF WordInv, Total

(* A step that leaves the row and what the spenders hold alone.            *)
LEMMA WordInvKept ==
    ASSUME LimitInv, WordInv, words' = words,
           clock' \in Nat, clock <= clock',
           \A s \in Spenders : /\ windowOf'[s] = windowOf[s]
                               /\ at'[s] \in {"allowed", "refund", "spent"}
                                    <=> at[s] \in {"allowed", "refund", "spent"}
    PROVE  WordInv'
<1>1. \A w : HeldIn(w)' = HeldIn(w)
  BY DEF HeldIn
<1>2. HeldIn(words.resetAt)' = HeldIn(words.resetAt)
  BY DEF HeldIn
<1>3. clock \in Nat /\ words.resetAt \in Nat
  BY DEF LimitInv, LimitTypeOK, Buckets
<1>4. clock' < words'.resetAt => clock < words.resetAt
  BY <1>3
<1> QED BY <1>1, <1>2, <1>4 DEF WordInv, Total

LEMMA WordInvReserve ==
    ASSUME LimitInv, WordInv, NEW s \in Spenders, ReserveWords(s)
    PROVE  WordInv'
<1>0. PICK r, q, n : r = words.resetAt /\ q = words'.resetAt /\ n = Words[s]
  OBVIOUS
<1>1. /\ s \in Actors /\ now[s] \in Nat /\ now[s] <= clock /\ clock \in Nat
      /\ words \in Buckets /\ r \in Nat /\ words.count \in Nat
      /\ n \in Nat /\ n <= WordLimit /\ Spenders \subseteq Actors
      /\ WordLimit \in Nat
  BY <1>0, LimitAssumption
     DEF ReserveWords, LimitInv, LimitTypeOK, ReadingsArePast, Actors, Buckets
<1>2. /\ words'.count = IF r <= now[s] THEN n ELSE words.count + n
      /\ q = IF r <= now[s] THEN now[s] + Window ELSE r
  BY <1>0, <1>1, ChargedBucket DEF ReserveWords
<1>3. r <= now[s] \/ words.count + n <= WordLimit
  BY <1>0 DEF ReserveWords, Reservable
<1>4. /\ at[s] = "ready" /\ at'[s] = "allowed" /\ windowOf'[s] = q
      /\ \A t \in Spenders \ {s} : at'[t] = at[t] /\ windowOf'[t] = windowOf[t]
      /\ \A t \in Spenders : windowOf[t] \in Nat
      /\ clock' = clock
  BY <1>0, <1>1 DEF ReserveWords, Goto, LimitInv, LimitTypeOK
<1>5. q \in Nat /\ r <= q
  BY <1>1, <1>2, LimitAssumption
<1>6. \A t \in Spenders : windowOf'[t] <= q
  <2>1. \A t \in Spenders : windowOf[t] <= r
    BY <1>0 DEF WordInv
  <2> QED BY <1>1, <1>4, <1>5, <2>1
<1>7. /\ \A w \in Nat \ {q} : HeldIn(w)' = HeldIn(w)
      /\ HeldIn(q)' = HeldIn(q) \cup {s}
      /\ s \notin HeldIn(q)
  BY <1>4 DEF HeldIn
<1>8. /\ IsFiniteSet(HeldIn(q))
      /\ Total(HeldIn(q)) \in Nat
      /\ \A t \in HeldIn(q) \cup {s} : Words[t] \in Nat
  BY <1>5, HeldWords, LimitAssumption DEF WordInv, HeldIn
<1>9. /\ IsFiniteSet(HeldIn(q) \cup {s})
      /\ Total(HeldIn(q) \cup {s}) = Total(HeldIn(q)) + n
  <2>1. IsFiniteSet(HeldIn(q) \cup {s})
    BY <1>8, FS_AddElement
  <2>2. SumOver(Words, HeldIn(q) \cup {s}) =
            SumOver(Words, HeldIn(q)) + Words[s]
    BY <1>7, <1>8, SumAdd
  <2> QED BY <1>0, <2>1, <2>2 DEF Total
<1>10. /\ Total(HeldIn(q)) + n <= WordLimit
       /\ Total(HeldIn(q)) + n <= words'.count
       /\ clock < q => words'.count = Total(HeldIn(q)) + n
  <2>1. CASE r <= now[s]
    <3>1. r < q /\ words'.count = n
      BY <2>1, <1>1, <1>2, LimitAssumption
    <3>2. HeldIn(q) = {}
      BY <3>1, <1>0, <1>1, <1>4, <1>5 DEF WordInv, HeldIn
    <3>3. Total(HeldIn(q)) = 0
      BY <3>2, SumEmpty DEF Total
    <3> QED BY <3>1, <3>3, <1>1
  <2>2. CASE ~(r <= now[s])
    <3>1. q = r /\ words'.count = words.count + n
      BY <2>2, <1>2
    <3>2. /\ Total(HeldIn(r)) <= words.count
          /\ clock < r => words.count = Total(HeldIn(r))
      BY <1>0 DEF WordInv
    <3> QED BY <3>1, <3>2, <2>2, <1>1, <1>3, <1>8
  <2> QED BY <2>1, <2>2
<1>11. \A w \in Nat : IsFiniteSet(HeldIn(w)') /\ Total(HeldIn(w)') <= WordLimit
  <2> TAKE w \in Nat
  <2>1. CASE w = q
    BY <2>1, <1>7, <1>9, <1>10
  <2>2. CASE w # q
    BY <2>2, <1>7 DEF WordInv
  <2> QED BY <2>1, <2>2
<1>12. Total(HeldIn(words.resetAt))' = Total(HeldIn(q)) + n
  BY <1>0, <1>7, <1>9 DEF Total, HeldIn
<1> QED BY <1>0, <1>4, <1>6, <1>10, <1>11, <1>12 DEF WordInv, Total

LEMMA WordInvRelease ==
    ASSUME LimitInv, WordInv, NEW s \in Spenders, Release(s)
    PROVE  WordInv'
<1>0. PICK r, v, n : r = words.resetAt /\ v = windowOf[s] /\ n = Words[s]
  OBVIOUS
<1>1. /\ s \in Actors /\ now[s] \in Nat /\ now[s] <= clock /\ clock \in Nat
      /\ words \in Buckets /\ r \in Nat /\ words.count \in Nat
      /\ n \in Nat /\ v \in Nat /\ Spenders \subseteq Actors
  BY <1>0, LimitAssumption
     DEF LimitInv, LimitTypeOK, ReadingsArePast, Actors, Buckets
<1>2. /\ at[s] = "refund" /\ at'[s] = "refunded"
      /\ \A t \in Spenders \ {s} : at'[t] = at[t]
      /\ windowOf' = windowOf /\ clock' = clock
  BY <1>1 DEF Release, Goto, LimitInv, LimitTypeOK
<1>3. /\ \A w \in Nat \ {v} : HeldIn(w)' = HeldIn(w)
      /\ HeldIn(v)' = HeldIn(v) \ {s}
      /\ s \in HeldIn(v)
  BY <1>0, <1>2 DEF HeldIn
<1>4. /\ IsFiniteSet(HeldIn(v) \ {s})
      /\ Total(HeldIn(v)) \in Nat /\ Total(HeldIn(v)) <= WordLimit
      /\ Total(HeldIn(v) \ {s}) \in Nat
      /\ Total(HeldIn(v) \ {s}) = Total(HeldIn(v)) - n
      /\ n <= Total(HeldIn(v))
  <2>1. IsFiniteSet(HeldIn(v)) /\ \A t \in HeldIn(v) : Words[t] \in Nat
    BY <1>1, LimitAssumption DEF WordInv, HeldIn
  <2>2. IsFiniteSet(HeldIn(v) \ {s})
    BY <2>1, FS_RemoveElement
  <2>3. SumOver(Words, HeldIn(v) \ {s}) \in Nat
    BY <2>1, <2>2, SumNat
  <2> QED BY <1>0, <1>1, <1>3, <2>1, <2>2, <2>3, HeldWords, SumRemove DEF Total
<1>5. words'.resetAt = r
  BY <1>0, <1>1, RefundedBucket DEF Release
<1>6. \A w \in Nat : IsFiniteSet(HeldIn(w)') /\ Total(HeldIn(w)') <= WordLimit
  <2> TAKE w \in Nat
  <2>1. CASE w = v
    BY <2>1, <1>1, <1>3, <1>4, LimitAssumption
  <2>2. CASE w # v
    BY <2>2, <1>3 DEF WordInv
  <2> QED BY <2>1, <2>2
<1>7. /\ Total(HeldIn(r)) <= words.count
      /\ clock < r => words.count = Total(HeldIn(r))
  BY <1>0 DEF WordInv
<1>8. HeldIn(words.resetAt)' = HeldIn(r)'
  BY <1>0, <1>5 DEF HeldIn
<1>9. /\ Total(HeldIn(r)') <= words'.count
      /\ clock < r => words'.count = Total(HeldIn(r)')
  <2>1. CASE v # r
    <3>1. words' = words
      BY <2>1, <1>0 DEF Release, Refundable
    <3> QED BY <2>1, <3>1, <1>1, <1>3, <1>7
  <2>2. CASE v = r /\ r <= now[s]
    <3>1. words' = words
      BY <2>2, <1>0, <1>1 DEF Release, Refundable
    <3>2. HeldIn(r)' = HeldIn(v) \ {s}
      BY <2>2, <1>3
    <3> QED BY <2>2, <3>1, <3>2, <1>1, <1>4, <1>7
  <2>3. CASE v = r /\ now[s] < r
    <3>1. words' = Refunded(words, n)
      BY <2>3, <1>0 DEF Release, Refundable
    <3>2. words'.count = IF words.count > n THEN words.count - n ELSE 0
      BY <3>1, <1>1 DEF Refunded, Buckets
    <3>3. HeldIn(r)' = HeldIn(v) \ {s}
      BY <2>3, <1>3
    <3> QED BY <2>3, <3>2, <3>3, <1>1, <1>4, <1>7
  <2> QED BY <2>1, <2>2, <2>3, <1>1
<1> QED BY <1>0, <1>1, <1>2, <1>5, <1>6, <1>8, <1>9 DEF WordInv, Total

LEMMA WordInvStep == LimitInv /\ WordInv /\ [LimitNext]_limitVars => WordInv'
<1> SUFFICES ASSUME LimitInv, WordInv, [LimitNext]_limitVars PROVE WordInv'
  OBVIOUS
<1>0. /\ \A c \in Callers : c \notin Spenders
      /\ \A s \in Spenders : s \in Actors
      /\ clock \in Nat
      /\ at \in [Actors -> LimitPlaces] /\ windowOf \in [Actors -> Nat]
  BY LimitAssumption DEF Actors, LimitInv, LimitTypeOK
<1>u. CASE UNCHANGED limitVars
  BY <1>u, <1>0, WordInvKept DEF limitVars
<1>1. ASSUME NEW a \in Actors, Call(a) PROVE WordInv'
  BY <1>1, <1>0, WordInvKept DEF Call, Goto
<1>2. ASSUME NEW c \in Callers, Consume(c) PROVE WordInv'
  <2>1. \A s \in Spenders : windowOf'[s] = windowOf[s] /\ at'[s] = at[s]
    BY <1>2, <1>0 DEF Consume, Goto
  <2> QED BY <1>2, <1>0, <2>1, WordInvKept DEF Consume
<1>3. ASSUME NEW s \in Spenders,
             \/ Oversize(s) \/ Blocked(s) \/ StartProvider(s)
             \/ FailBeforeProvider(s) \/ ReleaseFails(s)
      PROVE  WordInv'
  <2>1. /\ words' = words /\ clock' = clock /\ windowOf' = windowOf
        /\ \A t \in Spenders : at'[t] \in {"allowed", "refund", "spent"}
                                 <=> at[t] \in {"allowed", "refund", "spent"}
    BY <1>3, <1>0 DEF Oversize, Blocked, StartProvider, FailBeforeProvider,
       ReleaseFails, Goto
  <2> QED BY <1>0, <2>1, WordInvKept
<1>4. CASE Tick
  BY <1>4, <1>0, WordInvKept DEF Tick
<1> QED
  BY <1>u, <1>1, <1>2, <1>3, <1>4, WordInvReserve, WordInvRelease
     DEF LimitNext

LEMMA WordInvariance == LimitSpec => []WordInv
BY LimitInvariance, WordInvInit, WordInvStep, PTL DEF LimitSpec

(* While a word window is open its row is exact: each reservation is       *)
(* counted once, and each refund that was made is taken out of the window  *)
(* it was charged to.                                                      *)
THEOREM WordsAreExact == LimitSpec => []WordsMatchReservations
<1>1. WordInv => WordsMatchReservations
  BY DEF WordInv, WordsMatchReservations
<1> QED BY WordInvariance, <1>1, PTL

(* No window's requests spend more than the cap together, however late     *)
(* their reservations and refunds reach the row.                           *)
THEOREM WordsLimited == LimitSpec => []CapHoldsPerWindow
<1>1. LimitInv /\ WordInv => CapHoldsPerWindow
  BY DEF LimitInv, LimitTypeOK, Actors, WordInv, CapHoldsPerWindow
<1> QED BY LimitInvariance, WordInvariance, <1>1, PTL

-----------------------------------------------------------------------------
(* AiBudget.  Quotes are natural numbers: a division of one is rounded up. *)
LEMMA CeilDivNat ==
    ASSUME NEW n \in Nat PROVE CeilDiv(n, Denominator) \in Nat
BY BudgetAssumption DEF CeilDiv

LEMMA QuoteNat ==
    ASSUME NEW rate \in Nat, NEW units \in Nat PROVE Quote(rate, units) \in Nat
<1>1. units * rate \in Nat
  OBVIOUS
<1> QED BY <1>1, CeilDivNat DEF Quote

LEMMA MaxNat ==
    ASSUME NEW x \in Nat, NEW y \in Nat PROVE Max({x, y}) \in Nat
<1>1. \E m \in {x, y} : \A e \in {x, y} : m >= e
  OBVIOUS
<1> QED BY <1>1 DEF Max

-----------------------------------------------------------------------------
(* What the fields of a row hold.                                          *)
LEMMA RowFields ==
    ASSUME NEW row \in Reservations
    PROVE  /\ row # NoReservation
           /\ row.state \in States
           /\ row.organization \in Organizations
           /\ row.month \in Nat
           /\ row.currency \in STRING
           /\ row.rate \in Nat
           /\ row.reserved \in Nat
           /\ row.reconciled \in Nat \cup {NoUsage}
BY RowAssumption DEF Reservations

(* A policy that is in force was approved.                                 *)
LEMMA PolicyFields ==
    ASSUME TypeOK, NEW s \in Scopes, policy[s] # NoPolicy
    PROVE  /\ policy[s] \in Policies
           /\ policy[s].cap \in Nat
           /\ policy[s].currency \in STRING
           /\ policy[s].rate \in Nat
           /\ policy[s].warning \in Nat
<1>1. policy[s] \in Policies
  BY DEF TypeOK
<1>2. policy[s] \in PolicyRecords
  BY <1>1, BudgetAssumption
<1> QED BY <1>1, <1>2 DEF PolicyRecords

(* An admission writes a well-formed row and touches no other.             *)
LEMMA ReservedRow ==
    ASSUME TypeOK, NEW a \in Attempts, Reserve(a)
    PROVE  /\ billTo[a] \in Organizations
           /\ ProjectOf[a] \in Projects
           /\ owner[ProjectOf[a]] = billTo[a]
           /\ policy[billTo[a]] \in Policies
           /\ policy[ProjectOf[a]] # NoPolicy
           /\ ledger'[a] \in Reservations
           /\ ledger'[a].state = "DISPATCHED"
           /\ ledger'[a].organization = billTo[a]
           /\ ledger'[a].month = month
           /\ ledger'[a].currency = policy[billTo[a]].currency
           /\ \A b \in Attempts \ {a} : ledger'[b] = ledger[b]
<1> DEFINE o == billTo[a]
           p == ProjectOf[a]
           micros == Quote(Rate(a), Units[a])
           row == [state |-> "DISPATCHED", organization |-> o,
                   month |-> month, currency |-> policy[o].currency,
                   rate |-> Rate(a), reserved |-> micros,
                   reconciled |-> NoUsage]
<1>1. o \in Organizations /\ p \in Projects /\ owner[p] = o
  BY BudgetAssumption DEF Reserve, InScope
<1>2. policy[o] # NoPolicy /\ policy[p] # NoPolicy
  BY DEF Reserve, Approved, Ready
<1>3. o \in Scopes /\ p \in Scopes
  BY <1>1 DEF Scopes
<1>4. /\ policy[o] \in Policies
      /\ policy[o].currency \in STRING
      /\ policy[o].rate \in Nat
      /\ policy[p].rate \in Nat
  BY <1>2, <1>3, PolicyFields
<1>5. Rate(a) \in Nat
  BY <1>4, MaxNat DEF Rate
<1>6. Units[a] \in Nat
  BY BudgetAssumption
<1>7. micros \in Nat
  BY <1>5, <1>6, QuoteNat
<1>8. month \in Nat
  BY DEF TypeOK
<1>9. row \in Reservations
  BY <1>1, <1>4, <1>5, <1>7, <1>8 DEF Reservations, States
<1>10. ledger' = [ledger EXCEPT ![a] = row]
  BY DEF Reserve
<1>11. ledger \in [Attempts -> Reservations \cup {NoReservation}]
  BY DEF TypeOK
<1>12. ledger'[a] = row /\ \A b \in Attempts \ {a} : ledger'[b] = ledger[b]
  BY <1>10, <1>11
<1> QED BY <1>1, <1>2, <1>4, <1>9, <1>12

(* A settlement or a reconciliation of a row keeps its bill; it leaves a   *)
(* settled row alone.                                                      *)
Closes(row, after) ==
    /\ after \in Reservations
    /\ after.organization = row.organization
    /\ after.month = row.month
    /\ after.currency = row.currency
    /\ after.reserved = row.reserved
    /\ row.state = "SETTLED" => after = row
    /\ after.state = "SETTLED" =>
           after = row \/ after.reconciled <= after.reserved

LEMMA MeasuredNat ==
    ASSUME TypeOK, NEW a \in Attempts, Reserved(a), NEW usage \in Nat
    PROVE  Measured(a, usage) \in Nat
<1>1. ledger[a] \in Reservations
  BY DEF TypeOK, Reserved
<1> QED BY <1>1, RowFields, QuoteNat DEF Measured

LEMMA SettleCloses ==
    ASSUME TypeOK, NEW a \in Attempts, Reserved(a),
           NEW usage \in Nat \cup {NoUsage}
    PROVE  Closes(ledger[a], SettledRow(a, usage))
<1> DEFINE row == ledger[a]
<1>1. row \in Reservations
  BY DEF TypeOK, Reserved
<1>2. CASE SettledRow(a, usage) = row
  BY <1>1, <1>2 DEF Closes
<1>3. CASE /\ row.state = "DISPATCHED"
           /\ Trustworthy(a, usage)
           /\ SettledRow(a, usage) =
                  [row EXCEPT !.state = "SETTLED",
                              !.reconciled = Measured(a, usage)]
  <2>1. usage \in Nat /\ Measured(a, usage) <= row.reserved
    BY <1>3 DEF Trustworthy
  <2>2. Measured(a, usage) \in Nat
    BY <2>1, MeasuredNat
  <2> QED BY <1>1, <1>3, <2>1, <2>2 DEF Closes, Reservations, States
<1>4. CASE /\ row.state = "DISPATCHED"
           /\ SettledRow(a, usage) =
                  [row EXCEPT !.state = "UNKNOWN", !.reconciled = NoUsage]
  BY <1>1, <1>4 DEF Closes, Reservations, States
<1> QED BY <1>2, <1>3, <1>4 DEF SettledRow

LEMMA ResolveCloses ==
    ASSUME TypeOK, NEW a \in Attempts, NEW usage \in Nat, Resolve(a, usage)
    PROVE  /\ Reserved(a)
           /\ ledger[a].state = "UNKNOWN"
           /\ ledger'[a].state = "SETTLED"
           /\ Closes(ledger[a], ledger'[a])
           /\ \A b \in Attempts \ {a} : ledger'[b] = ledger[b]
<1> DEFINE row == ledger[a]
<1>1. Reserved(a) /\ row \in Reservations
  BY DEF TypeOK, Reserved, Resolve
<1>2. row.state = "UNKNOWN" /\ Measured(a, usage) <= row.reserved
  BY DEF Resolve, Resolvable, Trustworthy
<1>3. Measured(a, usage) \in Nat
  BY <1>1, MeasuredNat
<1>4. ledger'[a] = [row EXCEPT !.state = "SETTLED",
                               !.reconciled = Measured(a, usage)]
  BY DEF Resolve, TypeOK
<1>5. \A b \in Attempts \ {a} : ledger'[b] = ledger[b]
  BY DEF Resolve, TypeOK
<1> QED BY <1>1, <1>2, <1>3, <1>4, <1>5 DEF Closes, Reservations, States

LEMMA SettleStep ==
    ASSUME TypeOK, CallsAreHeld, NEW a \in Attempts,
           NEW usage \in Nat \cup {NoUsage}, Settle(a, usage)
    PROVE  /\ Reserved(a)
           /\ ledger[a].state = "DISPATCHED"
           /\ Closes(ledger[a], ledger'[a])
           /\ \A b \in Attempts \ {a} : ledger'[b] = ledger[b]
<1>1. Reserved(a) /\ ledger[a].state = "DISPATCHED"
  BY DEF Settle, CallsAreHeld
<1>2. ledger'[a] = SettledRow(a, usage)
  BY DEF Settle, TypeOK
<1>3. \A b \in Attempts \ {a} : ledger'[b] = ledger[b]
  BY DEF Settle, TypeOK
<1> QED BY <1>1, <1>2, <1>3, SettleCloses

LEMMA ReceiptsNat ==
    ASSUME NEW a \in Attempts, NEW usage \in Receipts(a) PROVE usage \in Nat
BY BudgetAssumption DEF Receipts

(* How the ledger can change in one step: a row is admitted, one is closed,*)
(* or none is touched.                                                     *)
Admitted(a) == ~Reserved(a) /\ Reserve(a)

Closed(a) ==
    /\ Reserved(a)
    /\ Closes(ledger[a], ledger'[a])
    /\ \A b \in Attempts \ {a} : ledger'[b] = ledger[b]

LEMMA LedgerSteps ==
    ASSUME TypeOK, CallsAreHeld, [Next]_vars
    PROVE  \/ \E a \in Attempts : Admitted(a)
           \/ \E a \in Attempts :
                  Closed(a) /\ owner' = owner /\ policy' = policy
           \/ ledger' = ledger
<1>1. ASSUME NEW a \in Attempts, Reserve(a) PROVE Admitted(a)
  BY <1>1 DEF Admitted, Reserve
<1>2. ASSUME NEW a \in Attempts, NEW usage \in Receipts(a) \cup {NoUsage},
             Settle(a, usage)
      PROVE  Closed(a) /\ owner' = owner /\ policy' = policy
  BY <1>2, ReceiptsNat, SettleStep DEF Closed, Settle
<1>3. ASSUME NEW a \in Attempts, NEW usage \in Receipts(a), Resolve(a, usage)
      PROVE  Closed(a) /\ owner' = owner /\ policy' = policy
  BY <1>3, ReceiptsNat, ResolveCloses DEF Closed, Resolve
<1>4. ASSUME NEW a \in Attempts, Begin(DispatchOf[a]) \/ Refuse(a) \/ Crash(a)
      PROVE  ledger' = ledger
  BY <1>4 DEF Begin, Refuse, Crash
<1>5. ASSUME NEW p \in Projects,
             \/ \E scope \in Scopes, q \in Policies : Approve(p, scope, q)
             \/ \E destination \in Organizations : Transfer(p, destination)
             \/ Delete(p)
      PROVE  ledger' = ledger
  BY <1>5 DEF Approve, Transfer, Delete
<1>6. NextMonth \/ UNCHANGED vars => ledger' = ledger
  BY DEF NextMonth, vars
<1> QED BY <1>1, <1>2, <1>3, <1>4, <1>5, <1>6 DEF Next

-----------------------------------------------------------------------------
(* Types.  The alerts are left to the model checker's run of TypeOK; here  *)
(* they are typed by the months and thresholds of approved policies.       *)
LEMMA TypeInit == Init => TypeOK
BY BudgetAssumption DEF Init, TypeOK, Places, Scopes

LEMMA CrossedType ==
    ASSUME TypeOK, NEW s \in Scopes, policy[s] # NoPolicy, NEW x, NEW y
    PROVE  Crossed(s, x, y) \subseteq Scopes \X Nat \X Nat
<1>1. policy[s].warning \in Nat /\ month \in Nat
  BY PolicyFields DEF TypeOK
<1> QED BY <1>1 DEF Crossed

LEMMA TypeNext ==
    ASSUME TypeOK, CallsAreHeld, [Next]_vars PROVE TypeOK'
<1>1. (ledger \in [Attempts -> Reservations \cup {NoReservation}])'
  <2>1. ASSUME NEW a \in Attempts, Reserve(a)
        PROVE  ledger' \in [Attempts -> Reservations \cup {NoReservation}]
    BY <2>1, ReservedRow DEF TypeOK, Reserve
  <2>2. ASSUME NEW a \in Attempts, NEW usage \in Receipts(a) \cup {NoUsage},
               Settle(a, usage)
        PROVE  ledger' \in [Attempts -> Reservations \cup {NoReservation}]
    <3>1. ledger'[a] \in Reservations
      BY <2>2, ReceiptsNat, SettleStep DEF Closes
    <3> QED BY <2>2, <3>1 DEF TypeOK, Settle
  <2>3. ASSUME NEW a \in Attempts, NEW usage \in Receipts(a), Resolve(a, usage)
        PROVE  ledger' \in [Attempts -> Reservations \cup {NoReservation}]
    <3>1. ledger'[a] \in Reservations
      BY <2>3, ReceiptsNat, ResolveCloses DEF Closes
    <3> QED BY <2>3, <3>1 DEF TypeOK, Resolve
  <2>4. CASE ledger' = ledger
    BY <2>4 DEF TypeOK
  <2> QED BY <2>1, <2>2, <2>3, <2>4
          DEF Next, vars, Begin, Refuse, Crash, Approve, Transfer, Delete,
              NextMonth
<1>2. (alerts \subseteq Scopes \X Nat \X Nat)'
  <2>1. ASSUME NEW a \in Attempts, Reserve(a)
        PROVE  alerts' \subseteq Scopes \X Nat \X Nat
    <3>1. billTo[a] \in Scopes /\ ProjectOf[a] \in Scopes
      BY <2>1, ReservedRow DEF Scopes
    <3>2. policy[billTo[a]] # NoPolicy /\ policy[ProjectOf[a]] # NoPolicy
      BY <2>1 DEF Reserve, Approved, Ready
    <3> QED BY <2>1, <3>1, <3>2, CrossedType DEF TypeOK, Reserve
  <2>2. CASE alerts' \subseteq alerts
    BY <2>2 DEF TypeOK
  <2> QED BY <2>1, <2>2
          DEF Next, vars, Begin, Refuse, Settle, Crash, Resolve, Approve,
              Transfer, Delete, DropPolicy, NextMonth
<1>3. (owner \in [Projects -> Organizations \cup {NoOrganization}])'
  BY DEF TypeOK, Next, vars, Begin, Reserve, Refuse, Settle, Crash, Resolve,
         Approve, Transfer, Delete, NextMonth
<1>4. (policy \in [Scopes -> Policies \cup {NoPolicy}])'
  BY DEF TypeOK, Next, vars, Begin, Reserve, Refuse, Settle, Crash, Resolve,
         Approve, Transfer, Delete, DropPolicy, NextMonth, Scopes
<1>5. (pc \in [Attempts -> Places])'
  <2>1. ASSUME NEW a \in Attempts, Begin(DispatchOf[a])
        PROVE  pc' \in [Attempts -> Places]
    BY <2>1 DEF TypeOK, Begin, Places
  <2>2. ASSUME NEW a \in Attempts,
               \/ Reserve(a) \/ Refuse(a) \/ Crash(a)
               \/ \E usage \in Receipts(a) \cup {NoUsage} : Settle(a, usage)
        PROVE  pc' \in [Attempts -> Places]
    <3>1. \E place \in Places : pc' = [pc EXCEPT ![a] = place]
      BY <2>2 DEF Reserve, Refuse, Crash, Settle, Places
    <3> QED BY <3>1 DEF TypeOK
  <2>3. ASSUME NEW p \in Projects, NEW o \in Organizations, Transfer(p, o)
        PROVE  pc' \in [Attempts -> Places]
    BY <2>3 DEF TypeOK, Transfer, Places
  <2>4. CASE pc' = pc
    BY <2>4 DEF TypeOK
  <2> QED BY <2>1, <2>2, <2>3, <2>4
          DEF Next, vars, Resolve, Approve, Delete, NextMonth
<1>6. (billTo \in [Attempts -> Organizations \cup {NoOrganization}])'
  <2>1. ASSUME NEW a \in Attempts, Begin(DispatchOf[a])
        PROVE  billTo' \in [Attempts -> Organizations \cup {NoOrganization}]
    BY <2>1, BudgetAssumption DEF TypeOK, Begin
  <2>2. CASE billTo' = billTo
    BY <2>2 DEF TypeOK
  <2> QED BY <2>1, <2>2
          DEF Next, vars, Reserve, Refuse, Settle, Crash, Resolve, Approve,
              Transfer, Delete, NextMonth
<1>7. (month \in Nat)'
  <2>1. CASE NextMonth
    BY <2>1 DEF TypeOK, NextMonth
  <2>2. CASE month' = month
    BY <2>2 DEF TypeOK
  <2> QED BY <2>1, <2>2
          DEF Next, vars, Begin, Reserve, Refuse, Settle, Crash, Resolve,
              Approve, Transfer, Delete
<1> QED BY <1>1, <1>2, <1>3, <1>4, <1>5, <1>6, <1>7 DEF TypeOK

-----------------------------------------------------------------------------
LEMMA HeldInit == Init => CallsAreHeld /\ HoldsStayHome
BY DEF Init, CallsAreHeld, HoldsStayHome, Reserved

(* Only the attempt that calls can close its row while it calls.           *)
LEMMA HeldNext ==
    ASSUME TypeOK, CallsAreHeld, [Next]_vars PROVE CallsAreHeld'
<1> DEFINE Working(a) == pc[a] \in {"calling", "crashed"}
           Dispatched(a) == Reserved(a) /\ ledger[a].state = "DISPATCHED"
<1> SUFFICES ASSUME NEW b \in Attempts, Working(b)' PROVE Dispatched(b)'
  BY DEF CallsAreHeld
<1>1. Working(b) => Dispatched(b)
  BY DEF CallsAreHeld
<1>2. ASSUME NEW a \in Attempts, Reserve(a) PROVE Dispatched(b)'
  <2>1. CASE b = a
    BY <1>2, <2>1, ReservedRow, RowFields DEF Reserved
  <2>2. CASE b # a
    <3>1. Working(b)
      BY <1>2, <2>2 DEF Reserve, TypeOK
    <3> QED BY <1>1, <1>2, <2>2, <3>1, ReservedRow DEF Reserved
  <2> QED BY <2>1, <2>2
<1>3. ASSUME NEW a \in Attempts, NEW usage \in Receipts(a) \cup {NoUsage},
             Settle(a, usage)
      PROVE  Dispatched(b)'
  <2>1. b # a
    BY <1>3 DEF Settle, TypeOK
  <2>2. Working(b)
    BY <1>3, <2>1 DEF Settle, TypeOK
  <2> QED BY <1>1, <1>3, <2>1, <2>2, ReceiptsNat, SettleStep DEF Reserved
<1>4. ASSUME NEW a \in Attempts, NEW usage \in Receipts(a), Resolve(a, usage)
      PROVE  Dispatched(b)'
  <2>1. Working(b)
    BY <1>4 DEF Resolve
  <2>2. b # a
    BY <1>1, <1>4, <2>1, ReceiptsNat, ResolveCloses
  <2> QED BY <1>1, <1>4, <2>1, <2>2, ReceiptsNat, ResolveCloses DEF Reserved
<1>5. ASSUME NEW a \in Attempts, Begin(DispatchOf[a]) \/ Refuse(a) \/ Crash(a)
      PROVE  Dispatched(b)'
  <2>1. Working(b)
    BY <1>5 DEF Begin, Refuse, Crash, TypeOK
  <2> QED BY <1>1, <1>5, <2>1 DEF Begin, Refuse, Crash, Reserved
<1>6. ASSUME NEW p \in Projects, NEW o \in Organizations, Transfer(p, o)
      PROVE  Dispatched(b)'
  <2>1. Working(b)
    BY <1>6 DEF Transfer
  <2> QED BY <1>1, <1>6, <2>1 DEF Transfer, Reserved
<1>7. CASE pc' = pc /\ ledger' = ledger
  BY <1>1, <1>7 DEF Reserved
<1> QED BY <1>2, <1>3, <1>4, <1>5, <1>6, <1>7
        DEF Next, vars, Approve, Delete, NextMonth

(* A transfer or a deletion finds no open hold of the project; everything  *)
(* else leaves the owner alone and removes no policy.                      *)
LEMMA HomeNext ==
    ASSUME TypeOK, CallsAreHeld, HoldsStayHome, [Next]_vars
    PROVE  HoldsStayHome'
<1> DEFINE Open(a) == Reserved(a) /\ ledger[a].state \in Pending
           AtHome(a) == /\ owner[ProjectOf[a]] = ledger[a].organization
                        /\ policy[ProjectOf[a]] # NoPolicy
<1> SUFFICES ASSUME NEW b \in Attempts, Open(b)' PROVE AtHome(b)'
  BY DEF HoldsStayHome
<1> DEFINE home == ProjectOf[b]
<1>1. home \in Projects
  BY BudgetAssumption
<1>2. Open(b) => AtHome(b)
  BY DEF HoldsStayHome
<1>3. ASSUME NEW a \in Attempts, Admitted(a) PROVE AtHome(b)'
  <2>1. owner' = owner /\ policy' = policy
    BY <1>3 DEF Admitted, Reserve
  <2>2. CASE b = a
    BY <1>3, <2>1, <2>2, ReservedRow DEF Admitted
  <2>3. CASE b # a
    BY <1>2, <1>3, <2>1, <2>3, ReservedRow DEF Admitted, Reserved
  <2> QED BY <2>2, <2>3
<1>4. ASSUME NEW a \in Attempts, Closed(a), owner' = owner, policy' = policy
      PROVE  AtHome(b)'
  <2>1. CASE b = a
    <3>1. ledger[a] \in Reservations
      BY <1>4 DEF Closed, Reserved, TypeOK
    <3>2. ledger[a].state # "SETTLED"
      BY <1>4, <2>1 DEF Closed, Closes, Pending
    <3>3. Open(b)
      BY <1>4, <2>1, <3>1, <3>2, RowFields DEF Closed, States, Pending
    <3> QED BY <1>2, <1>4, <2>1, <3>3 DEF Closed, Closes
  <2>2. CASE b # a
    BY <1>2, <1>4, <2>2 DEF Closed, Reserved
  <2> QED BY <2>1, <2>2
<1>5. ASSUME NEW p \in Projects, NEW scope \in Scopes, NEW q \in Policies,
             Approve(p, scope, q)
      PROVE  AtHome(b)'
  <2>1. AtHome(b)
    BY <1>2, <1>5 DEF Approve, Reserved
  <2>2. q # NoPolicy
    BY BudgetAssumption, NullAssumption
  <2>3. policy'[home] \in {policy[home], q}
    BY <1>1, <1>5 DEF Approve, TypeOK, Scopes
  <2> QED BY <1>5, <2>1, <2>2, <2>3 DEF Approve
<1>6. ASSUME NEW p \in Projects, NEW o \in Organizations, Transfer(p, o)
      PROVE  AtHome(b)'
  <2>1. Open(b) /\ AtHome(b)
    BY <1>2, <1>6 DEF Transfer, Reserved
  <2>2. home # p
    BY <1>6, <2>1 DEF Transfer, Unencumbered
  <2>3. owner'[home] = owner[home] /\ policy'[home] = policy[home]
    BY <1>1, <1>6, <2>2 DEF Transfer, DropPolicy, TypeOK, Scopes
  <2> QED BY <1>6, <2>1, <2>3 DEF Transfer
<1>7. ASSUME NEW p \in Projects, Delete(p) PROVE AtHome(b)'
  <2>1. Open(b) /\ AtHome(b)
    BY <1>2, <1>7 DEF Delete, Reserved
  <2>2. home # p
    BY <1>7, <2>1 DEF Delete
  <2>3. owner'[home] = owner[home] /\ policy'[home] = policy[home]
    BY <1>1, <1>7, <2>2 DEF Delete, DropPolicy, TypeOK, Scopes
  <2> QED BY <1>7, <2>1, <2>3 DEF Delete
<1>8. CASE ledger' = ledger /\ owner' = owner /\ policy' = policy
  BY <1>2, <1>8 DEF Reserved
<1>9. ASSUME NEW a \in Attempts, Begin(DispatchOf[a]) \/ Refuse(a) \/ Crash(a)
      PROVE  ledger' = ledger /\ owner' = owner /\ policy' = policy
  BY <1>9 DEF Begin, Refuse, Crash
<1>10. ASSUME NEW a \in Attempts, Reserve(a) PROVE Admitted(a)
  BY <1>10 DEF Admitted, Reserve
<1>11. ASSUME NEW a \in Attempts, NEW usage \in Receipts(a) \cup {NoUsage},
              Settle(a, usage)
       PROVE  Closed(a) /\ owner' = owner /\ policy' = policy
  BY <1>11, ReceiptsNat, SettleStep DEF Closed, Settle
<1>12. ASSUME NEW a \in Attempts, NEW usage \in Receipts(a), Resolve(a, usage)
       PROVE  Closed(a) /\ owner' = owner /\ policy' = policy
  BY <1>12, ReceiptsNat, ResolveCloses DEF Closed, Resolve
<1>13. NextMonth \/ UNCHANGED vars =>
           ledger' = ledger /\ owner' = owner /\ policy' = policy
  BY DEF NextMonth, vars
<1> QED BY <1>3, <1>4, <1>5, <1>6, <1>7, <1>8, <1>9, <1>10, <1>11, <1>12, <1>13
        DEF Next

(* A row is admitted only if no other run of its request has one.          *)
LEMMA RunNext ==
    ASSUME TypeOK, CallsAreHeld, OneRunPerRequest, [Next]_vars
    PROVE  OneRunPerRequest'
<1> DEFINE Rival(a, b) == /\ Reserved(a)
                          /\ Reserved(b)
                          /\ GroupOf[a] = GroupOf[b]
                          /\ ledger[a].organization = ledger[b].organization
<1> SUFFICES ASSUME NEW x \in Attempts, NEW y \in Attempts, Rival(x, y)'
             PROVE  DispatchOf[x] = DispatchOf[y]
  BY DEF OneRunPerRequest
<1>1. Rival(x, y) => DispatchOf[x] = DispatchOf[y]
  BY DEF OneRunPerRequest
<1>2. ASSUME NEW a \in Attempts, Admitted(a)
      PROVE  DispatchOf[x] = DispatchOf[y]
  <2>1. \A b \in Attempts : /\ Reserved(b)
                            /\ ledger[b].organization = billTo[a]
                            /\ GroupOf[b] = GroupOf[a]
                            => DispatchOf[b] = DispatchOf[a]
    BY <1>2 DEF Admitted, Reserve, NotDispatched
  <2>2. /\ ledger'[a].organization = billTo[a]
        /\ \A b \in Attempts \ {a} : ledger'[b] = ledger[b]
    BY <1>2, ReservedRow DEF Admitted
  <2>3. CASE x = a /\ y = a
    BY <2>3
  <2>4. CASE x = a /\ y # a
    BY <2>1, <2>2, <2>4 DEF Reserved
  <2>5. CASE x # a /\ y = a
    BY <2>1, <2>2, <2>5 DEF Reserved
  <2>6. CASE x # a /\ y # a
    BY <1>1, <2>2, <2>6 DEF Reserved
  <2> QED BY <2>3, <2>4, <2>5, <2>6
<1>3. ASSUME NEW a \in Attempts, Closed(a) PROVE Rival(x, y)
  <2>1. \A b \in Attempts : Reserved(b)' =>
            Reserved(b) /\ ledger'[b].organization = ledger[b].organization
    BY <1>3 DEF Closed, Closes, Reserved
  <2> QED BY <2>1
<1>4. CASE ledger' = ledger
  BY <1>1, <1>4 DEF Reserved
<1> QED BY <1>1, <1>2, <1>3, <1>4, LedgerSteps

(* A row is admitted in the currency of every row of its month.            *)
LEMMA CurrencyNext ==
    ASSUME TypeOK, CallsAreHeld, OneCurrencyPerMonth, [Next]_vars
    PROVE  OneCurrencyPerMonth'
<1> DEFINE Together(a, b) == /\ Reserved(a)
                             /\ Reserved(b)
                             /\ ledger[a].organization = ledger[b].organization
                             /\ ledger[a].month = ledger[b].month
           Same(a, b) == ledger[a].currency = ledger[b].currency
<1> SUFFICES ASSUME NEW x \in Attempts, NEW y \in Attempts, Together(x, y)'
             PROVE  Same(x, y)'
  BY DEF OneCurrencyPerMonth
<1>1. Together(x, y) => Same(x, y)
  BY DEF OneCurrencyPerMonth
<1>2. ASSUME NEW a \in Attempts, Admitted(a) PROVE Same(x, y)'
  <2>1. \A b \in Attempts : /\ Reserved(b)
                            /\ ledger[b].organization = billTo[a]
                            /\ ledger[b].month = month
                            => ledger[b].currency = policy[billTo[a]].currency
    BY <1>2, BudgetAssumption DEF Admitted, Reserve, SingleCurrency, Rows
  <2>2. /\ ledger'[a].organization = billTo[a]
        /\ ledger'[a].month = month
        /\ ledger'[a].currency = policy[billTo[a]].currency
        /\ \A b \in Attempts \ {a} : ledger'[b] = ledger[b]
    BY <1>2, ReservedRow DEF Admitted
  <2>3. CASE x = a /\ y = a
    BY <2>3
  <2>4. CASE x = a /\ y # a
    BY <2>1, <2>2, <2>4 DEF Reserved
  <2>5. CASE x # a /\ y = a
    BY <2>1, <2>2, <2>5 DEF Reserved
  <2>6. CASE x # a /\ y # a
    BY <1>1, <2>2, <2>6 DEF Reserved
  <2> QED BY <2>3, <2>4, <2>5, <2>6
<1>3. ASSUME NEW a \in Attempts, Closed(a) PROVE Same(x, y)'
  <2>1. \A b \in Attempts : Reserved(b)' =>
            /\ Reserved(b)
            /\ ledger'[b].organization = ledger[b].organization
            /\ ledger'[b].month = ledger[b].month
            /\ ledger'[b].currency = ledger[b].currency
    BY <1>3 DEF Closed, Closes, Reserved
  <2> QED BY <1>1, <2>1
<1>4. CASE ledger' = ledger
  BY <1>1, <1>4 DEF Reserved
<1> QED BY <1>2, <1>3, <1>4, LedgerSteps

LEMMA SettledNext ==
    ASSUME TypeOK, CallsAreHeld, SettledWithinReservation, [Next]_vars
    PROVE  SettledWithinReservation'
<1> DEFINE Settled(a) == Reserved(a) /\ ledger[a].state = "SETTLED"
           Within(a) == ledger[a].reconciled <= ledger[a].reserved
<1> SUFFICES ASSUME NEW b \in Attempts, Settled(b)' PROVE Within(b)'
  BY DEF SettledWithinReservation
<1>1. Settled(b) => Within(b)
  BY DEF SettledWithinReservation
<1>2. ASSUME NEW a \in Attempts, Admitted(a) PROVE Within(b)'
  <2>1. b # a
    BY <1>2, ReservedRow DEF Admitted
  <2> QED BY <1>1, <1>2, <2>1, ReservedRow DEF Admitted, Reserved
<1>3. ASSUME NEW a \in Attempts, Closed(a) PROVE Within(b)'
  <2>1. CASE b = a
    BY <1>1, <1>3, <2>1 DEF Closed, Closes
  <2>2. CASE b # a
    BY <1>1, <1>3, <2>2 DEF Closed, Reserved
  <2> QED BY <2>1, <2>2
<1>4. CASE ledger' = ledger
  BY <1>1, <1>4 DEF Reserved
<1> QED BY <1>2, <1>3, <1>4, LedgerSteps

-----------------------------------------------------------------------------
(* CallsAreHeld is what makes the rest inductive: a settlement finds the   *)
(* row it opened, in the state it left it in.                              *)
IInv == TypeOK /\ CallsAreHeld

THEOREM Invariance == Spec => []IInv
<1>1. Init => IInv
  BY TypeInit, HeldInit DEF IInv
<1>2. IInv /\ [Next]_vars => IInv'
  BY TypeNext, HeldNext DEF IInv
<1> QED BY <1>1, <1>2, PTL DEF Spec

(* Every reachable state is well typed.                                    *)
THEOREM TypeCorrect == Spec => []TypeOK
BY Invariance, PTL DEF IInv

(* A call that is under way, or died under way, keeps its full hold.       *)
THEOREM HoldsOutliveCalls == Spec => []CallsAreHeld
BY Invariance, PTL DEF IInv

(* No transfer or deletion separates an open hold from its project.        *)
THEOREM ProjectsWaitForHolds == Spec => []HoldsStayHome
<1>1. Init => HoldsStayHome
  BY HeldInit
<1>2. IInv /\ HoldsStayHome /\ [Next]_vars => HoldsStayHome'
  BY HomeNext DEF IInv
<1> QED BY <1>1, <1>2, Invariance, PTL DEF Spec

(* One run of a request reaches providers on behalf of one organization.   *)
THEOREM RequestsRunOnce == Spec => []OneRunPerRequest
<1>1. Init => OneRunPerRequest
  BY DEF Init, OneRunPerRequest, Reserved
<1>2. IInv /\ OneRunPerRequest /\ [Next]_vars => OneRunPerRequest'
  BY RunNext DEF IInv
<1> QED BY <1>1, <1>2, Invariance, PTL DEF Spec

(* The rows of a month add up in one currency.                             *)
THEOREM MonthsHaveOneCurrency == Spec => []OneCurrencyPerMonth
<1>1. Init => OneCurrencyPerMonth
  BY DEF Init, OneCurrencyPerMonth, Reserved
<1>2. IInv /\ OneCurrencyPerMonth /\ [Next]_vars => OneCurrencyPerMonth'
  BY CurrencyNext DEF IInv
<1> QED BY <1>1, <1>2, Invariance, PTL DEF Spec

(* Nothing is settled above what was reserved for it.                      *)
THEOREM SettlementsStayWithin == Spec => []SettledWithinReservation
<1>1. Init => SettledWithinReservation
  BY DEF Init, SettledWithinReservation, Reserved
<1>2. IInv /\ SettledWithinReservation /\ [Next]_vars
          => SettledWithinReservation'
  BY SettledNext DEF IInv
<1> QED BY <1>1, <1>2, Invariance, PTL DEF Spec

(* Rows stay, keep their bill, and are final once settled.                 *)
THEOREM LedgerIsFinal == Spec => RowsAreFinal
<1> DEFINE Kept(b) ==
      /\ Reserved(b)'
      /\ ledger[b]'.organization = ledger[b].organization
      /\ ledger[b]'.month = ledger[b].month
      /\ ledger[b]'.reserved = ledger[b].reserved
      /\ ledger[b].state = "SETTLED" => ledger[b]' = ledger[b]
<1>1. ASSUME TypeOK, CallsAreHeld, [Next]_vars, NEW b \in Attempts, Reserved(b)
      PROVE  Kept(b)
  <2>1. ASSUME NEW a \in Attempts, Admitted(a) PROVE Kept(b)
    <3>1. b # a
      BY <1>1, <2>1 DEF Admitted
    <3> QED BY <1>1, <2>1, <3>1, ReservedRow DEF Admitted, Reserved
  <2>2. ASSUME NEW a \in Attempts, Closed(a) PROVE Kept(b)
    <3>1. CASE b = a
      BY <1>1, <2>2, <3>1, RowFields DEF Closed, Closes, Reserved
    <3>2. CASE b # a
      BY <1>1, <2>2, <3>2 DEF Closed, Reserved
    <3> QED BY <3>1, <3>2
  <2>3. CASE ledger' = ledger
    BY <1>1, <2>3 DEF Reserved
  <2> QED BY <1>1, <2>1, <2>2, <2>3, LedgerSteps
<1>2. IInv /\ [Next]_vars => \A b \in Attempts : Reserved(b) => Kept(b)
  BY <1>1 DEF IInv
<1>3. IInv /\ [Next]_vars =>
        [\A a \in Attempts : Reserved(a) => Kept(a)]_vars
  BY <1>2
<1> QED BY <1>3, Invariance, PTL DEF Spec, RowsAreFinal

-----------------------------------------------------------------------------
(* Totals.  Only finitely many rows exist at any time, so they add up.     *)
Entries == {a \in Attempts : Reserved(a)}

LedgerFinite == IsFiniteSet(Entries)

LEMMA FiniteInit == Init => LedgerFinite
<1> SUFFICES ASSUME Init PROVE LedgerFinite
  OBVIOUS
<1>1. Entries = {}
  BY DEF Init, Entries, Reserved
<1> QED BY <1>1, FS_EmptySet DEF LedgerFinite

LEMMA FiniteNext ==
    ASSUME TypeOK, CallsAreHeld, LedgerFinite, [Next]_vars
    PROVE  LedgerFinite'
<1>1. ASSUME NEW a \in Attempts, Admitted(a) PROVE LedgerFinite'
  <2>1. /\ ledger'[a] \in Reservations
        /\ \A b \in Attempts \ {a} : ledger'[b] = ledger[b]
    BY <1>1, ReservedRow DEF Admitted
  <2>2. Entries' = Entries \cup {a}
    BY <2>1, RowFields DEF Entries, Reserved
  <2> QED BY <2>2, FS_AddElement DEF LedgerFinite
<1>2. ASSUME NEW a \in Attempts, Closed(a) PROVE LedgerFinite'
  <2>1. Entries' = Entries
    BY <1>2, RowFields DEF Closed, Closes, Entries, Reserved
  <2> QED BY <2>1 DEF LedgerFinite
<1>3. CASE ledger' = ledger
  BY <1>3 DEF LedgerFinite, Entries, Reserved
<1> QED BY <1>1, <1>2, <1>3, LedgerSteps

LEMMA HeldNat ==
    ASSUME NEW row \in Reservations PROVE Held(row) \in Nat
BY RowFields DEF Held

LEMMA RowsAddUp ==
    ASSUME TypeOK, LedgerFinite, NEW o, NEW m, NEW ps
    PROVE  /\ IsFiniteSet(Rows(o, m, ps))
           /\ \A a \in Rows(o, m, ps) : Held(ledger[a]) \in Nat
           /\ Committed(o, m, ps) \in Nat
<1> DEFINE rows == Rows(o, m, ps)
           f == [a \in rows |-> Held(ledger[a])]
<1>1. rows \in SUBSET Entries
  BY DEF Rows, Entries
<1>2. IsFiniteSet(rows)
  BY <1>1, FS_Subset DEF LedgerFinite
<1>3. \A a \in rows : Held(ledger[a]) \in Nat
  BY HeldNat DEF Rows, Reserved, TypeOK
<1>4. \A a \in rows : f[a] \in Nat
  BY <1>3
<1>5. SumOver(f, rows) \in Nat
  BY <1>2, <1>4, SumNat
<1> QED BY <1>2, <1>3, <1>5 DEF Committed

(* An admission adds its quote to the totals of its organization, month    *)
(* and project, and to no other.                                           *)
Bills(a, o, m, ps) == billTo[a] = o /\ month = m /\ ProjectOf[a] \in ps

LEMMA AdmittedTotal ==
    ASSUME TypeOK, LedgerFinite, NEW a \in Attempts, Admitted(a),
           NEW o, NEW m, NEW ps
    PROVE  Committed(o, m, ps)' =
             IF Bills(a, o, m, ps)
             THEN Committed(o, m, ps) + Quote(Rate(a), Units[a])
             ELSE Committed(o, m, ps)
<1> DEFINE rows == Rows(o, m, ps)
           f == [b \in rows |-> Held(ledger[b])]
           g == [b \in rows' |-> Held(ledger'[b])]
           micros == Quote(Rate(a), Units[a])
<1>1. /\ ~Reserved(a) /\ ledger'[a] \in Reservations
      /\ ledger'[a].organization = billTo[a]
      /\ ledger'[a].month = month
      /\ ledger'[a].state = "DISPATCHED"
      /\ \A b \in Attempts \ {a} : ledger'[b] = ledger[b]
  BY ReservedRow DEF Admitted
<1>2. Held(ledger'[a]) = micros
  BY DEF Admitted, Reserve, Held, TypeOK
<1>3. micros \in Nat
  BY <1>1, <1>2, HeldNat
<1>4. a \notin rows /\ \A b \in rows : f[b] = Held(ledger'[b])
  BY <1>1 DEF Rows
<1>5. Committed(o, m, ps) = SumOver(f, rows)
  BY DEF Committed
<1>6. Committed(o, m, ps)' = SumOver(g, rows')
  BY DEF Committed
<1>7. IsFiniteSet(rows) /\ \A b \in rows : f[b] \in Nat
  BY RowsAddUp
<1>8. CASE Bills(a, o, m, ps)
  <2>1. rows' = rows \cup {a}
    BY <1>1, <1>8, RowFields DEF Rows, Reserved, Bills
  <2>2. g[a] = micros /\ \A b \in rows : g[b] = f[b]
    BY <1>2, <1>4, <2>1
  <2>3. \A b \in rows \cup {a} : g[b] \in Nat
    BY <1>3, <1>7, <2>2
  <2>4. SumOver(g, rows \cup {a}) = SumOver(g, rows) + g[a]
    <3>1. IsFiniteSet(rows) /\ a \notin rows
      BY <1>4, <1>7
    <3> HIDE DEF g, rows
    <3> QED BY <2>3, <3>1, SumAdd
  <2>5. SumOver(g, rows) = SumOver(f, rows)
    BY <2>2, SumSame
  <2> QED BY <1>5, <1>6, <1>8, <2>1, <2>2, <2>4, <2>5
<1>9. CASE ~Bills(a, o, m, ps)
  <2>1. rows' = rows
    BY <1>1, <1>9, RowFields DEF Rows, Reserved, Bills
  <2>2. \A b \in rows : g[b] = f[b]
    BY <1>4, <2>1
  <2>3. SumOver(g, rows) = SumOver(f, rows)
    BY <2>2, SumSame
  <2> QED BY <1>5, <1>6, <1>9, <2>1, <2>3
<1> QED BY <1>8, <1>9

(* Settling and reconciling release what they do not use.                  *)
LEMMA ClosedTotal ==
    ASSUME TypeOK, LedgerFinite, NEW a \in Attempts, Closed(a),
           NEW o, NEW m, NEW ps
    PROVE  Committed(o, m, ps)' <= Committed(o, m, ps)
<1> DEFINE rows == Rows(o, m, ps)
           f == [b \in rows |-> Held(ledger[b])]
           g == [b \in rows' |-> Held(ledger'[b])]
<1>1. /\ Reserved(a) /\ ledger[a] \in Reservations
      /\ Closes(ledger[a], ledger'[a])
      /\ \A b \in Attempts \ {a} : ledger'[b] = ledger[b]
  BY DEF Closed, TypeOK, Reserved
<1>2. rows' = rows
  BY <1>1, RowFields DEF Rows, Reserved, Closes
<1>3. Held(ledger'[a]) \in Nat /\ Held(ledger'[a]) <= Held(ledger[a])
  <2>1. ledger'[a] \in Reservations
    BY <1>1 DEF Closes
  <2>2. Held(ledger[a]) \in Nat /\ Held(ledger'[a]) \in Nat
    BY <1>1, <2>1, HeldNat
  <2>3. CASE ledger'[a] = ledger[a]
    BY <2>2, <2>3
  <2>4. CASE ledger'[a] # ledger[a]
    BY <1>1, <2>1, <2>4, RowFields DEF Closes, Held
  <2> QED BY <2>2, <2>3, <2>4
<1>4. IsFiniteSet(rows) /\ \A b \in rows : Held(ledger[b]) \in Nat
  BY RowsAddUp
<1>5. \A b \in rows : f[b] \in Nat
  BY <1>4
<1>6. \A b \in rows : g[b] \in Nat /\ g[b] <= f[b]
  <2> TAKE b \in rows
  <2>1. b \in Attempts /\ f[b] = Held(ledger[b]) /\ g[b] = Held(ledger'[b])
    BY <1>2 DEF Rows
  <2>2. CASE b = a
    BY <1>3, <2>1, <2>2
  <2>3. CASE b # a
    BY <1>1, <1>5, <2>1, <2>3
  <2> QED BY <2>2, <2>3
<1>7. SumOver(g, rows) <= SumOver(f, rows)
  <2> HIDE DEF f, g, rows
  <2> QED BY <1>4, <1>5, <1>6, SumMonotone
<1> QED BY <1>2, <1>7 DEF Committed

LEMMA SameTotal ==
    ASSUME ledger' = ledger, NEW o, NEW m, NEW ps
    PROVE  Committed(o, m, ps)' = Committed(o, m, ps)
<1>1. Rows(o, m, ps)' = Rows(o, m, ps)
  BY DEF Rows, Reserved
<1> QED BY <1>1 DEF Committed

LEMMA FiniteInvariance == Spec => []LedgerFinite
<1>1. IInv /\ LedgerFinite /\ [Next]_vars => LedgerFinite'
  BY FiniteNext DEF IInv
<1> QED BY FiniteInit, <1>1, Invariance, PTL DEF Spec

(* What an admission may add, by the checks it has passed.                 *)
LEMMA AdmittedWithin ==
    ASSUME TypeOK, LedgerFinite, NEW a \in Attempts, Admitted(a)
    PROVE  LET o == billTo[a]
               p == ProjectOf[a]
               micros == Quote(Rate(a), Units[a])
           IN  /\ Committed(o, month, Projects) + micros <= policy[o].cap
               /\ Committed(o, month, {p}) + micros <= policy[p].cap
<1> DEFINE o == billTo[a]
           p == ProjectOf[a]
           micros == Quote(Rate(a), Units[a])
<1>1. /\ o \in Scopes /\ p \in Scopes
      /\ policy[o] # NoPolicy /\ policy[p] # NoPolicy
  BY ReservedRow DEF Admitted, Reserve, Approved, Ready, Scopes
<1>2. policy[o].cap \in Nat /\ policy[p].cap \in Nat
  BY <1>1, PolicyFields
<1>3. micros \in Nat
  <2>1. policy[o].rate \in Nat /\ policy[p].rate \in Nat
    BY <1>1, PolicyFields
  <2> QED BY <2>1, MaxNat, QuoteNat, BudgetAssumption DEF Rate
<1>4. /\ WithinCap(Committed(o, month, Projects), micros, policy[o].cap)
      /\ WithinCap(Committed(o, month, {p}), micros, policy[p].cap)
  BY DEF Admitted, Reserve, Affordable, OrganizationSpend, ProjectSpend
<1>5. /\ Committed(o, month, Projects) \in Nat
      /\ Committed(o, month, {p}) \in Nat
  BY RowsAddUp
<1> HIDE DEF o, p, micros
<1>6. /\ Committed(o, month, Projects) + micros <= policy[o].cap
      /\ Committed(o, month, {p}) + micros <= policy[p].cap
  BY <1>2, <1>3, <1>4, <1>5 DEF WithinCap
<1> QED BY <1>6 DEF o, p, micros

LEMMA NextAddsUp ==
    ASSUME TypeOK, CallsAreHeld, LedgerFinite, [Next]_vars,
           NEW o, NEW m, NEW ps
    PROVE  Committed(o, m, ps)' \in Nat
<1>1. TypeOK' /\ LedgerFinite'
  BY TypeNext, FiniteNext
<1> DEFINE rows == Rows(o, m, ps)'
           g == [a \in rows |-> Held(ledger'[a])]
<1>2. IsFiniteSet(rows)
  <2>1. rows \in SUBSET Entries'
    BY DEF Rows, Entries
  <2> QED BY <1>1, <2>1, FS_Subset DEF LedgerFinite
<1>3. \A a \in rows : g[a] \in Nat
  BY <1>1, HeldNat DEF Rows, Reserved, TypeOK
<1>4. SumOver(g, rows) \in Nat
  <2> HIDE DEF g, rows
  <2> QED BY <1>2, <1>3, SumNat
<1> QED BY <1>4 DEF Committed

(* How a total can change in one step.                                     *)
LEMMA TotalSteps ==
    ASSUME TypeOK, CallsAreHeld, LedgerFinite, [Next]_vars,
           NEW o, NEW m, NEW ps,
           Committed(o, m, ps)' > Committed(o, m, ps)
    PROVE  \E a \in Attempts :
               /\ Admitted(a)
               /\ Bills(a, o, m, ps)
               /\ Committed(o, m, ps)' =
                      Committed(o, m, ps) + Quote(Rate(a), Units[a])
<1>1. Committed(o, m, ps) \in Nat
  BY RowsAddUp
<1>2. Committed(o, m, ps)' \in Nat
  BY NextAddsUp
<1>3. ASSUME NEW a \in Attempts, Closed(a) PROVE FALSE
  BY <1>1, <1>2, <1>3, ClosedTotal
<1>4. CASE ledger' = ledger
  BY <1>1, <1>2, <1>4, SameTotal
<1>5. ASSUME NEW a \in Attempts, Admitted(a)
      PROVE  /\ Bills(a, o, m, ps)
             /\ Committed(o, m, ps)' =
                    Committed(o, m, ps) + Quote(Rate(a), Units[a])
  BY <1>1, <1>2, <1>5, AdmittedTotal
<1> QED BY <1>3, <1>4, <1>5, LedgerSteps

(* No interleaving of admissions, settlements, approvals, transfers and    *)
(* deletions takes a month's spending of an organization or a project past *)
(* the cap in force when it grows.                                         *)
THEOREM SpendingStaysWithinCaps == Spec => SpendGrowsWithinCaps
<1> DEFINE Within(o, m) ==
      /\ Committed(o, m, Projects)' > Committed(o, m, Projects) =>
             Committed(o, m, Projects)' <= policy[o].cap
      /\ \A p \in Projects :
             Committed(o, m, {p})' > Committed(o, m, {p}) =>
                 Committed(o, m, {p})' <= policy[p].cap
<1>1. ASSUME TypeOK, CallsAreHeld, LedgerFinite, [Next]_vars, NEW o, NEW m
      PROVE  Within(o, m)
  <2>1. ASSUME Committed(o, m, Projects)' > Committed(o, m, Projects)
        PROVE  Committed(o, m, Projects)' <= policy[o].cap
    <3>1. PICK a \in Attempts :
              /\ Admitted(a)
              /\ Bills(a, o, m, Projects)
              /\ Committed(o, m, Projects)' =
                   Committed(o, m, Projects) + Quote(Rate(a), Units[a])
      BY <1>1, <2>1, TotalSteps
    <3> QED BY <1>1, <3>1, AdmittedWithin DEF Bills
  <2>2. ASSUME NEW p \in Projects,
               Committed(o, m, {p})' > Committed(o, m, {p})
        PROVE  Committed(o, m, {p})' <= policy[p].cap
    <3>1. PICK a \in Attempts :
              /\ Admitted(a)
              /\ Bills(a, o, m, {p})
              /\ Committed(o, m, {p})' =
                   Committed(o, m, {p}) + Quote(Rate(a), Units[a])
      BY <1>1, <2>2, TotalSteps
    <3>2. billTo[a] = o /\ month = m /\ ProjectOf[a] = p
      BY <3>1 DEF Bills
    <3> QED BY <1>1, <3>1, <3>2, AdmittedWithin
  <2> QED BY <2>1, <2>2
<1>2. IInv /\ LedgerFinite /\ [Next]_vars =>
        [\A o \in Organizations, m \in 1 .. MaxMonth : Within(o, m)]_vars
  BY <1>1 DEF IInv
<1> QED
  BY <1>2, Invariance, FiniteInvariance, PTL DEF Spec, SpendGrowsWithinCaps

(* A step that takes an organization's spending across its warning or its  *)
(* cap leaves the marker of that crossing.                                 *)
THEOREM CrossingsLeaveMarkers == Spec => CrossingsAreAlerted
<1> DEFINE Alerted(o, t) ==
      /\ policy[o]' = policy[o]
      /\ month' = month
      /\ OrganizationSpend(o) * 100 < policy[o].cap * t
      /\ OrganizationSpend(o)' * 100 >= policy[o].cap * t
      => <<o, month, t>> \in alerts'
<1>1. ASSUME TypeOK, CallsAreHeld, LedgerFinite, [Next]_vars,
             NEW o \in {s \in Organizations : policy[s] # NoPolicy},
             NEW t \in {100, policy[o].warning}
      PROVE  Alerted(o, t)
  <2> SUFFICES ASSUME month' = month,
                      OrganizationSpend(o) * 100 < policy[o].cap * t,
                      OrganizationSpend(o)' * 100 >= policy[o].cap * t
               PROVE  <<o, month, t>> \in alerts'
    OBVIOUS
  <2> DEFINE old == Committed(o, month, Projects)
             new == Committed(o, month, Projects)'
  <2>1. OrganizationSpend(o) = old /\ OrganizationSpend(o)' = new
    BY DEF OrganizationSpend, Committed, Rows
  <2>2. policy[o].cap \in Nat /\ t \in Nat /\ policy[o].cap * t \in Nat
    <3>1. policy[o].cap \in Nat /\ policy[o].warning \in Nat
      BY <1>1, PolicyFields DEF Scopes
    <3> QED BY <3>1
  <2>3. new > old
    <3>1. old \in Nat /\ new \in Nat
      BY <1>1, RowsAddUp, NextAddsUp
    <3> HIDE DEF old, new
    <3> QED BY <2>1, <2>2, <3>1
  <2>4. PICK a \in Attempts :
            /\ Admitted(a)
            /\ Bills(a, o, month, Projects)
            /\ new = old + Quote(Rate(a), Units[a])
    BY <1>1, <2>3, TotalSteps
  <2>5. Crossed(o, old, Quote(Rate(a), Units[a])) \subseteq alerts'
    BY <2>1, <2>4 DEF Admitted, Reserve, Bills
  <2>6. <<o, month, t>> \in Crossed(o, old, Quote(Rate(a), Units[a]))
    BY <2>1, <2>4 DEF Crossed
  <2> QED BY <2>5, <2>6
<1>2. IInv /\ LedgerFinite /\ [Next]_vars =>
        [\A o \in {s \in Organizations : policy[s] # NoPolicy} :
         \A t \in {100, policy[o].warning} : Alerted(o, t)]_vars
  BY <1>1 DEF IInv
<1> QED
  BY <1>2, Invariance, FiniteInvariance, PTL DEF Spec, CrossingsAreAlerted
=============================================================================
