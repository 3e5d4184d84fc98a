------------------------- MODULE UrlOperationProofs -------------------------
(***************************************************************************)
(* Proofs about UrlOperation, for any managers, requests and workspaces.   *)
(*                                                                         *)
(* The argument follows the claim.  A claim raises the version of the row, *)
(* so its confirmation never matches a row again (Spent); whoever holds it *)
(* therefore holds it alone (Alone), and the row it claimed stays          *)
(* provider_pending with that confirmation until the holder, or an         *)
(* operator once no holder is left, writes the outcome (Owned).  What else *)
(* may write the outcome is a repeat of the same request by the same       *)
(* manager, and keys exclude that while the holder lives (Keyed).          *)
(***************************************************************************)
EXTENDS UrlOperation, TLAPS

Holding == {"claimed", "threw", "called", "answered", "completing", "rejecting"}
Holds(q) == request[q].phase \in Holding

(* versions number the writes, and a row names the confirmation of its own *)
RowSound ==
    row # NoRow =>
      /\ row.id <= row.version /\ row.version <= clock
      /\ row.token # NoToken => row.token.id = row.id

(* what a confirmation names is past or present *)
Known(t) == t.id <= clock /\ t.content.segments <= content.segments

TokensKnown ==
    /\ \A q \in Requests : Live(q) => Known(Token(q))
    /\ \A c \in calls : Known(c.token)

(* a claimed confirmation matches no row to come *)
Spent(t) == row # NoRow /\ row.id = t.id => t.version < row.version

ClaimsSpent ==
    /\ \A q \in Requests : Holds(q) => Spent(Token(q))
    /\ \A c \in calls : Spent(c.token)

Alone ==
    /\ \A p, q \in Requests : Holds(p) /\ Holds(q) /\ Token(p) = Token(q) => p = q
    /\ \A q \in Requests : \A c \in calls :
         Holds(q) /\ c.token = Token(q) => request[q].called /\ c = AttemptOf(q)

Keyed ==
    /\ \A q \in Requests : Live(q) => KeyOf(q) \in keys
    /\ \A p, q \in Requests : Live(p) /\ Live(q) /\ KeyOf(p) = KeyOf(q) => p = q

(* what a request knows of itself *)
Aware(q) ==
    /\ request[q].phase = "fresh" => Token(q).state # "provider_pending"
    /\ request[q].phase \in {"claimed", "threw", "rejecting"} => ~request[q].called
    /\ request[q].phase = "called" => request[q].called
    /\ Holds(q) /\ request[q].called => AttemptOf(q) \in calls
    /\ request[q].phase = "completing" => \E r \in receipts : r.token = Token(q)
    /\ Live(q) /\ ~Holds(q) => ~request[q].called

Owned(q) ==
    Holds(q) =>
      \/ /\ Current(q)
         /\ row.state = "provider_pending"
         /\ row.token = Token(q)
         /\ workspace = request[q].workspace
      \/ /\ ~Current(q)
         /\ Token(q).content.segments < content.segments

Inv ==
    /\ TypeOK /\ RowSound /\ TokensKnown /\ ClaimsSpent /\ Alone /\ Keyed
    /\ \A q \in Requests : Aware(q) /\ Owned(q)
    /\ receipts \subseteq calls
    /\ OutcomesAreTrue /\ ConfirmationsPayOnce

-----------------------------------------------------------------------------
(* Types. *)

LEMMA InitType == Init => TypeOK
  BY UrlAssumption DEF Init, TypeOK, Rows, States, Contents, Idle

(* An update of the row keeps its type. *)
LEMMA WrittenTyped ==
  ASSUME TypeOK, NEW matches \in BOOLEAN, NEW s \in States, NEW t, Written(matches, s, t),
         matches => row # NoRow /\ t \in Tokens \cup {NoToken}
  PROVE  row' \in Rows \cup {NoRow} /\ clock' \in Nat
<1>1. CASE matches
  <2>1. clock' = clock + 1 /\ row' = [row EXCEPT !.state = s, !.token = t, !.version = clock + 1]
    BY <1>1 DEF Written
  <2>2. row \in Rows /\ clock \in Nat
    BY <1>1 DEF TypeOK
  <2>3. clock + 1 \in Nat /\ t \in Tokens \cup {NoToken}
    BY <2>2, <1>1
  <2>4. row' \in Rows
    BY <2>1, <2>2, <2>3 DEF Rows
  <2> QED BY <2>1, <2>3, <2>4
<1>2. CASE ~matches
  BY <1>2 DEF Written, TypeOK
<1> QED BY <1>1, <1>2

(* A request of the right type, and its updates. *)
LEMMA RunningTyped ==
  ASSUME TypeOK, NEW q \in Requests, Live(q)
  PROVE  /\ request[q] \in Running
         /\ Token(q) \in Tokens /\ KeyOf(q) \in [actor: Managers, workspace: Workspaces, token: Tokens]
         /\ AttemptOf(q) \in Attempts
<1>1. request[q] \in Running
  BY DEF TypeOK, Live, Idle
<1> QED BY <1>1 DEF Running, Token, KeyOf, AttemptOf, Attempts

LEMMA ShownTyped ==
  ASSUME TypeOK
  PROVE  Shown \subseteq Tokens
<1>1. ASSUME NEW q \in Requests, Live(q) PROVE Token(q) \in Tokens
  BY <1>1, RunningTyped
<1>2. ASSUME NEW c \in calls PROVE c.token \in Tokens
  BY <1>2 DEF TypeOK, Attempts
<1>3. ASSUME row # NoRow, NEW a \in Actions PROVE Fingerprint(a) \in Tokens
  BY <1>3 DEF TypeOK, Fingerprint, Tokens, Rows
<1> QED BY <1>1, <1>2, <1>3 DEF Shown

LEMMA StepTyped ==
  ASSUME TypeOK, NEW q \in Requests, Live(q), NEW p \in Phases \ {"idle"}, Step(q, p)
  PROVE  request' \in [Requests -> Running \cup {Idle}]
  BY RunningTyped DEF TypeOK, Step, Running

LEMMA FinishTyped ==
  ASSUME TypeOK, NEW q \in Requests, Finish(q)
  PROVE  request' \in [Requests -> Running \cup {Idle}]
  BY DEF TypeOK, Finish

LEMMA RouteType ==
  ASSUME TypeOK, NEW q \in Requests, RouteStep(q)
  PROVE  TypeOK'
<1>1. ASSUME NEW m \in Managers, Confirm(q, m) PROVE TypeOK'
  <2>1. PICK t \in Shown :
          /\ keys' = keys \cup {[actor |-> m, workspace |-> workspace, token |-> t]}
          /\ request' = [request EXCEPT ![q] =
              [phase |-> IF t.action = "retranslate" THEN "admitted" ELSE "reviewing",
               actor |-> m, workspace |-> workspace, token |-> t,
               claimed |-> 0, called |-> FALSE]]
    BY <1>1 DEF Confirm
  <2>2. t \in Tokens
    BY ShownTyped
  <2>3. inputs' \in Nat
    BY <1>1 DEF Confirm, TypeOK
  <2> QED BY <1>1, <2>1, <2>2, <2>3 DEF Confirm, TypeOK, Others, Running, Phases
<1>2. CASE Recover(q)
  <2>1. Live(q) BY <1>2 DEF Recover, Live
  <2>2. request' \in [Requests -> Running \cup {Idle}]
    BY <1>2, <2>1, StepTyped, FinishTyped DEF Recover, Phases
  <2>3. row' \in Rows \cup {NoRow} /\ clock' \in Nat
    BY <1>2, <2>1, RunningTyped, WrittenTyped DEF Recover, TypeOK, Entitled, Pending, States
  <2> QED BY <1>2, <2>2, <2>3 DEF Recover, TypeOK, Others
<1>3. CASE Review(q)
  BY <1>3, StepTyped, FinishTyped DEF Review, TypeOK, Others, Live, Phases
<1>4. CASE Delete(q)
  <2>1. content' \in Contents
    BY <1>4 DEF Delete, TypeOK, Contents
  <2> QED BY <1>4, <2>1, FinishTyped DEF Delete, TypeOK
<1>5. CASE Claim(q)
  <2>1. Live(q) BY <1>5 DEF Claim, Live
  <2>2. row' \in Rows \cup {NoRow} /\ clock' \in Nat
    BY <1>5, <2>1, RunningTyped, WrittenTyped DEF Claim, TypeOK, Claimable, Entitled, Unchanged, Current, States
  <2>3. request' \in [Requests -> Running \cup {Idle}]
    BY <1>5, <2>1, RunningTyped, FinishTyped DEF Claim, TypeOK, Running, Phases
  <2> QED BY <1>5, <2>2, <2>3 DEF Claim, TypeOK, Others
<1>6. CASE Dispatch(q)
  <2>1. Live(q) BY <1>6 DEF Dispatch, Live
  <2>2. [request[q] EXCEPT !.phase = "called", !.called = TRUE] \in Running
    BY <2>1, RunningTyped DEF Running, Phases
  <2>3. request' = [request EXCEPT ![q] = [request[q] EXCEPT !.phase = "called", !.called = TRUE]]
    BY <1>6 DEF Dispatch
  <2>4. request' \in [Requests -> Running \cup {Idle}]
    BY <2>2, <2>3 DEF TypeOK
  <2> QED BY <1>6, <2>1, <2>4, RunningTyped DEF Dispatch, TypeOK, Others
<1>7. CASE Refuse(q)
  BY <1>7, StepTyped DEF Refuse, TypeOK, Others, Live, Phases
<1>8. CASE Throw(q)
  BY <1>8, StepTyped, FinishTyped DEF Throw, TypeOK, Others, Live, Phases
<1>9. CASE MarkFailed(q)
  <2>1. row' \in Rows \cup {NoRow} /\ clock' \in Nat
    BY <1>9, WrittenTyped DEF MarkFailed, TypeOK, Current, Pending, States, Rows
  <2> QED BY <1>9, <2>1, FinishTyped DEF MarkFailed, TypeOK, Others
<1>10. CASE Store(q)
  <2>1. Live(q) BY <1>10 DEF Store, Live
  <2>2. content' \in Contents
    BY <1>10 DEF Store, TypeOK, Contents
  <2>3. request' \in [Requests -> Running \cup {Idle}]
    BY <1>10, <2>1, StepTyped, FinishTyped DEF Store, Phases
  <2> QED BY <1>10, <2>1, <2>2, <2>3, RunningTyped DEF Store, TypeOK
<1>11. CASE AnswerEmpty(q)
  BY <1>11, StepTyped DEF AnswerEmpty, TypeOK, Others, Live, Phases
<1>12. CASE Judge(q)
  <2>1. Outcome(q) \in {"completing", "unknown", "rejecting"}
    BY DEF Outcome
  <2> QED BY <1>12, <2>1, StepTyped, FinishTyped DEF Judge, TypeOK, Others, Live, Phases
<1>13. CASE RecordOutcome(q)
  <2>1. row' \in Rows \cup {NoRow} /\ clock' \in Nat
    BY <1>13, WrittenTyped DEF RecordOutcome, TypeOK, Current, States, Rows
  <2> QED BY <1>13, <2>1, FinishTyped DEF RecordOutcome, TypeOK, Others
<1>14. CASE Die(q)
  BY <1>14, FinishTyped DEF Die, TypeOK, Others
<1> QED BY <1>1, <1>2, <1>3, <1>4, <1>5, <1>6, <1>7, <1>8, <1>9, <1>10, <1>11, <1>12, <1>13, <1>14
        DEF RouteStep

LEMMA OtherType ==
  ASSUME TypeOK, OtherStep
  PROVE  TypeOK'
<1>1. ASSUME NEW k \in keys, Forget(k) PROVE TypeOK'
  BY <1>1 DEF Forget, TypeOK, Others
<1>2. CASE Visit \/ Sync
  <2>1. /\ clock' = clock + 1
        /\ inputs' \in Nat
    BY <1>2 DEF Visit, Sync, Event, TypeOK
  <2>2. \A s \in States : Seen(s) \in Rows
    BY DEF Seen, Rows, TypeOK
  <2>3. ASSUME row # NoRow PROVE row \in Rows /\ clock + 1 \in Nat
    BY <2>3 DEF TypeOK
  <2>4. CASE row = NoRow
    <3>1. row' = Seen("none") \/ row' = Seen("synced")
      BY <1>2, <2>4 DEF Visit, Sync
    <3>2. row' \in Rows
      BY <3>1, <2>2 DEF States
    <3> QED BY <1>2, <2>1, <3>2 DEF Visit, Sync, Event, Around, TypeOK
  <2>5. CASE row # NoRow
    <3>1. row' \in Rows
      BY <1>2, <2>3, <2>5 DEF Visit, Sync, Rows, States
    <3> QED BY <1>2, <2>1, <3>1 DEF Visit, Sync, Event, Around, TypeOK
  <2> QED BY <2>4, <2>5
<1>3. ASSUME NEW part \in {"segments", "rules", "settings"}, Edit(part) PROVE TypeOK'
  BY <1>3 DEF Edit, Event, Around, TypeOK, Contents
<1>4. CASE RemoveLanguage
  <2>1. content \in Contents /\ content' = [content EXCEPT !.segments = @ + 1]
    BY <1>4 DEF RemoveLanguage, TypeOK
  <2>2. content' \in Contents
    BY <2>1 DEF Contents
  <2>3. active' \in BOOLEAN /\ row' \in Rows \cup {NoRow}
    BY <1>4 DEF RemoveLanguage
  <2> QED BY <1>4, <2>2, <2>3 DEF RemoveLanguage, Event, Around, TypeOK
<1>5. CASE AddLanguage
  BY <1>5 DEF AddLanguage, Around, TypeOK
<1>6. ASSUME NEW m \in Managers, Dismiss(m) PROVE TypeOK'
  BY <1>6 DEF Dismiss, Event, Around, TypeOK
<1>7. CASE Transfer
  BY <1>7, UrlAssumption DEF Transfer, Event, Around, TypeOK
<1>8. CASE Reconcile
  <2>1. row \in Rows BY <1>8 DEF Reconcile, Pending, TypeOK
  <2>2. row.token \in Tokens \cup {NoToken} BY <2>1 DEF Rows
  <2>3. row' \in Rows \cup {NoRow} /\ clock' \in Nat
    BY <1>8, <2>2, WrittenTyped DEF Reconcile, Pending, States
  <2> QED BY <1>8, <2>2, <2>3 DEF Reconcile, Around, TypeOK
<1> QED BY <1>1, <1>2, <1>3, <1>4, <1>5, <1>6, <1>7, <1>8 DEF OtherStep

THEOREM TypeCorrect == Spec => []TypeOK
<1>1. TypeOK /\ [Next]_vars => TypeOK'
  <2> SUFFICES ASSUME TypeOK, [Next]_vars PROVE TypeOK'
    OBVIOUS
  <2>1. CASE OtherStep BY <2>1, OtherType
  <2>2. ASSUME NEW q \in Requests, RouteStep(q) PROVE TypeOK' BY <2>2, RouteType
  <2>3. CASE UNCHANGED vars BY <2>3 DEF vars, TypeOK
  <2> QED BY <2>1, <2>2, <2>3 DEF Next
<1> QED BY InitType, <1>1, PTL DEF Spec

-----------------------------------------------------------------------------
(* The invariant. *)

LEMMA InitInv == Init => Inv
<1> SUFFICES ASSUME Init PROVE Inv
  OBVIOUS
<1>1. TypeOK
  BY InitType
<1>2. RowSound /\ TokensKnown /\ ClaimsSpent
  BY DEF Init, RowSound, TokensKnown, ClaimsSpent, Live, Idle, Holds, Holding
<1>3. Alone /\ Keyed /\ \A q \in Requests : Aware(q) /\ Owned(q)
  BY DEF Init, Alone, Keyed, Aware, Owned, Live, Idle, Holds, Holding
<1>4. receipts \subseteq calls /\ OutcomesAreTrue /\ ConfirmationsPayOnce
  BY DEF Init, OutcomesAreTrue, ConfirmationsPayOnce
<1> QED BY <1>1, <1>2, <1>3, <1>4 DEF Inv

(* What a request's record may be, for the other proofs. *)
LEMMA PhaseOf ==
  ASSUME TypeOK, NEW q \in Requests
  PROVE  /\ Holds(q) => Live(q)
         /\ ~Live(q) => request[q] = Idle
         /\ Live(q) => request[q].phase \in Phases \ {"idle"}
  BY DEF TypeOK, Holds, Holding, Live, Idle, Running, Phases

Stage == <<row, clock, content, workspace, calls, receipts, cleared>>

(* A request that ends, leaving everything else as it was, disturbs nothing. *)
LEMMA EndKeeps ==
  ASSUME Inv, TypeOK', NEW q \in Requests, Live(q), Finish(q), UNCHANGED Stage,
         keys' = keys \/ keys' = keys \ {KeyOf(q)}
  PROVE  Inv'
<1>1. \A p \in Requests : request'[p] = IF p = q THEN Idle ELSE request[p]
  BY DEF Finish, Inv, TypeOK
<1>2. ASSUME NEW p \in Requests, Live(p)' 
      PROVE  /\ p # q /\ Live(p) /\ Token(p)' = Token(p) /\ KeyOf(p)' = KeyOf(p)
             /\ AttemptOf(p)' = AttemptOf(p) /\ request'[p] = request[p]
  BY <1>1, <1>2 DEF Live, Token, KeyOf, AttemptOf, Idle
<1>3. ASSUME NEW p \in Requests, Holds(p)' PROVE Holds(p) /\ Live(p)'
  BY <1>1, <1>3 DEF Holds, Holding, Idle, Live
<1>4. RowSound' /\ OutcomesAreTrue' /\ ConfirmationsPayOnce' /\ (receipts \subseteq calls)'
  BY DEF Inv, Stage, RowSound, OutcomesAreTrue, ConfirmationsPayOnce, Open
<1>5. TokensKnown'
  BY <1>2 DEF Inv, Stage, TokensKnown, Known
<1>6. ClaimsSpent'
  BY <1>2, <1>3 DEF Inv, Stage, ClaimsSpent, Spent
<1>7. Alone'
  BY <1>2, <1>3 DEF Inv, Stage, Alone
<1>8. Keyed'
  BY <1>2 DEF Inv, Keyed
<1>9. ASSUME NEW p \in Requests PROVE Aware(p)' /\ Owned(p)'
  <2>1. CASE p = q
    BY <1>1, <2>1 DEF Aware, Owned, Holds, Holding, Live, Idle
  <2>2. CASE p # q
    BY <1>1, <2>2 DEF Inv, Stage, Aware, Owned, Holds, Live, Token, AttemptOf, Current
  <2> QED BY <2>1, <2>2
<1> QED BY <1>4, <1>5, <1>6, <1>7, <1>8, <1>9 DEF Inv

(* A request that takes a step of its own, neither claiming nor calling. *)
LEMMA StepKeeps ==
  ASSUME Inv, TypeOK', NEW q \in Requests, Live(q), NEW p, Step(q, p), UNCHANGED Stage,
         UNCHANGED keys,
         p # "idle",
         p \in Holding <=> Holds(q),
         p = "fresh" => Token(q).state # "provider_pending",
         p \in {"claimed", "threw", "rejecting"} => ~request[q].called,
         p = "called" => request[q].called,
         p = "completing" => \E r \in receipts : r.token = Token(q)
  PROVE  Inv'
<1>1. \A x \in Requests : request'[x] = IF x = q THEN [request[q] EXCEPT !.phase = p] ELSE request[x]
  BY DEF Step, Inv, TypeOK
<1>0. request[q] \in Running
  BY RunningTyped DEF Inv
<1>2. ASSUME NEW x \in Requests
      PROVE  /\ Live(x)' <=> Live(x)
             /\ Holds(x)' <=> Holds(x)
             /\ Token(x)' = Token(x) /\ KeyOf(x)' = KeyOf(x)
             /\ AttemptOf(x)' = AttemptOf(x) /\ (request'[x].called <=> request[x].called)
             /\ request'[x].workspace = request[x].workspace
             /\ request'[x].phase = IF x = q THEN p ELSE request[x].phase
  <2>1. CASE x = q
    BY <1>0, <1>1, <2>1 DEF Live, Holds, Token, KeyOf, AttemptOf, Running
  <2>2. CASE x # q
    BY <1>1, <2>2 DEF Live, Holds, Token, KeyOf, AttemptOf
  <2> QED BY <2>1, <2>2
<1>4. RowSound' /\ OutcomesAreTrue' /\ ConfirmationsPayOnce' /\ (receipts \subseteq calls)'
  BY DEF Inv, Stage, RowSound, OutcomesAreTrue, ConfirmationsPayOnce, Open
<1>5. TokensKnown'
  BY <1>2 DEF Inv, Stage, TokensKnown, Known
<1>6. ClaimsSpent'
  BY <1>2 DEF Inv, Stage, ClaimsSpent, Spent
<1>7. Alone'
  BY <1>2 DEF Inv, Stage, Alone
<1>8. Keyed'
  BY <1>2 DEF Inv, Keyed
<1>9. ASSUME NEW x \in Requests PROVE Aware(x)' /\ Owned(x)'
  <2>1. Owned(x)'
    BY <1>2 DEF Inv, Stage, Owned, Current
  <2>0. Aware(x) /\ calls' = calls /\ receipts' = receipts
    BY DEF Inv, Stage
  <2>2. CASE x = q
    BY <1>2, <2>0, <2>1, <2>2 DEF Aware
  <2>3. CASE x # q
    BY <1>2, <2>0, <2>1, <2>3 DEF Aware
  <2> QED BY <2>1, <2>2, <2>3
<1> QED BY <1>4, <1>5, <1>6, <1>7, <1>8, <1>9 DEF Inv

-----------------------------------------------------------------------------
(* The row: rewritten under a new version, removed, or created anew. *)

RowMove ==
  \/ row' = row /\ clock' = clock
  \/ row' = NoRow /\ clock' = clock
  \/ /\ clock' = clock + 1
     /\ row' \in Rows
     /\ row'.version = clock + 1
     /\ \/ row # NoRow /\ row'.id = row.id
        \/ row = NoRow /\ row'.id = clock + 1
     /\ row'.token # NoToken => row'.token.id = row'.id

LEMMA MoveKeeps ==
  ASSUME TypeOK, RowSound, RowMove
  PROVE  /\ RowSound'
         /\ \A t \in Tokens : Known(t) /\ Spent(t) => Spent(t)'
<1>1. clock \in Nat /\ (row # NoRow => row \in Rows)
  BY DEF TypeOK
<1>2. row # NoRow => row.id \in Nat /\ row.version \in Nat
  BY <1>1 DEF Rows
<1>3. CASE row' = row /\ clock' = clock
  BY <1>3 DEF RowSound, Spent
<1>4. CASE row' = NoRow
  BY <1>4 DEF RowSound, Spent
<1>5. CASE /\ clock' = clock + 1
           /\ row' \in Rows
           /\ row'.version = clock + 1
           /\ row # NoRow /\ row'.id = row.id
           /\ row'.token # NoToken => row'.token.id = row'.id
  <2>1. RowSound'
    BY <1>1, <1>2, <1>5 DEF RowSound
  <2>2. ASSUME NEW t \in Tokens, Spent(t) PROVE Spent(t)'
    <3>1. t.version \in Nat
      BY DEF Tokens
    <3> QED BY <1>1, <1>2, <1>5, <2>2, <3>1 DEF RowSound, Spent
  <2> QED BY <2>1, <2>2
<1>6. CASE /\ clock' = clock + 1
           /\ row' \in Rows
           /\ row'.version = clock + 1
           /\ row = NoRow /\ row'.id = clock + 1
           /\ row'.token # NoToken => row'.token.id = row'.id
  <2>1. RowSound'
    BY <1>1, <1>6 DEF RowSound
  <2>2. ASSUME NEW t \in Tokens, Known(t) PROVE Spent(t)'
    <3>1. t.id \in Nat
      BY DEF Tokens
    <3> QED BY <1>1, <1>6, <2>2, <3>1 DEF Known, Spent
  <2> QED BY <2>1, <2>2
<1> QED BY <1>3, <1>4, <1>5, <1>6 DEF RowMove

(* clocks and texts only move on *)
Onward == clock <= clock' /\ content.segments <= content'.segments

LEMMA KnownKeeps ==
  ASSUME TypeOK, TypeOK', Onward, NEW t \in Tokens, Known(t)
  PROVE  Known(t)'
<1>1. /\ t.id \in Nat /\ t.content.segments \in Nat
      /\ clock \in Nat /\ clock' \in Nat
      /\ content.segments \in Nat /\ content'.segments \in Nat
  BY DEF TypeOK, Tokens, Contents
<1> QED BY <1>1 DEF Known, Onward

LEMMA CallTyped ==
  ASSUME TypeOK, NEW c \in calls
  PROVE  c.token \in Tokens
  BY DEF TypeOK, Attempts

(* One request holds the row's confirmation. *)
LEMMA Sole ==
  ASSUME Inv, NEW p \in Requests, NEW q \in Requests, Holds(p), Holds(q), Current(p), Current(q)
  PROVE  p = q
<1>1. Token(p) = row.token /\ Token(q) = row.token
  BY DEF Inv, Owned
<1> QED BY <1>1 DEF Inv, Alone

(* Steps of everyone but the requests. *)
LEMMA OutsideKeeps ==
  ASSUME Inv, TypeOK', UNCHANGED <<request, calls, receipts>>, RowMove, Onward,
         \A q \in Requests : Live(q) => KeyOf(q) \in keys',
         \A q \in Requests : Owned(q)',
         OutcomesAreTrue'
  PROVE  Inv'
<1>1. \A q \in Requests :
         /\ Live(q)' <=> Live(q)
         /\ Holds(q)' <=> Holds(q)
         /\ Token(q)' = Token(q) /\ KeyOf(q)' = KeyOf(q) /\ AttemptOf(q)' = AttemptOf(q)
  BY DEF Live, Holds, Token, KeyOf, AttemptOf
<1>2. \A q \in Requests : Live(q) => Token(q) \in Tokens
  BY RunningTyped DEF Inv
<1>3. \A q \in Requests : Holds(q) => Live(q)
  BY PhaseOf DEF Inv
<1>4. TokensKnown'
  BY <1>1, <1>2, KnownKeeps, CallTyped DEF Inv, TokensKnown
<1>5. ClaimsSpent'
  BY <1>1, <1>2, <1>3, MoveKeeps, CallTyped DEF Inv, ClaimsSpent, TokensKnown
<1>6. Alone' /\ Keyed'
  BY <1>1 DEF Inv, Alone, Keyed
<1>7. \A q \in Requests : Aware(q)'
  BY <1>1 DEF Inv, Aware
<1>8. RowSound' /\ ConfirmationsPayOnce' /\ (receipts \subseteq calls)'
  BY MoveKeeps DEF Inv, ConfirmationsPayOnce
<1> QED BY <1>4, <1>5, <1>6, <1>7, <1>8 DEF Inv

LEMMA RowUpdated ==
  ASSUME row \in Rows, clock \in Nat, NEW s \in States, NEW t \in Tokens \cup {NoToken},
         row' = [row EXCEPT !.state = s, !.token = t, !.version = clock + 1]
  PROVE  /\ row' \in Rows /\ row' # NoRow /\ row'.id = row.id /\ row'.version = clock + 1
         /\ row'.state = s /\ row'.token = t
<1>1. clock + 1 \in Nat
  OBVIOUS
<1>2. row' \in Rows
  BY <1>1 DEF Rows
<1> QED BY <1>2, RowAssumption DEF Rows

LEMMA OtherKeeps ==
  ASSUME Inv, TypeOK', OtherStep
  PROVE  Inv'
<1>0. /\ clock \in Nat /\ content.segments \in Nat /\ content.rules \in Nat
      /\ content.settings \in Nat
      /\ content \in Contents
      /\ row # NoRow => row \in Rows /\ row.version \in Nat
      /\ row # NoRow /\ row.token # NoToken => row.token.id = row.id
  BY DEF Inv, TypeOK, Contents, Rows, RowSound
<1>1. ASSUME NEW k \in keys, Forget(k) PROVE Inv'
  <2>1. /\ UNCHANGED <<request, calls, receipts>> /\ RowMove /\ Onward
        /\ \A q \in Requests : Live(q) => KeyOf(q) \in keys'
    BY <1>0, <1>1 DEF Forget, Others, RowMove, Onward, Inv, Keyed
  <2>2. \A q \in Requests : Owned(q)'
    BY <1>1 DEF Forget, Others, Inv, Owned, Holds, Current, Token
  <2>3. OutcomesAreTrue'
    BY <1>1 DEF Forget, Others, Inv, OutcomesAreTrue, Open
  <2> QED BY <2>1, <2>2, <2>3, OutsideKeeps
<1>2. ASSUME UNCHANGED <<row, clock, workspace, keys, request, calls, receipts, cleared>>,
             content' = content
                \/ \E part \in {"segments", "rules", "settings"} :
                     content' = [content EXCEPT ![part] = @ + 1]
      PROVE  Inv'
  <2>1. content'.segments = content.segments \/ content'.segments = content.segments + 1
    BY <1>0, <1>2 DEF Contents
  <2>2. /\ RowMove /\ Onward
        /\ \A q \in Requests : Live(q) => KeyOf(q) \in keys'
    BY <1>0, <1>2, <2>1 DEF RowMove, Onward, Inv, Keyed
  <2>3. ASSUME NEW q \in Requests PROVE Owned(q)'
    <3>1. Holds(q) => Token(q).content.segments \in Nat
      BY PhaseOf, RunningTyped DEF Inv, Tokens, Contents
    <3> QED BY <1>0, <1>2, <2>1, <3>1 DEF Inv, Owned, Holds, Current, Token
  <2>4. OutcomesAreTrue'
    BY <1>2 DEF Inv, OutcomesAreTrue, Open
  <2> QED BY <1>2, <2>2, <2>3, <2>4, OutsideKeeps
<1>3. CASE \/ \E part \in {"segments", "rules", "settings"} : Edit(part)
           \/ AddLanguage
           \/ \E m \in Managers : Dismiss(m)
  BY <1>2, <1>3 DEF Edit, AddLanguage, Dismiss, Event, Around
<1>4. CASE Visit \/ Sync
  <2>1. UNCHANGED <<keys, request, calls, receipts, content, workspace, cleared>>
    BY <1>4 DEF Visit, Sync, Event, Around
  <2>2. clock' = clock + 1
    BY <1>4 DEF Visit, Sync
  <2>3. CASE row = NoRow
    <3>1. row' = Seen("none") \/ row' = Seen("synced")
      BY <1>4, <2>3 DEF Visit, Sync
    <3>2. /\ row' # NoRow /\ row'.id = clock + 1 /\ row'.version = clock + 1
          /\ row'.token = NoToken /\ row'.state \in {"none", "synced"} /\ row' \in Rows
      BY <1>0, <3>1, RowAssumption DEF Seen, Rows, States
    <3>3. RowMove /\ Onward
      BY <1>0, <2>1, <2>2, <2>3, <3>2 DEF RowMove, Onward
    <3>4. ASSUME NEW q \in Requests, Holds(q) PROVE Owned(q)'
      <4>1. Token(q).id \in Nat /\ Token(q).id <= clock
        BY <3>4, PhaseOf, RunningTyped DEF Inv, TokensKnown, Known, Tokens
      <4>2. ~Current(q)' /\ ~Current(q)
        BY <1>0, <2>1, <2>3, <3>2, <4>1 DEF Current, Token
      <4> QED BY <2>1, <3>4, <4>2 DEF Inv, Owned, Holds, Token
    <3>5. \A q \in Requests : Owned(q)'
      BY <2>1, <3>4 DEF Owned, Holds
    <3>6. \A c \in calls : c.token.id # row'.id
      BY <1>0, <3>2, CallTyped DEF Inv, TokensKnown, Known, Tokens
    <3>7. OutcomesAreTrue'
      BY <2>1, <3>2, <3>6 DEF OutcomesAreTrue
    <3> QED BY <2>1, <3>3, <3>5, <3>7, OutsideKeeps DEF Inv, Keyed
  <2>4. CASE row # NoRow
    <3>1. /\ row' \in Rows /\ row' # NoRow /\ row'.id = row.id /\ row'.version = clock + 1
          /\ row'.token = row.token
          /\ row'.state = row.state \/ (row.state # "provider_pending" /\ row'.state = "synced")
      <4>1. \/ row' = [row EXCEPT !.version = clock + 1]
            \/ row' = [row EXCEPT !.state = "synced", !.version = clock + 1] /\ ~Pending
        BY <1>4, <2>4 DEF Visit, Sync
      <4>2. CASE row' = [row EXCEPT !.version = clock + 1]
        <5>1. row' = [row EXCEPT !.state = row.state, !.token = row.token, !.version = clock + 1]
          BY <1>0, <2>4, <4>2 DEF Rows
        <5> QED BY <1>0, <2>4, <5>1, RowUpdated DEF Rows
      <4>3. CASE row' = [row EXCEPT !.state = "synced", !.version = clock + 1] /\ ~Pending
        <5>1. row' = [row EXCEPT !.state = "synced", !.token = row.token, !.version = clock + 1]
          BY <1>0, <2>4, <4>3 DEF Rows
        <5>2. row.token \in Tokens \cup {NoToken} /\ "synced" \in States
          BY <1>0, <2>4 DEF Rows, States
        <5> QED BY <1>0, <2>4, <4>3, <5>1, <5>2, RowUpdated DEF Pending
      <4> QED BY <4>1, <4>2, <4>3
    <3>2. RowMove /\ Onward
      BY <1>0, <2>1, <2>2, <2>4, <3>1 DEF RowMove, Onward
    <3>3. \A q \in Requests : Owned(q)'
      BY <2>1, <2>4, <3>1 DEF Inv, Owned, Holds, Token, Current
    <3>4. OutcomesAreTrue'
      BY <2>1, <2>4, <3>1 DEF Inv, OutcomesAreTrue, Open
    <3> QED BY <2>1, <3>2, <3>3, <3>4, OutsideKeeps DEF Inv, Keyed
  <2> QED BY <2>3, <2>4
<1>5. CASE RemoveLanguage
  <2>1. /\ UNCHANGED <<keys, request, calls, receipts, workspace, cleared, clock>>
        /\ row' = NoRow
        /\ content' = [content EXCEPT !.segments = @ + 1]
    BY <1>5 DEF RemoveLanguage, Event, Around
  <2>2. content'.segments = content.segments + 1
    BY <1>0, <2>1 DEF Contents
  <2>3. RowMove /\ Onward
    BY <1>0, <2>1, <2>2 DEF RowMove, Onward
  <2>4. ASSUME NEW q \in Requests, Holds(q) PROVE Owned(q)'
    <3>1. Token(q).content.segments \in Nat /\ Token(q).content.segments <= content.segments
      BY <2>4, PhaseOf, RunningTyped DEF Inv, Tokens, Contents, TokensKnown, Known
    <3> QED BY <1>0, <2>1, <2>2, <2>4, <3>1 DEF Owned, Holds, Token, Current
  <2>5. \A q \in Requests : Owned(q)'
    BY <2>1, <2>4 DEF Owned, Holds
  <2>6. OutcomesAreTrue'
    BY <2>1 DEF OutcomesAreTrue
  <2> QED BY <2>1, <2>3, <2>5, <2>6, OutsideKeeps DEF Inv, Keyed
<1>6. CASE Transfer
  <2>1. UNCHANGED <<row, clock, content, keys, request, calls, receipts, cleared>> /\ ~Pending
    BY <1>6 DEF Transfer, Event, Around
  <2>2. RowMove /\ Onward
    BY <1>0, <2>1 DEF RowMove, Onward
  <2>3. \A q \in Requests : Owned(q)'
    BY <2>1 DEF Inv, Owned, Holds, Token, Current, Pending
  <2>4. OutcomesAreTrue'
    BY <2>1 DEF Inv, OutcomesAreTrue, Open
  <2> QED BY <2>1, <2>2, <2>3, <2>4, OutsideKeeps DEF Inv, Keyed
<1>7. CASE Reconcile
  <2>1. /\ UNCHANGED <<content, workspace, keys, request, calls, receipts>>
        /\ row # NoRow
        /\ clock' = clock + 1
        /\ row' = [row EXCEPT !.state = "reconciled", !.token = row.token, !.version = clock + 1]
        /\ cleared' = cleared \cup {row.token}
        /\ \A q \in Requests : Live(q) => Token(q) # row.token
    BY <1>7 DEF Reconcile, Around, Pending, Written
  <2>2. /\ row' \in Rows /\ row' # NoRow /\ row'.id = row.id /\ row'.version = clock + 1
        /\ row'.token = row.token /\ row'.state = "reconciled"
    <3>1. row.token \in Tokens \cup {NoToken} /\ "reconciled" \in States
      BY <1>0, <2>1 DEF Rows, States
    <3> QED BY <1>0, <2>1, <3>1, RowUpdated
  <2>3. RowMove /\ Onward
    BY <1>0, <2>1, <2>2 DEF RowMove, Onward
  <2>4. ASSUME NEW q \in Requests, Holds(q) PROVE ~Current(q)
    BY <2>1, <2>4, PhaseOf DEF Inv, Owned
  <2>5. \A q \in Requests : Owned(q)'
    BY <2>1, <2>2, <2>4 DEF Inv, Owned, Holds, Token, Current
  <2>6. ASSUME NEW c \in calls, Open(c)', c.token.id = row.id PROVE FALSE
    <3>1. Open(c) /\ c.token # row.token
      BY <2>1, <2>6 DEF Open
    <3> QED BY <2>1, <2>6, <3>1 DEF Inv, OutcomesAreTrue
  <2>7. OutcomesAreTrue'
    BY <2>1, <2>2, <2>6 DEF OutcomesAreTrue
  <2> QED BY <2>1, <2>3, <2>5, <2>7, OutsideKeeps DEF Inv, Keyed
<1> QED BY <1>1, <1>3, <1>4, <1>5, <1>6, <1>7 DEF OtherStep

-----------------------------------------------------------------------------
(* The requests. *)

LEMMA Ended ==
  ASSUME TypeOK, NEW q \in Requests, Finish(q)
  PROVE  /\ \A p \in Requests : Live(p)' =>
              /\ p # q /\ Live(p) /\ request'[p] = request[p]
              /\ Token(p)' = Token(p) /\ KeyOf(p)' = KeyOf(p) /\ AttemptOf(p)' = AttemptOf(p)
         /\ \A p \in Requests : Holds(p)' <=> p # q /\ Holds(p)
<1>1. \A p \in Requests : request'[p] = IF p = q THEN Idle ELSE request[p]
  BY DEF Finish, TypeOK
<1> QED BY <1>1 DEF Live, Token, KeyOf, AttemptOf, Idle, Holds, Holding

(* A request ends with a last write. *)
LEMMA LastKeeps ==
  ASSUME Inv, TypeOK', NEW q \in Requests, Live(q), Finish(q), RowMove, Onward,
         calls' = calls, receipts \subseteq receipts', receipts' \subseteq calls,
         keys' = keys \/ keys' = keys \ {KeyOf(q)},
         \A p \in Requests : Owned(p)',
         OutcomesAreTrue'
  PROVE  Inv'
<1>0. TypeOK
  BY DEF Inv
<1>1. \A p \in Requests : Live(p) => Token(p) \in Tokens
  BY <1>0, RunningTyped
<1>2. \A p \in Requests : Holds(p) => Live(p)
  BY <1>0, PhaseOf
<1>3. TokensKnown'
  BY <1>0, <1>1, Ended, KnownKeeps, CallTyped DEF Inv, TokensKnown
<1>4. ClaimsSpent'
  BY <1>0, <1>1, <1>2, Ended, MoveKeeps, CallTyped DEF Inv, ClaimsSpent, TokensKnown, Holds, Live, Token
<1>5. Alone'
  <2>1. ASSUME NEW p \in Requests, Holds(p)'
        PROVE  Holds(p) /\ request'[p] = request[p] /\ Token(p)' = Token(p) /\ AttemptOf(p)' = AttemptOf(p)
    <3>1. Holds(p) /\ p # q
      BY <1>0, <2>1, Ended
    <3> QED BY <3>1 DEF Finish, Token, AttemptOf
  <2> QED BY <2>1 DEF Inv, Alone
<1>6. Keyed'
  BY <1>0, Ended DEF Inv, Keyed
<1>7. ASSUME NEW p \in Requests PROVE Aware(p)'
  <2>1. CASE p = q
    <3>1. request'[p] = Idle
      BY <2>1 DEF Finish, Inv, TypeOK
    <3> QED BY <3>1 DEF Aware, Holds, Holding, Live, Idle
  <2>2. CASE p # q
    <3>1. request'[p] = request[p]
      BY <2>2 DEF Finish
    <3>2. Aware(p)
      BY DEF Inv
    <3> QED BY <3>1, <3>2 DEF Aware, Holds, Live, Token, AttemptOf
  <2> QED BY <2>1, <2>2
<1>8. RowSound' /\ ConfirmationsPayOnce' /\ (receipts \subseteq calls)'
  BY <1>0, MoveKeeps DEF Inv, ConfirmationsPayOnce
<1> QED BY <1>3, <1>4, <1>5, <1>6, <1>7, <1>8 DEF Inv

(* The record of an outcome, by the confirmation's holder or a repeat. *)
LEMMA SettleKeeps ==
  ASSUME Inv, TypeOK', NEW q \in Requests, Live(q), Finish(q), row # NoRow,
         NEW s \in {"completed", "failed"}, Written(TRUE, s, row.token),
         \A p \in Requests : Holds(p) /\ Current(p) => p = q,
         \A c \in calls : Open(c) => c.token.id # row.id,
         s = "completed" => \E r \in receipts : r.token = row.token,
         s = "failed" => \A c \in calls : c.token # row.token,
         UNCHANGED <<content, workspace, calls, receipts, cleared>>,
         keys' = keys \/ keys' = keys \ {KeyOf(q)}
  PROVE  Inv'
<1>0. TypeOK /\ clock \in Nat /\ content.segments \in Nat /\ row \in Rows
  BY DEF Inv, TypeOK, Contents
<1>1. row' = [row EXCEPT !.state = s, !.token = row.token, !.version = clock + 1] /\ clock' = clock + 1
  BY DEF Written
<1>2. /\ row' \in Rows /\ row' # NoRow /\ row'.id = row.id /\ row'.version = clock + 1
      /\ row'.token = row.token /\ row'.state = s
  <2>1. row.token \in Tokens \cup {NoToken} /\ s \in States
    BY <1>0 DEF Rows, States
  <2> QED BY <1>0, <1>1, <2>1, RowUpdated
<1>3. RowMove /\ Onward
  BY <1>0, <1>1, <1>2 DEF RowMove, Onward, Inv, RowSound
<1>4. ASSUME NEW p \in Requests PROVE Owned(p)'
  <2>1. CASE ~(Holds(p)')
    BY <2>1 DEF Owned
  <2>2. CASE Holds(p)'
    <3>1. p # q /\ Holds(p)
      BY <1>0, <2>2, Ended
    <3>2. request'[p] = request[p]
      BY <3>1 DEF Finish
    <3>3. ~Current(p) /\ Token(p).content.segments < content.segments
      BY <3>1 DEF Inv, Owned
    <3> QED BY <1>2, <3>2, <3>3 DEF Owned, Current, Token
  <2> QED BY <2>1, <2>2
<1>5. OutcomesAreTrue'
  BY <1>2 DEF OutcomesAreTrue, Open
<1> QED BY <1>3, <1>4, <1>5, LastKeeps DEF Inv

LEMMA ConfirmKeeps ==
  ASSUME Inv, TypeOK', NEW q \in Requests, NEW m \in Managers, Confirm(q, m)
  PROVE  Inv'
<1>1. PICK t \in Shown :
        /\ [actor |-> m, workspace |-> workspace, token |-> t] \notin keys
        /\ keys' = keys \cup {[actor |-> m, workspace |-> workspace, token |-> t]}
        /\ request' = [request EXCEPT ![q] =
             [phase |-> IF t.action = "retranslate" THEN "admitted" ELSE "reviewing",
              actor |-> m, workspace |-> workspace, token |-> t,
              claimed |-> 0, called |-> FALSE]]
  BY DEF Confirm
<1>2. ~Live(q) /\ UNCHANGED <<row, clock, calls, receipts, content, workspace, cleared>>
  BY DEF Confirm, Others
<1>3. /\ request'[q].phase \in {"admitted", "reviewing"}
      /\ ~request'[q].called
      /\ Token(q)' = t
      /\ KeyOf(q)' = [actor |-> m, workspace |-> workspace, token |-> t]
      /\ Live(q)' /\ ~(Holds(q)')
  BY <1>1 DEF Inv, TypeOK, Token, KeyOf, Live, Holds, Holding
<1>4. ASSUME NEW p \in Requests, p # q
      PROVE  /\ request'[p] = request[p]
             /\ (Live(p)' <=> Live(p)) /\ (Holds(p)' <=> Holds(p))
             /\ Token(p)' = Token(p) /\ KeyOf(p)' = KeyOf(p) /\ AttemptOf(p)' = AttemptOf(p)
  BY <1>1, <1>4 DEF Inv, TypeOK, Live, Holds, Token, KeyOf, AttemptOf
<1>5. Known(t)
  <2>1. ASSUME row # NoRow, NEW a \in Actions, t = Fingerprint(a) PROVE Known(t)
    BY <2>1 DEF Inv, TypeOK, RowSound, Rows, Contents, Fingerprint, Known
  <2>2. ASSUME NEW p \in Requests, Live(p), t = Token(p) PROVE Known(t)
    BY <2>2 DEF Inv, TokensKnown
  <2>3. ASSUME NEW c \in calls, t = c.token PROVE Known(t)
    BY <2>3 DEF Inv, TokensKnown
  <2> QED BY <2>1, <2>2, <2>3 DEF Shown
<1>6. RowSound' /\ OutcomesAreTrue' /\ ConfirmationsPayOnce' /\ (receipts \subseteq calls)'
  BY <1>2 DEF Inv, RowSound, OutcomesAreTrue, ConfirmationsPayOnce, Open
<1>7. TokensKnown'
  BY <1>2, <1>3, <1>4, <1>5 DEF Inv, TokensKnown, Known
<1>8. ClaimsSpent'
  BY <1>2, <1>3, <1>4 DEF Inv, ClaimsSpent, Spent
<1>9. Alone'
  BY <1>2, <1>3, <1>4 DEF Inv, Alone
<1>10. Keyed'
  BY <1>1, <1>3, <1>4 DEF Inv, Keyed
<1>11. ASSUME NEW p \in Requests PROVE Aware(p)' /\ Owned(p)'
  <2>1. CASE p = q
    BY <1>3, <2>1 DEF Aware, Owned
  <2>2. CASE p # q
    BY <1>2, <1>4, <2>2 DEF Inv, Aware, Owned, Current
  <2> QED BY <2>1, <2>2
<1> QED BY <1>6, <1>7, <1>8, <1>9, <1>10, <1>11 DEF Inv

LEMMA DeleteKeeps ==
  ASSUME Inv, TypeOK', NEW q \in Requests, Delete(q)
  PROVE  Inv'
<1>0. TypeOK /\ clock \in Nat /\ content \in Contents /\ content.segments \in Nat
  BY DEF Inv, TypeOK, Contents
<1>1. /\ Live(q) /\ ~Holds(q) /\ Finish(q)
      /\ UNCHANGED <<clock, workspace, keys, calls, receipts, cleared>>
  BY DEF Delete, Live, Holds, Holding
<1>2. CASE UNCHANGED <<content, row>>
  BY <1>0, <1>1, <1>2, EndKeeps DEF Stage
<1>3. CASE content' = [content EXCEPT !.segments = @ + 1] /\ row' \in {row, NoRow}
  <2>1. content'.segments = content.segments + 1
    BY <1>0, <1>3 DEF Contents
  <2>2. RowMove /\ Onward
    BY <1>0, <1>1, <1>3, <2>1 DEF RowMove, Onward
  <2>3. ASSUME NEW p \in Requests PROVE Owned(p)'
    <3>1. CASE ~(Holds(p)')
      BY <3>1 DEF Owned
    <3>2. CASE Holds(p)'
      <4>1. p # q /\ Holds(p)
        BY <1>0, <1>1, <3>2, Ended
      <4>2. request'[p] = request[p] /\ Token(p)' = Token(p)
        BY <1>1, <4>1 DEF Finish, Token
      <4>3. Token(p).content.segments \in Nat /\ Token(p).content.segments <= content.segments
        BY <1>0, <4>1, PhaseOf, RunningTyped DEF Inv, Tokens, Contents, TokensKnown, Known
      <4> QED BY <1>0, <1>1, <1>3, <2>1, <4>1, <4>2, <4>3 DEF Inv, Owned, Current
    <3> QED BY <3>1, <3>2
  <2>4. OutcomesAreTrue'
    BY <1>1, <1>3 DEF Inv, OutcomesAreTrue, Open
  <2> QED BY <1>1, <2>2, <2>3, <2>4, LastKeeps DEF Inv
<1> QED BY <1>2, <1>3 DEF Delete

LEMMA ClaimKeeps ==
  ASSUME Inv, TypeOK', NEW q \in Requests, Claim(q)
  PROVE  Inv'
<1>0. TypeOK /\ clock \in Nat /\ content.segments \in Nat
  BY DEF Inv, TypeOK, Contents
<1>1. /\ Live(q) /\ ~Holds(q) /\ request[q].phase = "fresh"
      /\ UNCHANGED <<content, workspace, keys, calls, receipts, cleared>>
      /\ Token(q).state # "provider_pending"
  BY DEF Claim, Live, Holds, Holding, Others, Inv, Aware
<1>2. CASE ~Claimable(q)
  BY <1>0, <1>1, <1>2, EndKeeps DEF Stage, Claim, Written
<1>3. CASE Claimable(q)
  <2>1. /\ row # NoRow /\ row \in Rows /\ row.id = Token(q).id
        /\ row.version = Token(q).version /\ row.state = Token(q).state
        /\ workspace = request[q].workspace
    BY <1>0, <1>3 DEF Claimable, Entitled, Unchanged, Current, TypeOK
  <2>2. /\ clock' = clock + 1
        /\ row' = [row EXCEPT !.state = "provider_pending", !.token = Token(q), !.version = clock + 1]
        /\ request' = [request EXCEPT ![q].phase = "claimed", ![q].claimed = clock + 1]
    BY <1>3 DEF Claim, Written
  <2>3. Token(q) \in Tokens /\ request[q] \in Running
    BY <1>0, <1>1, RunningTyped
  <2>4. /\ row' \in Rows /\ row' # NoRow /\ row'.id = row.id /\ row'.version = clock + 1
        /\ row'.token = Token(q) /\ row'.state = "provider_pending"
    <3>1. Token(q) \in Tokens \cup {NoToken} /\ "provider_pending" \in States
      BY <2>3 DEF States
    <3> QED BY <1>0, <2>1, <2>2, <3>1, RowUpdated
  <2>5. RowMove /\ Onward
    BY <1>0, <1>1, <2>1, <2>2, <2>4 DEF RowMove, Onward
  <2>6. /\ request'[q].phase = "claimed" /\ request'[q].workspace = request[q].workspace
        /\ Token(q)' = Token(q) /\ KeyOf(q)' = KeyOf(q)
        /\ (request'[q].called <=> request[q].called)
        /\ Live(q)' /\ Holds(q)'
    BY <1>0, <2>2, <2>3 DEF TypeOK, Running, Token, KeyOf, Live, Holds, Holding
  <2>7. ASSUME NEW p \in Requests, p # q
        PROVE  /\ request'[p] = request[p]
               /\ (Live(p)' <=> Live(p)) /\ (Holds(p)' <=> Holds(p))
               /\ Token(p)' = Token(p) /\ KeyOf(p)' = KeyOf(p) /\ AttemptOf(p)' = AttemptOf(p)
    BY <1>0, <2>2, <2>7 DEF TypeOK, Live, Holds, Token, KeyOf, AttemptOf
  <2>8. RowSound' /\ \A t \in Tokens : Known(t) /\ Spent(t) => Spent(t)'
    BY <1>0, <2>5, MoveKeeps DEF Inv
  <2>9. ~Spent(Token(q)) /\ Spent(Token(q))' /\ Known(Token(q))
    <3>1. Token(q).version \in Nat /\ row.version <= clock
      BY <2>1, <2>3 DEF Tokens, Inv, RowSound
    <3>2. Known(Token(q))
      BY <1>1 DEF Inv, TokensKnown
    <3>3. Spent(Token(q))'
      BY <1>0, <2>1, <2>4, <2>6, <3>1 DEF Spent
    <3> QED BY <1>0, <2>1, <3>1, <3>2, <3>3 DEF Spent
  <2>10. TokensKnown'
    BY <1>0, <1>1, <2>3, <2>5, <2>6, <2>7, RunningTyped, KnownKeeps, CallTyped DEF Inv, TokensKnown
  <2>11. ClaimsSpent'
    <3>1. ASSUME NEW p \in Requests, Holds(p)' PROVE Spent(Token(p))'
      <4>1. CASE p = q
        BY <2>9, <4>1
      <4>2. CASE p # q
        <5>1. Holds(p) /\ Live(p) /\ Token(p) \in Tokens /\ Token(p)' = Token(p)
          BY <1>0, <2>7, <3>1, <4>2, PhaseOf, RunningTyped
        <5> QED BY <2>8, <5>1 DEF Inv, ClaimsSpent, TokensKnown, Spent
      <4> QED BY <4>1, <4>2
    <3>2. ASSUME NEW c \in calls PROVE Spent(c.token)'
      BY <1>0, <2>8, CallTyped DEF Inv, ClaimsSpent, TokensKnown
    <3> QED BY <1>1, <3>1, <3>2 DEF ClaimsSpent
  <2>12. /\ \A p \in Requests : p # q /\ Holds(p) => Token(p) # Token(q)
         /\ \A c \in calls : c.token # Token(q)
    BY <2>9 DEF Inv, ClaimsSpent
  <2>13. Alone'
    BY <1>1, <2>6, <2>7, <2>12 DEF Inv, Alone
  <2>14. Keyed'
    BY <1>1, <2>6, <2>7 DEF Inv, Keyed
  <2>15. ASSUME NEW p \in Requests PROVE Aware(p)' /\ Owned(p)'
    <3>1. CASE p = q
      <4>1. ~request[q].called
        BY <1>1 DEF Inv, Aware
      <4>2. Aware(q)'
        BY <2>6, <4>1 DEF Aware
      <4>3. Owned(q)'
        BY <1>1, <2>1, <2>4, <2>6 DEF Owned, Current
      <4> QED BY <3>1, <4>2, <4>3
    <3>2. CASE p # q
      <4>1. Aware(p) /\ Owned(p)
        BY DEF Inv
      <4>2. Aware(p)'
        BY <1>1, <2>7, <3>2, <4>1 DEF Aware
      <4>3. Holds(p) => ~Current(p)
        BY <1>1, <2>1, <4>1 DEF Owned
      <4>4. Owned(p)'
        BY <1>1, <2>1, <2>4, <2>7, <3>2, <4>1, <4>3 DEF Owned, Current
      <4> QED BY <4>2, <4>4
    <3> QED BY <3>1, <3>2
  <2>16. OutcomesAreTrue'
    <3>1. \A c \in calls : Open(c) => c.token.id # row.id
      BY <1>1, <2>1 DEF Inv, OutcomesAreTrue
    <3> QED BY <1>1, <2>4, <3>1 DEF OutcomesAreTrue, Open
  <2>17. ConfirmationsPayOnce' /\ (receipts \subseteq calls)'
    BY <1>1 DEF Inv, ConfirmationsPayOnce
  <2> QED BY <2>8, <2>10, <2>11, <2>13, <2>14, <2>15, <2>16, <2>17 DEF Inv
<1> QED BY <1>2, <1>3

LEMMA DispatchKeeps ==
  ASSUME Inv, TypeOK', NEW q \in Requests, Dispatch(q)
  PROVE  Inv'
<1>0. TypeOK
  BY DEF Inv
<1>1. /\ Live(q) /\ Holds(q) /\ ~request[q].called
      /\ UNCHANGED <<row, clock, content, workspace, keys, receipts, cleared>>
      /\ calls' = calls \cup {AttemptOf(q)}
      /\ request' = [request EXCEPT ![q].phase = "called", ![q].called = TRUE]
  BY DEF Dispatch, Live, Holds, Holding, Others, Inv, Aware
<1>2. request[q] \in Running
  BY <1>0, <1>1, RunningTyped
<1>3. /\ request'[q].phase = "called" /\ request'[q].called
      /\ request'[q].workspace = request[q].workspace
      /\ Token(q)' = Token(q) /\ KeyOf(q)' = KeyOf(q) /\ AttemptOf(q)' = AttemptOf(q)
      /\ Live(q)' /\ Holds(q)'
  BY <1>0, <1>1, <1>2 DEF TypeOK, Running, Token, KeyOf, AttemptOf, Live, Holds, Holding
<1>4. ASSUME NEW p \in Requests, p # q
      PROVE  /\ request'[p] = request[p]
             /\ (Live(p)' <=> Live(p)) /\ (Holds(p)' <=> Holds(p))
             /\ Token(p)' = Token(p) /\ KeyOf(p)' = KeyOf(p) /\ AttemptOf(p)' = AttemptOf(p)
  BY <1>0, <1>1, <1>4 DEF TypeOK, Live, Holds, Token, KeyOf, AttemptOf
<1>5. AttemptOf(q).token = Token(q) /\ Known(Token(q)) /\ Spent(Token(q))
  BY <1>1 DEF AttemptOf, Token, Inv, TokensKnown, ClaimsSpent
<1>6. \A c \in calls : c.token # Token(q)
  BY <1>1 DEF Inv, Alone
<1>7. RowSound'
  BY <1>1 DEF Inv, RowSound
<1>8. TokensKnown'
  BY <1>1, <1>3, <1>4, <1>5 DEF Inv, TokensKnown, Known
<1>9. ClaimsSpent'
  BY <1>1, <1>3, <1>4, <1>5 DEF Inv, ClaimsSpent, Spent
<1>10. Alone'
  <2>1. ASSUME NEW p \in Requests, NEW r \in Requests, Holds(p)', Holds(r)', Token(p)' = Token(r)'
        PROVE  p = r
    BY <1>1, <1>3, <1>4, <2>1 DEF Inv, Alone
  <2>2. ASSUME NEW p \in Requests, NEW c \in calls', Holds(p)', c.token = Token(p)'
        PROVE  request'[p].called /\ c = AttemptOf(p)'
    <3>1. CASE p = q
      BY <1>1, <1>3, <1>6, <2>2, <3>1
    <3>2. CASE p # q
      <4>1. Holds(p) /\ Token(p) # Token(q)
        BY <1>1, <1>4, <2>2, <3>2 DEF Inv, Alone
      <4>2. c \in calls /\ c.token = Token(p)
        BY <1>1, <1>4, <1>5, <2>2, <3>2, <4>1
      <4>3. request[p].called /\ c = AttemptOf(p)
        BY <4>1, <4>2 DEF Inv, Alone
      <4> QED BY <1>4, <3>2, <4>3
    <3> QED BY <3>1, <3>2
  <2> QED BY <2>1, <2>2 DEF Alone
<1>11. Keyed'
  BY <1>1, <1>3, <1>4 DEF Inv, Keyed
<1>12. ASSUME NEW p \in Requests PROVE Aware(p)' /\ Owned(p)'
  <2>1. Aware(p) /\ Owned(p)
    BY DEF Inv
  <2>2. Aware(p)'
    BY <1>1, <1>3, <1>4, <2>1 DEF Aware
  <2>3. Owned(p)'
    BY <1>1, <1>3, <1>4, <2>1 DEF Owned, Current
  <2> QED BY <2>2, <2>3
<1>13. OutcomesAreTrue'
  <2>1. row # NoRow /\ Token(q).id = row.id => row.state = "provider_pending" /\ row.token = Token(q)
    BY <1>1 DEF Inv, Owned, Current
  <2>2. row # NoRow /\ row.token = Token(q) => row.state = "provider_pending"
    <3>1. Token(q) # NoToken
      BY <1>0, <1>1, RunningTyped, TokenAssumption
    <3> QED BY <2>1, <3>1 DEF Inv, RowSound
  <2> QED BY <1>1, <1>5, <2>1, <2>2 DEF Inv, OutcomesAreTrue, Open
<1>14. ConfirmationsPayOnce' /\ (receipts \subseteq calls)'
  BY <1>1, <1>5, <1>6 DEF Inv, ConfirmationsPayOnce
<1> QED BY <1>7, <1>8, <1>9, <1>10, <1>11, <1>12, <1>13, <1>14 DEF Inv

LEMMA StoreKeeps ==
  ASSUME Inv, TypeOK', NEW q \in Requests, Store(q)
  PROVE  Inv'
<1>0. TypeOK /\ clock \in Nat /\ content \in Contents /\ content.segments \in Nat
  BY DEF Inv, TypeOK, Contents
<1>1. /\ Live(q) /\ Holds(q) /\ request[q].called /\ AttemptOf(q) \in calls
      /\ UNCHANGED <<row, clock, workspace, calls, cleared>>
      /\ receipts' = receipts \cup {AttemptOf(q)}
      /\ content' = [content EXCEPT !.segments = @ + 1]
  BY DEF Store, Live, Holds, Holding, Inv, Aware
<1>2. content'.segments = content.segments + 1
  BY <1>0, <1>1 DEF Contents
<1>3. RowMove /\ Onward
  BY <1>0, <1>1, <1>2 DEF RowMove, Onward
<1>4. receipts \subseteq receipts' /\ receipts' \subseteq calls
  BY <1>1 DEF Inv
<1>5. OutcomesAreTrue'
  BY <1>1 DEF Inv, OutcomesAreTrue, Open
<1>6. ASSUME NEW p \in Requests, Holds(p), Token(p)' = Token(p), request'[p].workspace = request[p].workspace
      PROVE  Owned(p)'
  <2>1. Token(p).content.segments \in Nat /\ Token(p).content.segments <= content.segments
    BY <1>0, <1>6, PhaseOf, RunningTyped DEF Inv, Tokens, Contents, TokensKnown, Known
  <2>2. Owned(p)
    BY DEF Inv
  <2> QED BY <1>0, <1>1, <1>2, <1>6, <2>1, <2>2 DEF Owned, Current
<1>7. CASE Finish(q) /\ keys' = keys \ {KeyOf(q)}
  <2>1. ASSUME NEW p \in Requests PROVE Owned(p)'
    <3>1. CASE ~(Holds(p)')
      BY <3>1 DEF Owned
    <3>2. CASE Holds(p)'
      <4>1. p # q /\ Holds(p)
        BY <1>0, <1>7, <3>2, Ended
      <4>2. request'[p] = request[p] /\ Token(p)' = Token(p)
        BY <1>7, <4>1 DEF Finish, Token
      <4> QED BY <1>6, <4>1, <4>2
    <3> QED BY <3>1, <3>2
  <2> QED BY <1>1, <1>3, <1>4, <1>5, <1>7, <2>1, LastKeeps
<1>8. CASE Step(q, "answered") /\ UNCHANGED keys
  <2>1. request[q] \in Running
    BY <1>0, <1>1, RunningTyped
  <2>2. \A p \in Requests :
          request'[p] = IF p = q THEN [request[q] EXCEPT !.phase = "answered"] ELSE request[p]
    BY <1>0, <1>8 DEF Step, TypeOK
  <2>3. ASSUME NEW p \in Requests
        PROVE  /\ (Live(p)' <=> Live(p)) /\ (Holds(p)' <=> Holds(p))
               /\ Token(p)' = Token(p) /\ KeyOf(p)' = KeyOf(p) /\ AttemptOf(p)' = AttemptOf(p)
               /\ (request'[p].called <=> request[p].called)
               /\ request'[p].workspace = request[p].workspace
               /\ request'[p].phase = IF p = q THEN "answered" ELSE request[p].phase
    <3>1. CASE p = q
      BY <1>1, <2>1, <2>2, <3>1 DEF Live, Holds, Holding, Token, KeyOf, AttemptOf, Running
    <3>2. CASE p # q
      BY <2>2, <3>2 DEF Live, Holds, Token, KeyOf, AttemptOf
    <3> QED BY <3>1, <3>2
  <2>4. RowSound' /\ \A t \in Tokens : Known(t) /\ Spent(t) => Spent(t)'
    BY <1>0, <1>3, MoveKeeps DEF Inv
  <2>5. TokensKnown'
    BY <1>0, <1>1, <1>3, <2>3, RunningTyped, KnownKeeps, CallTyped DEF Inv, TokensKnown
  <2>6. ClaimsSpent'
    BY <1>1, <2>3 DEF Inv, ClaimsSpent, Spent
  <2>7. Alone'
    BY <1>1, <2>3 DEF Inv, Alone
  <2>8. Keyed'
    BY <1>8, <2>3 DEF Inv, Keyed
  <2>9. ASSUME NEW p \in Requests PROVE Aware(p)' /\ Owned(p)'
    <3>1. Owned(p)'
      BY <1>6, <2>3 DEF Owned
    <3>2. Aware(p)
      BY DEF Inv
    <3>3. Aware(p)'
      BY <1>1, <2>3, <3>2 DEF Aware
    <3> QED BY <3>1, <3>3
  <2>10. ConfirmationsPayOnce' /\ (receipts \subseteq calls)'
    BY <1>1, <1>4 DEF Inv, ConfirmationsPayOnce
  <2> QED BY <1>5, <2>4, <2>5, <2>6, <2>7, <2>8, <2>9, <2>10 DEF Inv
<1> QED BY <1>7, <1>8 DEF Store

LEMMA RouteKeeps ==
  ASSUME Inv, TypeOK', NEW q \in Requests, RouteStep(q)
  PROVE  Inv'
<1>0. TypeOK /\ Aware(q) /\ Owned(q)
  BY DEF Inv
<1>1. ASSUME NEW m \in Managers, Confirm(q, m) PROVE Inv'
  BY <1>1, ConfirmKeeps
<1>2. CASE Recover(q)
  <2>1. /\ Live(q) /\ ~Holds(q) /\ UNCHANGED <<keys, calls, receipts, content, workspace, cleared>>
    BY <1>2 DEF Recover, Live, Holds, Holding, Others
  <2>2. CASE Step(q, "reviewing") /\ UNCHANGED <<row, clock>>
    <3>1. /\ "reviewing" \notin Holding /\ "reviewing" # "idle" /\ "reviewing" # "fresh"
          /\ "reviewing" \notin {"claimed", "threw", "rejecting"} /\ "reviewing" # "called"
          /\ "reviewing" # "completing"
      BY DEF Holding
    <3> QED BY <2>1, <2>2, <3>1, StepKeeps DEF Stage
  <2>3. CASE Finish(q) /\ ~(Entitled(q) /\ Pending)
    <3>1. UNCHANGED <<row, clock>>
      BY <1>2, <2>3 DEF Recover, Written, Step, Finish
    <3> QED BY <2>1, <2>3, <3>1, EndKeeps DEF Stage
  <2>4. CASE Finish(q) /\ Entitled(q) /\ Pending /\ Recoverable(q)
    <3>1. /\ row # NoRow /\ row.token = Token(q) /\ row.id = Token(q).id
          /\ Written(TRUE, "completed", row.token)
      BY <1>2, <2>4 DEF Recover, Recoverable, Current, Pending, Written
    <3>2. PICK r \in receipts : /\ r.token = Token(q)
                               /\ r.actor = request[q].actor
                               /\ r.workspace = request[q].workspace
      BY <2>4 DEF Recoverable
    <3>3. ASSUME NEW p \in Requests, Holds(p), Current(p) PROVE p = q
      <4>1. Token(p) = Token(q)
        BY <3>1, <3>3 DEF Inv, Owned
      <4>2. r = AttemptOf(p)
        BY <3>2, <3>3, <4>1 DEF Inv, Alone
      <4>3. KeyOf(p) = KeyOf(q)
        BY <3>2, <4>1, <4>2 DEF AttemptOf, KeyOf, Token
      <4> QED BY <1>0, <2>1, <3>3, <4>3, PhaseOf DEF Inv, Keyed
    <3>4. ASSUME NEW c \in calls, Open(c) PROVE c.token.id # row.id
      BY <3>1, <3>2, <3>4 DEF Inv, OutcomesAreTrue, Open
    <3>5. \E x \in receipts : x.token = row.token
      BY <3>1, <3>2
    <3> QED BY <2>1, <2>4, <3>1, <3>3, <3>4, <3>5, SettleKeeps
  <2>5. \/ Step(q, "reviewing") /\ UNCHANGED <<row, clock>>
        \/ Finish(q) /\ ~(Entitled(q) /\ Pending)
        \/ Finish(q) /\ Entitled(q) /\ Pending /\ Recoverable(q)
    BY <1>2 DEF Recover
  <2> QED BY <2>2, <2>3, <2>4, <2>5
<1>3. CASE Review(q)
  <2>1. /\ Live(q) /\ ~Holds(q) /\ UNCHANGED Stage /\ UNCHANGED keys
    BY <1>3 DEF Review, Live, Holds, Holding, Others, Stage
  <2>2. CASE Confirmed(q) /\ Step(q, "fresh")
    <3>1. Token(q).state # "provider_pending"
      <4>1. row.state # "provider_pending" /\ Fingerprint(Token(q).action) = Token(q)
        BY <2>2 DEF Confirmed
      <4>2. Fingerprint(Token(q).action).state = row.state
        BY DEF Fingerprint
      <4> QED BY <4>1, <4>2
    <3>2. "fresh" \notin Holding /\ "fresh" \notin {"claimed", "threw", "rejecting"}
      BY DEF Holding
    <3> QED BY <2>1, <2>2, <3>1, <3>2, StepKeeps
  <2>3. CASE Finish(q)
    BY <2>1, <2>3, EndKeeps
  <2> QED BY <1>3, <2>2, <2>3 DEF Review
<1>4. CASE Delete(q)
  BY <1>4, DeleteKeeps
<1>5. CASE Claim(q)
  BY <1>5, ClaimKeeps
<1>6. CASE Dispatch(q)
  BY <1>6, DispatchKeeps
<1>7. CASE Refuse(q) \/ AnswerEmpty(q)
  <2>1. /\ Live(q) /\ Holds(q) /\ Step(q, "answered") /\ UNCHANGED Stage /\ UNCHANGED keys
    BY <1>7 DEF Refuse, AnswerEmpty, Live, Holds, Holding, Others, Stage
  <2>2. "answered" \in Holding /\ "answered" \notin {"claimed", "threw", "rejecting"}
    BY DEF Holding
  <2> QED BY <2>1, <2>2, StepKeeps
<1>8. CASE Throw(q)
  <2>1. /\ Live(q) /\ Holds(q) /\ UNCHANGED Stage
    BY <1>8 DEF Throw, Live, Holds, Holding, Others, Stage
  <2>2. CASE request[q].called
    BY <1>8, <2>1, <2>2, EndKeeps DEF Throw
  <2>3. CASE ~request[q].called
    <3>1. "threw" \in Holding
      BY DEF Holding
    <3> QED BY <1>8, <2>1, <2>3, <3>1, StepKeeps DEF Throw
  <2> QED BY <2>2, <2>3
<1>9. CASE MarkFailed(q)
  <2>1. /\ Live(q) /\ Holds(q) /\ ~request[q].called /\ Finish(q) /\ keys' = keys \ {KeyOf(q)}
        /\ UNCHANGED <<calls, receipts, content, workspace, cleared>>
    BY <1>0, <1>9 DEF MarkFailed, Live, Holds, Holding, Others, Aware
  <2>2. CASE ~(Current(q) /\ Pending)
    BY <1>9, <2>1, <2>2, EndKeeps DEF MarkFailed, Written, Stage
  <2>3. CASE Current(q) /\ Pending
    <3>1. row # NoRow /\ row.token = Token(q) /\ Written(TRUE, "failed", row.token)
      BY <1>0, <1>9, <2>1, <2>3 DEF MarkFailed, Written, Owned, Current
    <3>2. \A p \in Requests : Holds(p) /\ Current(p) => p = q
      BY <2>1, <2>3, Sole
    <3>3. \A c \in calls : c.token # row.token
      BY <2>1, <3>1 DEF Inv, Alone
    <3>4. \A c \in calls : Open(c) => c.token.id # row.id
      BY <3>1, <3>3 DEF Inv, OutcomesAreTrue
    <3> QED BY <2>1, <3>1, <3>2, <3>3, <3>4, SettleKeeps
  <2> QED BY <2>2, <2>3
<1>10. CASE Store(q)
  BY <1>10, StoreKeeps
<1>11. CASE Judge(q)
  <2>1. /\ Live(q) /\ Holds(q) /\ UNCHANGED Stage /\ UNCHANGED keys
    BY <1>11 DEF Judge, Live, Holds, Holding, Others, Stage
  <2>2. /\ Outcome(q) \in {"completing", "unknown", "rejecting"}
        /\ Outcome(q) = "completing" => \E r \in receipts : r.token = Token(q)
        /\ Outcome(q) = "rejecting" => ~request[q].called
    BY DEF Outcome
  <2>3. CASE Outcome(q) = "unknown"
    BY <1>11, <2>1, <2>3, EndKeeps DEF Judge
  <2>4. CASE Outcome(q) # "unknown"
    <3>1. Step(q, Outcome(q)) /\ Outcome(q) \in {"completing", "rejecting"}
      BY <1>11, <2>2, <2>4 DEF Judge
    <3>2. /\ Outcome(q) \in Holding /\ Outcome(q) # "idle" /\ Outcome(q) # "fresh"
          /\ Outcome(q) \in {"claimed", "threw", "rejecting"} => ~request[q].called
          /\ Outcome(q) # "called"
      BY <2>2, <3>1 DEF Holding
    <3> QED BY <2>1, <2>2, <3>1, <3>2, StepKeeps
  <2> QED BY <2>3, <2>4
<1>12. CASE RecordOutcome(q)
  <2>1. /\ Live(q) /\ Holds(q) /\ Finish(q)
        /\ UNCHANGED <<keys, calls, receipts, content, workspace, cleared>>
    BY <1>12 DEF RecordOutcome, Live, Holds, Holding, Others
  <2>2. CASE ~Current(q)
    BY <1>12, <2>1, <2>2, EndKeeps DEF RecordOutcome, Written, Stage
  <2>3. CASE Current(q)
    <3>1. row # NoRow /\ row.token = Token(q)
      BY <1>0, <2>1, <2>3 DEF Owned, Current
    <3>2. \A p \in Requests : Holds(p) /\ Current(p) => p = q
      BY <2>1, <2>3, Sole
    <3>3. CASE request[q].phase = "completing"
      <4>1. Written(TRUE, "completed", row.token)
        BY <1>12, <2>3, <3>3 DEF RecordOutcome, Written
      <4>2. \E r \in receipts : r.token = row.token
        BY <1>0, <3>1, <3>3 DEF Aware
      <4>3. \A c \in calls : Open(c) => c.token.id # row.id
        BY <3>1, <4>2 DEF Inv, OutcomesAreTrue, Open
      <4> QED BY <2>1, <3>1, <3>2, <4>1, <4>2, <4>3, SettleKeeps
    <3>4. CASE request[q].phase = "rejecting"
      <4>1. Written(TRUE, "failed", row.token)
        BY <1>12, <2>3, <3>4 DEF RecordOutcome, Written
      <4>2. \A c \in calls : c.token # row.token
        BY <1>0, <2>1, <3>1, <3>4 DEF Inv, Alone, Aware
      <4>3. \A c \in calls : Open(c) => c.token.id # row.id
        BY <3>1, <4>2 DEF Inv, OutcomesAreTrue
      <4> QED BY <2>1, <3>1, <3>2, <4>1, <4>2, <4>3, SettleKeeps
    <3> QED BY <1>12, <3>3, <3>4 DEF RecordOutcome
  <2> QED BY <2>2, <2>3
<1>13. CASE Die(q)
  BY <1>13, EndKeeps DEF Die, Others, Stage
<1> QED BY <1>1, <1>2, <1>3, <1>4, <1>5, <1>6, <1>7, <1>8, <1>9, <1>10, <1>11, <1>12, <1>13
        DEF RouteStep

LEMMA Invariance == Spec => []Inv
<1>1. Inv /\ [Next]_vars => Inv'
  <2> SUFFICES ASSUME Inv, [Next]_vars PROVE Inv'
    OBVIOUS
  <2>1. CASE OtherStep BY <2>1, OtherType, OtherKeeps DEF Inv
  <2>2. ASSUME NEW q \in Requests, RouteStep(q) PROVE Inv' BY <2>2, RouteType, RouteKeeps DEF Inv
  <2>3. CASE UNCHANGED vars
    <3>1. TypeOK'
      BY <2>3 DEF Inv, vars, TypeOK
    <3>2. /\ UNCHANGED <<request, calls, receipts, keys>> /\ RowMove /\ Onward
      BY <2>3 DEF vars, RowMove, Onward, Inv, TypeOK, Contents
    <3>3. \A q \in Requests : Owned(q)'
      BY <2>3 DEF vars, Inv, Owned, Holds, Current, Token
    <3>4. OutcomesAreTrue'
      BY <2>3 DEF vars, Inv, OutcomesAreTrue, Open
    <3> QED BY <3>1, <3>2, <3>3, <3>4, OutsideKeeps DEF Inv, Keyed
  <2> QED BY <2>1, <2>2, <2>3 DEF Next
<1> QED BY InitInv, <1>1, PTL DEF Spec

(* The operation state of a URL tells the truth about what was paid and    *)
(* stored under its confirmation, whatever happens to the requests.        *)
THEOREM StatesAreTrue == Spec => []OutcomesAreTrue
<1>1. Inv => OutcomesAreTrue
  BY DEF Inv
<1> QED BY Invariance, <1>1, PTL

(* No confirmation pays for two provider calls. *)
THEOREM PaidOnce == Spec => []ConfirmationsPayOnce
<1>1. Inv => ConfirmationsPayOnce
  BY DEF Inv
<1> QED BY Invariance, <1>1, PTL

(* A receipt's usage is billed to the workspace that owns the project. *)
THEOREM BilledAtHome == Spec => UsageStaysHome
<1>1. Inv /\ [Next]_vars => [\A r \in receipts' \ receipts : r.workspace = workspace]_vars
  <2> SUFFICES ASSUME Inv, Next, NEW r \in receipts', r \notin receipts
               PROVE  r.workspace = workspace
    BY DEF vars
  <2>1. PICK q \in Requests : Store(q)
    BY DEF Next, OtherStep, RouteStep, Others, Event, Around, Forget, Visit, Sync, Edit,
           RemoveLanguage, AddLanguage, Dismiss, Transfer, Reconcile, Confirm, Recover, Review,
           Delete, Claim, Dispatch, Refuse, Throw, MarkFailed, AnswerEmpty, Judge, RecordOutcome, Die
  <2>2. r = AttemptOf(q) /\ Holds(q) /\ content.segments = Token(q).content.segments
    BY <2>1 DEF Store, Storable, Holds, Holding
  <2>3. content.segments \in Nat
    BY DEF Inv, TypeOK, Contents
  <2>4. workspace = request[q].workspace
    BY <2>2, <2>3 DEF Inv, Owned
  <2> QED BY <2>2, <2>4 DEF AttemptOf
<1> QED BY Invariance, <1>1, PTL DEF Spec, UsageStaysHome

(* A deletion removes what its preview showed, and waits for open calls. *)
THEOREM DeletesConfirmed == Spec => DeletesAreConfirmed
<1> DEFINE Removed == active' /\ row # NoRow /\ row' = NoRow
           Fits == /\ \E q \in Requests : /\ Live(q)
                                          /\ Token(q).action = "delete"
                                          /\ Token(q).version = row.version
                                          /\ Token(q).content.segments = content.segments
                   /\ \A c \in calls : Open(c) => c.token.id # row.id
<1>1. Inv /\ [Next]_vars => [Removed => Fits]_vars
  <2> SUFFICES ASSUME Inv, Next, Removed PROVE Fits
    BY DEF vars
  <2>1. PICK q \in Requests : Delete(q)
    <3>1. /\ row \in Rows /\ row # NoRow /\ row' = NoRow /\ clock \in Nat /\ TypeOK
          /\ row.token \in Tokens \cup {NoToken} /\ States # {}
      BY DEF Inv, TypeOK, Rows, States
    <3>2. ASSUME NEW s \in States, NEW t \in Tokens \cup {NoToken}, NEW matches, Written(matches, s, t)
          PROVE  FALSE
      <4>1. row' = [row EXCEPT !.state = s, !.token = t, !.version = clock + 1]
        BY <3>1, <3>2 DEF Written
      <4> QED BY <3>1, <4>1, RowUpdated
    <3>3. ~OtherStep
      <4>1. ~Reconcile
        BY <3>1, <3>2 DEF Reconcile, States
      <4>2. ~Visit /\ ~Sync
        <5>1. row.state \in States /\ "synced" \in States
          BY <3>1 DEF Rows, States
        <5>2. ASSUME NEW s \in States, row' = [row EXCEPT !.state = s, !.version = clock + 1] PROVE FALSE
          <6>1. row' = [row EXCEPT !.state = s, !.token = row.token, !.version = clock + 1]
            BY <3>1, <5>2 DEF Rows
          <6> QED BY <3>1, <6>1, RowUpdated
        <5>3. [row EXCEPT !.version = clock + 1] = [row EXCEPT !.state = row.state, !.version = clock + 1]
          BY <3>1 DEF Rows
        <5> QED BY <3>1, <5>1, <5>2, <5>3 DEF Visit, Sync
      <4> QED BY <3>1, <4>1, <4>2 DEF OtherStep, Others, Event, Around, Forget, Edit,
           RemoveLanguage, AddLanguage, Dismiss, Transfer
    <3>4. PICK q \in Requests : RouteStep(q)
      BY <3>3 DEF Next
    <3>5. ~Recover(q) /\ ~Claim(q) /\ ~MarkFailed(q) /\ ~RecordOutcome(q)
      <4>1. Live(q) => Token(q) \in Tokens
        BY <3>1, RunningTyped
      <4>2. {"completed", "provider_pending", "failed"} \subseteq States
        BY DEF States
      <4> QED BY <3>1, <3>2, <4>1, <4>2 DEF Recover, Claim, MarkFailed, RecordOutcome, Live
    <3> QED BY <3>1, <3>4, <3>5 DEF RouteStep, Others, Confirm, Review, Dispatch, Refuse, Throw,
           Store, AnswerEmpty, Judge, Die
  <2>2. Deletable(q) /\ Live(q) /\ Token(q).action = "delete" /\ request[q].phase = "fresh"
    BY <2>1 DEF Delete, Live
  <2>3. row.version = Token(q).version /\ content.segments = Token(q).content.segments
        /\ row.state # "provider_pending"
    BY <2>2 DEF Deletable, Unchanged, Inv, Aware
  <2>4. \A c \in calls : Open(c) => c.token.id # row.id
    BY <2>3 DEF Inv, OutcomesAreTrue
  <2> QED BY <2>2, <2>3, <2>4
<1> QED BY Invariance, <1>1, PTL DEF Spec, DeletesAreConfirmed
=============================================================================
