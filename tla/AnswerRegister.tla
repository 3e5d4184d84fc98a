--------------------------- MODULE AnswerRegister ---------------------------
(***************************************************************************)
(* What executeIdempotently promises about one key, without claims, leases *)
(* or polling: a register that holds at most one published answer, keeps   *)
(* it unchanged until it expires, and hands exactly that answer to later   *)
(* requests with the same body.                                            *)
(***************************************************************************)
EXTENDS Naturals

CONSTANTS Requests, HashOf, NoOne, None

VARIABLES clock, current, answer

vars == <<clock, current, answer>>

Unanswered(r) == answer[r].kind = "none"
Give(r, kind, by) ==
    /\ Unanswered(r)
    /\ answer' = [answer EXCEPT ![r] = [kind |-> kind, by |-> by]]

Init ==
    /\ clock = 0
    /\ current = None
    /\ answer = [r \in Requests |-> [kind |-> "none", by |-> NoOne]]

(* r's execution becomes the answer; r may still see an error instead.     *)
Publish(r) ==
    /\ current = None
    /\ Unanswered(r)
    /\ current' \in [by: {r}, until: Nat]
    /\ Give(r, "executed", r) \/ UNCHANGED answer
    /\ UNCHANGED clock

Replay(r) ==
    /\ current # None
    /\ HashOf[current.by] = HashOf[r]
    /\ Give(r, "replayed", current.by)
    /\ UNCHANGED <<clock, current>>

Refuse(r) ==
    /\ \E kind \in {"conflict", "error"} : Give(r, kind, NoOne)
    /\ UNCHANGED <<clock, current>>

Expire ==
    /\ current # None
    /\ current.until <= clock
    /\ current' = None
    /\ UNCHANGED <<clock, answer>>

Tick == clock' = clock + 1 /\ UNCHANGED <<current, answer>>

Next ==
    \/ \E r \in Requests : Publish(r) \/ Replay(r) \/ Refuse(r)
    \/ Expire
    \/ Tick

Spec == Init /\ [][Next]_vars
=============================================================================
