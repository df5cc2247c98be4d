---------------------------- MODULE ExactlyOnce ----------------------------
(***************************************************************************)
(* What an idempotency-keyed mutation promises its callers, with nothing   *)
(* of how: a key carries at most one write, a caller that asks under a key *)
(* already used is told of that write if it asked for the same one and is  *)
(* refused if it asked for another, and an answer once given stands.       *)
(***************************************************************************)
CONSTANTS
  Keys,       \* idempotency keys, each standing for one (key, user, endpoint)
  Bodies,     \* request bodies, up to equality of their hash
  Attempts    \* requests

VARIABLES
  asked,      \* attempt -> the set holding the [key, body] it asked for, if it asked
  posted,     \* the writes that took place, as [key, body] pairs
  verdict     \* attempt -> what it was told

vars == <<asked, posted, verdict>>

Pairs    == [key : Keys, body : Bodies]
Verdicts == {"open", "ok", "conflict", "noanswer"}

Init == /\ asked = [a \in Attempts |-> {}]
        /\ posted = {}
        /\ verdict = [a \in Attempts |-> "open"]

Ask(a, p) == /\ asked[a] = {}
             /\ asked' = [asked EXCEPT ![a] = {p}]
             /\ UNCHANGED <<posted, verdict>>

Tell(a, v) == /\ verdict[a] = "open"
              /\ verdict' = [verdict EXCEPT ![a] = v]
              /\ UNCHANGED asked

(* The write itself: the key must be unused. *)
Post(a, p) == /\ p \in asked[a]
              /\ \A q \in posted : q.key # p.key
              /\ posted' = posted \cup {p}
              /\ Tell(a, "ok")

(* The same request under a used key: told of the write that stands. *)
Replay(a, p) == /\ p \in asked[a]
                /\ p \in posted
                /\ UNCHANGED posted
                /\ Tell(a, "ok")

(* Another request under a used key. *)
Refuse(a, p) == /\ p \in asked[a]
                /\ \E q \in posted : q.key = p.key /\ q.body # p.body
                /\ UNCHANGED posted
                /\ Tell(a, "conflict")

(* Rejected by the mutation's own rules, failed, or lost: no promise. *)
GiveUp(a) == /\ UNCHANGED posted
             /\ Tell(a, "noanswer")

Next == \E a \in Attempts :
          \/ GiveUp(a)
          \/ \E p \in Pairs : Ask(a, p) \/ Post(a, p) \/ Replay(a, p) \/ Refuse(a, p)

Spec == Init /\ [][Next]_vars
=============================================================================
