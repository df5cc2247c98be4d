---------------------------- MODULE AtomicLedger ---------------------------
(***************************************************************************)
(* What the write transactions of a house promise together, with nothing   *)
(* of statements, snapshots and locks: each takes effect at one moment, on *)
(* the house as it is then, or not at all.                                 *)
(*                                                                         *)
(* A bill charges everyone who is active; only people who came in by a     *)
(* claim it may miss, since the claim may fall into its posting.           *)
(***************************************************************************)
EXTENDS Integers

CONSTANTS
  Owner, Joiners, Placeholders,   \* people, as in the house
  Txs,                            \* transactions; one that posts is its expense
  First,                          \* the expense that is there from the start
  None,                           \* nobody
  Total,                          \* cents of every expense
  Sum(_)                          \* the sum of the shares of a division

VARIABLES
  member,     \* person -> membership
  claimedBy,  \* placeholder -> who claimed it
  splits,     \* expense -> participant -> share
  asked,      \* transaction -> what it was asked to do
  outcome     \* transaction -> open, done, or none: it did nothing

vars == <<member, claimedBy, splits, asked, outcome>>

People   == {Owner} \cup Joiners \cup Placeholders
Expenses == Txs \cup {First}
Active   == {u \in People : member[u] = "active"}

(* Who has claimed a placeholder. *)
Claimers == {asked[t].who : t \in {s \in Txs : asked[s].kind = "claim" /\ outcome[s] = "done"}}

(* The ways to divide an expense among people, to the cent. *)
Divisions(S) == {f \in [S -> 0..Total] : Sum(f) = Total}

(* A share passes from p to c, on top of what c owed. *)
Inherit(f, p, c) ==
  [u \in (DOMAIN f \ {p}) \cup {c} |->
     IF u # c THEN f[u] ELSE f[p] + (IF c \in DOMAIN f THEN f[c] ELSE 0)]

Requests ==
  [kind : {"create", "edit"}, want : (SUBSET People) \ {{}}, who : {None}, whom : {None}]
    \cup [kind : {"bill"}, want : {{}}, who : {None}, whom : {None}]
    \cup [kind : {"claim"}, want : {{}}, who : Joiners, whom : Placeholders]

Init ==
  /\ member \in [People -> {"absent", "active"}] /\ {Owner} \cup Placeholders \subseteq Active
  /\ claimedBy = [p \in Placeholders |-> None]
  /\ \E f \in Divisions(Active) : splits = [e \in Expenses |-> IF e = First THEN f ELSE <<>>]
  /\ asked \in [Txs -> Requests]
  /\ outcome = [t \in Txs |-> "open"]

-----------------------------------------------------------------------------
End(t, o) == /\ outcome[t] = "open"
             /\ outcome' = [outcome EXCEPT ![t] = o]
             /\ UNCHANGED asked

Write(e, S) == \E f \in Divisions(S) : splits' = [splits EXCEPT ![e] = f]

(* createExpense and editExpense: those named are all members now. *)
Create(t) == /\ asked[t].kind = "create"
             /\ asked[t].want \cup {Owner} \subseteq Active
             /\ Write(t, asked[t].want)
             /\ End(t, "done")
             /\ UNCHANGED <<member, claimedBy>>

Edit(t) == /\ asked[t].kind = "edit"
           /\ asked[t].want \cup {Owner} \subseteq Active
           /\ Write(First, asked[t].want)
           /\ End(t, "done")
           /\ UNCHANGED <<member, claimedBy>>

(* postOne: the whole house is charged, but perhaps not a claimer. *)
Bill(t) == /\ asked[t].kind = "bill"
           /\ \E S \in SUBSET Active : Active \ Claimers \subseteq S /\ Write(t, S)
           /\ End(t, "done")
           /\ UNCHANGED <<member, claimedBy>>

(* A claim: whatever the placeholder owes now, the claimer owes then. *)
Claim(t) ==
  LET p == asked[t].whom
      c == asked[t].who
  IN  /\ asked[t].kind = "claim"
      /\ p \in Active /\ claimedBy[p] = None
      /\ member' = [member EXCEPT ![p] = "left", ![c] = "active"]
      /\ claimedBy' = [claimedBy EXCEPT ![p] = c]
      /\ splits' = [e \in Expenses |-> IF p \in DOMAIN splits[e] THEN Inherit(splits[e], p, c)
                                       ELSE splits[e]]
      /\ End(t, "done")

GiveUp(t) == End(t, "none") /\ UNCHANGED <<member, claimedBy, splits>>

Next == \E t \in Txs : Create(t) \/ Edit(t) \/ Bill(t) \/ Claim(t) \/ GiveUp(t)

Spec == Init /\ [][Next]_vars
=============================================================================
