----------------------------- MODULE SplitMath ------------------------------
(***************************************************************************)
(* The money math of packages/domain/src/money: computeSplits,             *)
(* divideRoomWeight, computeBalances, and the room weights the posting     *)
(* core derives from a house (packages/ledger).  People are numbers, their *)
(* order that of their ids.  What the code throws is a predicate here.     *)
(***************************************************************************)
EXTENDS Integers, FiniteSets, Sequences, Functions

CONSTANT Whole   \* basis points of a house, 10000 in the code
ASSUME WholeAssumption == Whole \in Nat \ {0}

(* remainderRecipient: who takes the cents that do not divide. *)
RemainderRecipient(S, payer) ==
  IF payer \in S THEN payer ELSE CHOOSE u \in S : \A v \in S : u =< v

(* What is left of a total goes to the recipient. *)
WithRemainder(f, total, payer) ==
  [f EXCEPT ![RemainderRecipient(DOMAIN f, payer)] = @ + total - SumFunction(f)]

(* splitByWeights *)
ValidWeights(w) == (\A u \in DOMAIN w : w[u] >= 0) /\ SumFunction(w) = Whole

SplitByWeights(total, w, payer) ==
  WithRemainder([u \in DOMAIN w |-> (total * w[u]) \div Whole], total, payer)

(* computeSplits: an input is [mode, total, payer, given], where given maps *)
(* the participants to the cents or weights they were given.               *)
Accepts(in) ==
  /\ in.total > 0 /\ DOMAIN in.given # {}
  /\ in.mode = "exact" =>
       (\A u \in DOMAIN in.given : in.given[u] >= 0) /\ SumFunction(in.given) = in.total
  /\ in.mode \in {"percent", "room_weighted"} => ValidWeights(in.given)

ComputeSplits(in) ==
  LET S == DOMAIN in.given
  IN  CASE in.mode = "equal" ->
             WithRemainder([u \in S |-> in.total \div Cardinality(S)], in.total, in.payer)
        [] in.mode = "exact" -> in.given
        [] OTHER -> SplitByWeights(in.total, in.given, in.payer)

(* divideRoomWeight: the odd points go one each to the first occupants. *)
DivideRoomWeightUneven(weight, occupants) ==
  [i \in DOMAIN occupants |-> weight \div Len(occupants)]

DivideRoomWeight(weight, occupants) ==
  LET base == weight \div Len(occupants)
      odd  == weight - base * Len(occupants)
  IN  [i \in DOMAIN occupants |-> base + (IF i =< odd THEN 1 ELSE 0)]

(* deriveRoomWeights: roomOf maps the people with a room to it, weightOf a *)
(* room to its points; each room's divide among all its occupants, in the  *)
(* order they joined, by id where they joined together.                    *)
Occupants(r, roomOf, joined) ==
  LET S      == {u \in DOMAIN roomOf : roomOf[u] = r}
      upTo(u) == {v \in S : joined[v] < joined[u] \/ (joined[v] = joined[u] /\ v =< u)}
  IN  [i \in 1..Cardinality(S) |-> CHOOSE u \in S : Cardinality(upTo(u)) = i]

DeriveRoomWeights(roomOf, weightOf, joined) ==
  [u \in DOMAIN roomOf |->
     LET o == Occupants(roomOf[u], roomOf, joined)
     IN  DivideRoomWeight(weightOf[roomOf[u]], o)[CHOOSE i \in DOMAIN o : o[i] = u]]

-----------------------------------------------------------------------------
(* computeBalances: from sets of expenses [payer, splits] and payments     *)
(* [from, to, cents, status], each told apart by an id.                    *)

(* What debtor owes creditor before the two directions are set off: shares *)
(* of what the creditor paid, and payments sent the other way.             *)
DebtCountingDisputed(expenses, payments, debtor, creditor) ==
  LET es == {e \in expenses : e.payer = creditor /\ debtor \in DOMAIN e.splits}
      ps == {p \in payments : p.from = creditor /\ p.to = debtor}
  IN  SumFunction([r \in es \cup ps |-> IF r \in es THEN r.splits[debtor] ELSE r.cents])

Debt(expenses, payments, debtor, creditor) ==
  LET es == {e \in expenses : e.payer = creditor /\ debtor \in DOMAIN e.splits}
      ps == {p \in payments : p.from = creditor /\ p.to = debtor /\ p.status # "disputed"}
  IN  SumFunction([r \in es \cup ps |-> IF r \in es THEN r.splits[debtor] ELSE r.cents])

(* pairwise: who owes whom how much, one direction a pair and never zero. *)
Pairwise(expenses, payments, people) ==
  {p \in {[from |-> d[1], to |-> d[2],
           cents |-> Debt(expenses, payments, d[1], d[2]) - Debt(expenses, payments, d[2], d[1])] :
             d \in {d \in people \X people : d[1] # d[2]}} : p.cents > 0}

(* net: positive when the house owes them. *)
Net(pairwise, u) ==
  SumFunction([p \in {q \in pairwise : q.to = u} |-> p.cents])
    - SumFunction([p \in {q \in pairwise : q.from = u} |-> p.cents])
=============================================================================
