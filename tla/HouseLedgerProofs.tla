------------------------- MODULE HouseLedgerProofs --------------------------
(***************************************************************************)
(* Theorems about HouseLedger, for any house, any number of transactions   *)
(* and every amount; the last one, that it implements AtomicLedger.        *)
(***************************************************************************)
EXTENDS HouseLedger, Sums

-----------------------------------------------------------------------------
(* The split math *)

LEMMA SumIs == \A f : Sum(f) = SumFunction(f)
BY DEF Sum, FoldFunction, SumFunction, SumFunctionOnSet

(* A division of the whole amount among people. *)
Valid(f) == f \in Splits /\ DOMAIN f # {} /\ Sum(f) = Total

LEMMA SplitType ==
  ASSUME NEW f \in Splits
  PROVE  /\ DOMAIN f \subseteq People /\ IsFiniteSet(DOMAIN f)
         /\ f = [u \in DOMAIN f |-> f[u]] /\ \A u \in DOMAIN f : f[u] \in 0..Total
<1>1. PICK S \in SUBSET People : f \in [S -> 0..Total]
  BY DEF Splits
<1>2. IsFiniteSet(S)
  BY FiniteAssumption, FS_Subset
<1>. QED
  BY <1>1, <1>2

LEMMA SplitsIntro ==
  ASSUME NEW S \in SUBSET People, NEW f \in [S -> 0..Total]
  PROVE  f \in Splits
BY DEF Splits

LEMMA Shares ==
  ASSUME NEW n \in Nat \ {0}
  PROVE  LET base == Total \div n
         IN  /\ base \in Nat /\ base =< Total /\ base * (n - 1) \in Nat
             /\ base * (n - 1) =< Total
<1>. DEFINE base == Total \div n
<1>1. Total = n * (Total \div n) + (Total % n) /\ Total % n \in 0..(n - 1)
  BY TotalAssumption
<1>2. base \in Nat
  BY TotalAssumption
<1>3. n * base = base * (n - 1) + base /\ base * (n - 1) \in Nat
  <2>. HIDE DEF base
  <2>. QED
    BY <1>2
<1>4. base =< Total /\ base * (n - 1) =< Total
  <2>. DEFINE k == base * (n - 1)
              m == Total % n
  <2>1. Total = k + base + m /\ k \in Nat /\ m \in Nat
    BY <1>1, <1>2, <1>3
  <2>2. k =< Total /\ base =< Total
    <3>. HIDE DEF k, m, base
    <3>. QED
      BY <1>2, <2>1
  <2>. QED
    BY <2>2
<1>. QED
  BY <1>2, <1>3, <1>4

(* An equal split leaves no cent over, whoever takes the odd ones. *)
LEMMA EqualSplitsValid ==
  ASSUME NEW S \in SUBSET People, S # {}
  PROVE  Valid(EqualSplits(S)) /\ DOMAIN EqualSplits(S) = S
<1>. DEFINE f == EqualSplits(S)
            r == RemainderRecipient(S)
            n == Cardinality(S)
            base == Total \div n
<1>1. IsFiniteSet(S) /\ r \in S
  BY FiniteAssumption, FS_Subset DEF RemainderRecipient
<1>2. /\ n \in Nat \ {0} /\ IsFiniteSet(S \ {r}) /\ Cardinality(S \ {r}) = n - 1
  BY <1>1, FS_CardinalityType, FS_EmptySet, FS_RemoveElement
<1>3. /\ base \in Nat /\ base =< Total /\ base * (n - 1) \in Nat /\ base * (n - 1) =< Total
  BY <1>2, Shares
<1>4. f = [u \in S |-> IF u = r THEN Total - base * (n - 1) ELSE base]
  BY DEF EqualSplits
<1>. HIDE DEF f, r, n, base
<1>5. DOMAIN f = S /\ f[r] = Total - base * (n - 1) /\ \A u \in S \ {r} : f[u] = base
  BY <1>1, <1>4
<1>6. f \in [S -> 0..Total]
  BY <1>3, <1>4, TotalAssumption
<1>7. Without(f, r) = [u \in S \ {r} |-> base]
  BY <1>5 DEF Without
<1>8. SumFunction(f) = f[r] + SumFunction(Without(f, r))
  <2>1. \A u \in DOMAIN f : f[u] \in Int
    BY <1>6
  <2>. QED
    BY <1>1, <1>5, <2>1, SumWithout
<1>9. SumFunction(Without(f, r)) = base * (n - 1)
  <2>. DEFINE rest == Without(f, r)
  <2>1. DOMAIN rest = S \ {r} /\ \A u \in S \ {r} : rest[u] = base
    BY <1>7
  <2>. HIDE DEF rest
  <2>2. SumFunction(rest) = base * Cardinality(S \ {r})
    BY <1>2, <1>3, <2>1, SumConstant
  <2>. QED
    BY <1>2, <2>2 DEF rest
<1>10. SumFunction(f) = Total
  BY <1>3, <1>5, <1>8, <1>9, TotalAssumption
<1>11. Valid(f) /\ DOMAIN f = S
  BY <1>1, <1>5, <1>6, <1>10, SumIs, SplitsIntro DEF Valid
<1>. QED
  BY <1>11 DEF f

(* A claim moves the placeholder's share, and no cent is lost. *)
LEMMA ReidentifyValid ==
  ASSUME NEW f, Valid(f), NEW p \in DOMAIN f, NEW c \in People, c # p
  PROVE  /\ Valid(Reidentify(f, p, c))
         /\ DOMAIN Reidentify(f, p, c) = (DOMAIN f \ {p}) \cup {c}
<1>. DEFINE D == DOMAIN f
            g == Reidentify(f, p, c)
            rest == [u \in D \ {p, c} |-> f[u]]
<1>1. /\ D \subseteq People /\ IsFiniteSet(D) /\ \A u \in D : f[u] \in 0..Total
  BY SplitType DEF Valid
<1>2. DOMAIN g = (D \ {p}) \cup {c} /\ \A u \in D \ {p, c} : g[u] = f[u]
  <2>1. \A u \in D : f[u] \in Int
    BY <1>1, TotalAssumption
  <2>. QED
    BY <2>1 DEF Reidentify
<1>3. g[c] = (IF c \in D THEN f[c] ELSE 0) + f[p]
  BY DEF Reidentify
<1>. HIDE DEF g
<1>4. Without(g, c) = rest
  BY <1>2 DEF Without
<1>5. IsFiniteSet(D \ {p}) /\ IsFiniteSet((D \ {p}) \cup {c})
  BY <1>1, FS_Subset, FS_AddElement
<1>6. \A u \in DOMAIN f : f[u] \in Int /\ f[u] \in Nat
  BY <1>1, TotalAssumption
<1>7. SumFunction(f) = f[p] + SumFunction(Without(f, p))
  BY <1>1, <1>6, SumWithout
<1>8. SumFunction(Without(f, p)) = (IF c \in D THEN f[c] ELSE 0) + SumFunction(rest)
  <2>. DEFINE h == Without(f, p)
  <2>1. DOMAIN h = D \ {p} /\ \A u \in D \ {p} : h[u] = f[u]
    BY DEF Without
  <2>2. CASE c \in D
    <3>1. Without(h, c) = rest
      BY <2>1 DEF Without
    <3>2. SumFunction(h) = h[c] + SumFunction(Without(h, c))
      <4>. HIDE DEF h
      <4>. QED
        BY <1>5, <1>6, <2>1, <2>2, SumWithout
    <3>. QED
      BY <2>1, <2>2, <3>1, <3>2
  <2>3. CASE c \notin D
    <3>1. h = rest
      BY <2>1, <2>3 DEF Without
    <3>2. SumFunction(rest) \in Int
      BY <1>5, <1>6, <2>1, <3>1, SumType
    <3>. QED
      BY <2>3, <3>1, <3>2
  <2>. QED
    BY <2>2, <2>3
<1>9. SumFunction(rest) \in Nat
  <2>1. DOMAIN rest = D \ {p, c} /\ \A u \in DOMAIN rest : rest[u] \in Nat
    BY <1>6
  <2>2. IsFiniteSet(D \ {p, c})
    BY <1>1, FS_Subset
  <2>. HIDE DEF rest
  <2>. QED
    BY <2>1, <2>2, SumNat
<1>. HIDE DEF rest
<1>10. f[p] \in Nat /\ (c \in D => f[c] \in Nat) /\ g[c] \in Nat /\ SumFunction(f) = Total
  BY <1>3, <1>6, SumIs DEF Valid
<1>11. SumFunction(f) = g[c] + SumFunction(rest)
  BY <1>3, <1>7, <1>8, <1>9, <1>10
<1>12. \A u \in DOMAIN g : g[u] \in Int
  BY <1>2, <1>6, <1>10
<1>13. SumFunction(g) = g[c] + SumFunction(rest)
  BY <1>2, <1>4, <1>5, <1>12, SumWithout
<1>14. g[c] \in 0..Total
  BY <1>9, <1>10, <1>11, TotalAssumption
<1>15. g = [u \in (D \ {p}) \cup {c} |-> g[u]]
  BY DEF g, Reidentify
<1>16. g \in [(D \ {p}) \cup {c} -> 0..Total]
  BY <1>1, <1>2, <1>14, <1>15
<1>17. Valid(g)
  <2>1. (D \ {p}) \cup {c} \in SUBSET People
    BY <1>1
  <2>. QED
    BY <1>2, <1>10, <1>11, <1>13, <1>16, <2>1, SumIs, SplitsIntro DEF Valid
<1>. QED
  BY <1>2, <1>17 DEF g

-----------------------------------------------------------------------------
(* The invariant *)

IsTx(r) ==
  r = [at |-> r.at, kind |-> r.kind, expense |-> r.expense, want |-> r.want, rows |-> r.rows,
       who |-> r.who, whom |-> r.whom, before |-> r.before, after |-> r.after]

TxShape == tx = [t \in Txs |-> tx[t]] /\ \A t \in Txs : IsTx(tx[t])

(* What a transaction has written down, and how far its kind can be.       *)
TxTyped(t, r) ==
  /\ r.at \in Stages /\ r.kind \in Kinds /\ r.expense \in Expenses
  /\ r.want \subseteq People /\ r.rows \subseteq People
  /\ r.who \in Joiners \cup {None} /\ r.whom \in Placeholders \cup {None}
  /\ r.kind = "claim" => r.who \in Joiners /\ r.whom \in Placeholders
  /\ r.kind \in {"create", "bill"} => r.expense = t
  /\ r.kind = "edit" => r.expense = First
  /\ r.kind \in {"create", "edit"} => r.want # {}
  /\ r.kind = "edit" /\ r.at \in {"snapped", "read", "locked", "writing"} =>
       r.expense \in DOMAIN r.before
  /\ r.at \in {"read", "locked"} => r.kind # "claim"
  /\ r.at = "writing" => r.kind \in {"edit", "claim"}
  /\ \A e \in DOMAIN r.before : e \in Expenses /\ r.before[e] \in Splits
  /\ \A e \in DOMAIN r.after : e \in Expenses /\ Valid(r.after[e])

Posting(r)  == r.kind # "claim" /\ r.at \in {"locked", "writing"}
Claiming(r) == r.kind = "claim" /\ r.at \notin {"new", "committed", "aborted"}

(* A posting that holds its locks charges rows it has locked, of members   *)
(* who are active still; what it inserts is not there yet.                 *)
PostingOK(t, r) ==
  /\ Posting(r) => /\ DOMAIN r.after = {r.expense} /\ DOMAIN r.after[r.expense] \subseteq r.rows
                   /\ \A u \in r.rows : member[u] = "active"
  /\ r.kind \in {"create", "bill"} /\ r.at # "committed" => ~ Exists(t)

(* A claim that has moved the shares has moved all there are, and they are *)
(* as it left them.                                                        *)
ClaimOK(r) ==
  r.kind = "claim" /\ r.at = "writing" =>
    /\ DOMAIN r.after = {e \in Expenses : r.whom \in DOMAIN splits[e]}
    /\ \A e \in DOMAIN r.after : r.after[e] = Reidentify(splits[e], r.whom, r.who)

TxInv == \A t \in Txs : TxTyped(t, tx[t]) /\ PostingOK(t, tx[t]) /\ ClaimOK(tx[t])

(* The locks exclude: no claim of a member whom a posting charges, and one *)
(* writer of an expense's shares.                                          *)
Compatible(q, r) ==
  /\ Posting(q) /\ Claiming(r) => r.whom \notin q.rows
  /\ Posting(r) /\ Claiming(q) => q.whom \notin r.rows
  /\ q.at = "writing" /\ r.at = "writing" => DOMAIN q.after \cap DOMAIN r.after = {}

LockInv == \A s, t \in Txs : s # t => Compatible(tx[s], tx[t])

IndInv == /\ TypeOK /\ TxShape /\ TxInv /\ LockInv
          /\ SharesAddUp /\ ClaimedOwesNothing

-----------------------------------------------------------------------------
(* Steps of one transaction that nobody sees *)

Fits(t, r) == /\ IsTx(r) /\ TxTyped(t, r) /\ PostingOK(t, r) /\ ClaimOK(r)
              /\ \A s \in Others(t) : Compatible(r, tx[s])

LEMMA ValidIsSplit == \A f : Valid(f) => f \in Splits
BY DEF Valid

LEMMA MoveKeeps ==
  ASSUME IndInv, NEW t \in Txs, NEW r, Move(t, r), Fits(t, r),
         UNCHANGED <<member, claimedBy, splits, revisions>>
  PROVE  IndInv'
<1>1. TxShape' /\ tx'[t] = r /\ \A s \in Others(t) : tx'[s] = tx[s]
  BY DEF IndInv, TxShape, Move, Fits, Others
<1>2. \A s \in Txs : TxTyped(s, tx'[s]) /\ PostingOK(s, tx'[s]) /\ ClaimOK(tx'[s])
  BY <1>1 DEF IndInv, TxInv, Fits, Others
<1>3. TypeOK'
  BY <1>2, ValidIsSplit DEF IndInv, TypeOK, TxTyped
<1>4. TxInv'
  BY <1>2 DEF TxInv, TxTyped, PostingOK, ClaimOK, Exists
<1>5. LockInv'
  <2>. SUFFICES ASSUME NEW q \in Txs, NEW s \in Txs, q # s
                PROVE  Compatible(tx'[q], tx'[s])
    BY DEF LockInv, Compatible, Posting, Claiming
  <2>1. CASE q = t
    BY <1>1, <2>1 DEF Fits, Others
  <2>2. CASE s = t
    <3>1. Compatible(r, tx[q])
      BY <2>2 DEF Fits, Others
    <3>. QED
      BY <1>1, <2>2, <3>1 DEF Others, Compatible
  <2>3. CASE q # t /\ s # t
    BY <1>1, <2>3 DEF IndInv, LockInv, Others
  <2>. QED
    BY <2>1, <2>2, <2>3
<1>6. SharesAddUp' /\ ClaimedOwesNothing'
  BY DEF IndInv, SharesAddUp, ClaimedOwesNothing, Exists
<1>. QED
  BY <1>1, <1>3, <1>4, <1>5, <1>6 DEF IndInv

(* A step that only goes on to another stage. *)
LEMMA AtShape ==
  ASSUME NEW q, IsTx(q), NEW a
  PROVE  LET r == [q EXCEPT !.at = a]
         IN  /\ IsTx(r) /\ r.at = a /\ r.kind = q.kind /\ r.expense = q.expense
             /\ r.want = q.want /\ r.rows = q.rows /\ r.who = q.who /\ r.whom = q.whom
             /\ r.before = q.before /\ r.after = q.after
BY DEF IsTx

LEMMA AbortKeeps ==
  ASSUME IndInv, NEW t \in Txs, Move(t, [tx[t] EXCEPT !.at = "aborted"]), tx[t].at # "committed",
         UNCHANGED <<member, claimedBy, splits, revisions>>
  PROVE  IndInv'
<1>1. PICK r : r = [tx[t] EXCEPT !.at = "aborted"]
  OBVIOUS
<1>2. /\ IsTx(r) /\ r.at = "aborted" /\ r.kind = tx[t].kind /\ r.expense = tx[t].expense
      /\ r.want = tx[t].want /\ r.rows = tx[t].rows /\ r.who = tx[t].who /\ r.whom = tx[t].whom
      /\ r.before = tx[t].before /\ r.after = tx[t].after
  BY <1>1, AtShape DEF IndInv, TxShape
<1>3. TxTyped(t, tx[t]) /\ PostingOK(t, tx[t])
  BY DEF IndInv, TxInv
<1>4. TxTyped(t, r) /\ PostingOK(t, r) /\ ClaimOK(r)
  BY <1>2, <1>3 DEF TxTyped, PostingOK, ClaimOK, Posting, Stages
<1>5. \A s \in Others(t) : Compatible(r, tx[s])
  BY <1>2 DEF Compatible, Posting, Claiming
<1>. QED
  BY <1>1, <1>2, <1>4, <1>5, MoveKeeps DEF Fits

LEMMA OpenEditKeeps ==
  ASSUME IndInv, NEW t \in Txs, OpenEdit(t)
  PROVE  IndInv'
<1>1. PICK r : r = [tx[t] EXCEPT !.at = "opened"]
  OBVIOUS
<1>2. /\ Move(t, r) /\ UNCHANGED <<member, claimedBy, splits, revisions>> /\ tx[t].kind = "edit"
  BY <1>1 DEF OpenEdit
<1>3. /\ IsTx(r) /\ r.at = "opened" /\ r.kind = tx[t].kind /\ r.expense = tx[t].expense
      /\ r.want = tx[t].want /\ r.rows = tx[t].rows /\ r.who = tx[t].who /\ r.whom = tx[t].whom
      /\ r.before = tx[t].before /\ r.after = tx[t].after
  BY <1>1, AtShape DEF IndInv, TxShape
<1>4. TxTyped(t, tx[t])
  BY DEF IndInv, TxInv
<1>5. TxTyped(t, r) /\ PostingOK(t, r) /\ ClaimOK(r)
  BY <1>2, <1>3, <1>4 DEF TxTyped, PostingOK, ClaimOK, Posting, Stages
<1>6. \A s \in Others(t) : Compatible(r, tx[s])
  BY <1>2, <1>3 DEF Compatible, Posting, Claiming
<1>. QED
  BY <1>2, <1>3, <1>5, <1>6, MoveKeeps DEF Fits

(* Steps that also write something down. *)
WithRows(q, a, v)   == [q EXCEPT !.at = a, !.rows = v]
WithBefore(q, a, v) == [q EXCEPT !.at = a, !.before = v]
WithAfter(q, a, v)  == [q EXCEPT !.at = a, !.after = v]

LEMMA WithRowsShape ==
  ASSUME NEW q, IsTx(q), NEW a, NEW v
  PROVE  LET r == WithRows(q, a, v)
         IN  /\ IsTx(r) /\ r.at = a /\ r.rows = v /\ r.kind = q.kind
             /\ r.expense = q.expense /\ r.want = q.want /\ r.who = q.who
             /\ r.whom = q.whom /\ r.before = q.before /\ r.after = q.after
<1>. DEFINE o == [q EXCEPT !.at = a]
<1>1. /\ IsTx(o) /\ o.at = a /\ o.kind = q.kind /\ o.expense = q.expense
      /\ o.want = q.want /\ o.rows = q.rows /\ o.who = q.who /\ o.whom = q.whom
      /\ o.before = q.before /\ o.after = q.after
  BY AtShape
<1>2. WithRows(q, a, v) = [o EXCEPT !.rows = v]
  BY DEF WithRows
<1>. HIDE DEF o
<1>. QED
  BY <1>1, <1>2 DEF IsTx

LEMMA WithBeforeShape ==
  ASSUME NEW q, IsTx(q), NEW a, NEW v
  PROVE  LET r == WithBefore(q, a, v)
         IN  /\ IsTx(r) /\ r.at = a /\ r.before = v /\ r.kind = q.kind
             /\ r.expense = q.expense /\ r.want = q.want /\ r.rows = q.rows
             /\ r.who = q.who /\ r.whom = q.whom /\ r.after = q.after
<1>. DEFINE o == [q EXCEPT !.at = a]
<1>1. /\ IsTx(o) /\ o.at = a /\ o.kind = q.kind /\ o.expense = q.expense
      /\ o.want = q.want /\ o.rows = q.rows /\ o.who = q.who /\ o.whom = q.whom
      /\ o.before = q.before /\ o.after = q.after
  BY AtShape
<1>2. WithBefore(q, a, v) = [o EXCEPT !.before = v]
  BY DEF WithBefore
<1>. HIDE DEF o
<1>. QED
  BY <1>1, <1>2 DEF IsTx

LEMMA WithAfterShape ==
  ASSUME NEW q, IsTx(q), NEW a, NEW v
  PROVE  LET r == WithAfter(q, a, v)
         IN  /\ IsTx(r) /\ r.at = a /\ r.after = v /\ r.kind = q.kind
             /\ r.expense = q.expense /\ r.want = q.want /\ r.rows = q.rows
             /\ r.who = q.who /\ r.whom = q.whom /\ r.before = q.before
<1>. DEFINE o == [q EXCEPT !.at = a]
<1>1. /\ IsTx(o) /\ o.at = a /\ o.kind = q.kind /\ o.expense = q.expense
      /\ o.want = q.want /\ o.rows = q.rows /\ o.who = q.who /\ o.whom = q.whom
      /\ o.before = q.before /\ o.after = q.after
  BY AtShape
<1>2. WithAfter(q, a, v) = [o EXCEPT !.after = v]
  BY DEF WithAfter
<1>. HIDE DEF o
<1>. QED
  BY <1>1, <1>2 DEF IsTx

LEMMA ReadMembersKeeps ==
  ASSUME IndInv, NEW t \in Txs, ReadMembers(t)
  PROVE  IndInv'
<1>. DEFINE R == {u \in Scope(t) : member[u] = "active"}
            r == WithRows(tx[t], "read", R)
<1>1. /\ Move(t, r) /\ UNCHANGED <<member, claimedBy, splits, revisions>>
      /\ tx[t].kind # "claim" /\ tx[t].at # "committed"
      /\ tx[t].kind = "edit" => tx[t].at = "snapped"
  BY DEF ReadMembers, WithRows
<1>2. IsTx(tx[t]) /\ TxTyped(t, tx[t]) /\ PostingOK(t, tx[t])
  BY DEF IndInv, TxShape, TxInv
<1>3. /\ IsTx(r) /\ r.at = "read" /\ r.rows = R /\ r.kind = tx[t].kind
      /\ r.expense = tx[t].expense /\ r.want = tx[t].want /\ r.who = tx[t].who
      /\ r.whom = tx[t].whom /\ r.before = tx[t].before /\ r.after = tx[t].after
  BY <1>2, WithRowsShape
<1>4. R \subseteq People
  BY <1>2 DEF Scope, TxTyped, People
<1>. HIDE DEF r, R
<1>5. TxTyped(t, r) /\ PostingOK(t, r) /\ ClaimOK(r)
  BY <1>1, <1>2, <1>3, <1>4 DEF TxTyped, PostingOK, ClaimOK, Posting, Stages
<1>6. \A s \in Others(t) : Compatible(r, tx[s])
  BY <1>1, <1>3 DEF Compatible, Posting, Claiming
<1>. QED
  BY <1>1, <1>3, <1>5, <1>6, MoveKeeps DEF Fits

LEMMA LockMembersKeeps ==
  ASSUME IndInv, NEW t \in Txs, LockMembers(t)
  PROVE  IndInv'
<1>. DEFINE R == {u \in tx[t].rows : member[u] = "active"}
            S == Charged(t, R)
            e == tx[t].expense
            o == WithRows(tx[t], "locked", R)
            r == WithAfter(o, "locked", [x \in {e} |-> EqualSplits(S)])
<1>1. /\ tx[t].at = "read" /\ UNCHANGED <<member, claimedBy, splits, revisions>>
      /\ \A s \in Others(t), u \in tx[t].rows : ~ LocksMember(s, u)
  BY DEF LockMembers
<1>2. IsTx(tx[t]) /\ TxTyped(t, tx[t]) /\ PostingOK(t, tx[t])
  BY DEF IndInv, TxShape, TxInv
<1>3. CASE ~ (S \cup {Owner} \subseteq R)
  BY <1>1, <1>3, AbortKeeps DEF LockMembers
<1>4. CASE S \cup {Owner} \subseteq R
  <2>1. Move(t, r)
    <3>1. Move(t, [tx[t] EXCEPT !.at = "locked", !.rows = R, !.after = [x \in {e} |-> EqualSplits(S)]])
      BY <1>4 DEF LockMembers
    <3>2. [tx[t] EXCEPT !.at = "locked", !.rows = R, !.after = [x \in {e} |-> EqualSplits(S)]] = r
      BY <1>2 DEF WithRows, WithAfter, IsTx
    <3>. QED
      BY <3>1, <3>2
  <2>2. /\ IsTx(r) /\ r.at = "locked" /\ r.rows = R /\ r.after = [x \in {e} |-> EqualSplits(S)]
        /\ r.kind = tx[t].kind /\ r.expense = e /\ r.want = tx[t].want /\ r.who = tx[t].who
        /\ r.whom = tx[t].whom /\ r.before = tx[t].before
    BY <1>2, WithRowsShape, WithAfterShape
  <2>3. R \subseteq tx[t].rows /\ R \subseteq People /\ \A u \in R : member[u] = "active"
    BY <1>2 DEF TxTyped
  <2>4. S # {} /\ S \subseteq R
    BY <1>1, <1>2, <1>4 DEF Charged, TxTyped, Kinds
  <2>. DEFINE f == EqualSplits(S)
  <2>5. Valid(f) /\ DOMAIN f = S
    BY <2>3, <2>4, EqualSplitsValid
  <2>. HIDE DEF f, r, R, S
  <2>6. DOMAIN r.after = {e} /\ r.after[e] = f
    BY <2>2 DEF f
  <2>7. TxTyped(t, r)
    BY <1>1, <1>2, <2>2, <2>3, <2>5, <2>6 DEF TxTyped, Stages
  <2>8. PostingOK(t, r) /\ ClaimOK(r)
    BY <1>1, <1>2, <2>2, <2>3, <2>4, <2>5, <2>6 DEF PostingOK, ClaimOK, TxTyped
  <2>9. \A s \in Others(t) : Compatible(r, tx[s])
    BY <1>1, <1>2, <2>2, <2>3
       DEF Compatible, Posting, Claiming, LocksMember, Open, TxTyped
  <2>. QED
    BY <1>1, <2>1, <2>2, <2>7, <2>8, <2>9, MoveKeeps DEF Fits
<1>. QED
  BY <1>3, <1>4

LEMMA SnapSplitsKeeps ==
  ASSUME IndInv, NEW t \in Txs, SnapSplits(t)
  PROVE  IndInv'
<1>. DEFINE e == tx[t].expense
            b == [x \in {e} |-> splits[x]]
            r == WithBefore(tx[t], "snapped", b)
<1>1. /\ Move(t, r) /\ UNCHANGED <<member, claimedBy, splits, revisions>> /\ tx[t].kind = "edit"
  BY DEF SnapSplits, WithBefore
<1>2. IsTx(tx[t]) /\ TxTyped(t, tx[t])
  BY DEF IndInv, TxShape, TxInv
<1>3. /\ IsTx(r) /\ r.at = "snapped" /\ r.before = b /\ r.kind = tx[t].kind
      /\ r.expense = tx[t].expense /\ r.want = tx[t].want /\ r.rows = tx[t].rows
      /\ r.who = tx[t].who /\ r.whom = tx[t].whom /\ r.after = tx[t].after
  BY <1>2, WithBeforeShape
<1>4. e \in Expenses /\ DOMAIN b = {e} /\ b[e] = splits[e] /\ splits[e] \in Splits
  BY <1>2 DEF IndInv, TypeOK, TxTyped
<1>. HIDE DEF r, b
<1>5. TxTyped(t, r) /\ PostingOK(t, r) /\ ClaimOK(r)
  BY <1>1, <1>2, <1>3, <1>4 DEF TxTyped, PostingOK, ClaimOK, Posting, Stages
<1>6. \A s \in Others(t) : Compatible(r, tx[s])
  BY <1>1, <1>3 DEF Compatible, Posting, Claiming
<1>. QED
  BY <1>1, <1>3, <1>5, <1>6, MoveKeeps DEF Fits

LEMMA ReplaceSplitsKeeps ==
  ASSUME IndInv, NEW t \in Txs, ReplaceSplits(t)
  PROVE  IndInv'
<1>1. PICK r : r = [tx[t] EXCEPT !.at = "writing"]
  OBVIOUS
<1>2. /\ Move(t, r) /\ UNCHANGED <<member, claimedBy, splits, revisions>>
      /\ tx[t].kind = "edit" /\ tx[t].at = "locked"
      /\ \A s \in Others(t) : ~ LocksSplits(s, tx[t].expense)
  BY <1>1 DEF ReplaceSplits
<1>3. /\ IsTx(r) /\ r.at = "writing" /\ r.kind = tx[t].kind /\ r.expense = tx[t].expense
      /\ r.want = tx[t].want /\ r.rows = tx[t].rows /\ r.who = tx[t].who /\ r.whom = tx[t].whom
      /\ r.before = tx[t].before /\ r.after = tx[t].after
  BY <1>1, AtShape DEF IndInv, TxShape
<1>4. TxTyped(t, tx[t]) /\ PostingOK(t, tx[t]) /\ \A s \in Others(t) : Compatible(tx[t], tx[s])
  BY DEF IndInv, TxInv, LockInv, Others
<1>5. TxTyped(t, r) /\ PostingOK(t, r) /\ ClaimOK(r)
  BY <1>2, <1>3, <1>4 DEF TxTyped, PostingOK, ClaimOK, Posting, Stages
<1>6. \A s \in Others(t) : Compatible(r, tx[s])
  BY <1>2, <1>3, <1>4 DEF Compatible, Posting, Claiming, LocksSplits, PostingOK
<1>. QED
  BY <1>2, <1>3, <1>5, <1>6, MoveKeeps DEF Fits

LEMMA LockPlaceholderKeeps ==
  ASSUME IndInv, NEW t \in Txs, LockPlaceholder(t)
  PROVE  IndInv'
<1>. DEFINE p == tx[t].whom
<1>1. PICK at \in {"opened", "aborted"} : Move(t, [tx[t] EXCEPT !.at = at])
  BY DEF LockPlaceholder
<1>2. PICK r : r = [tx[t] EXCEPT !.at = at]
  OBVIOUS
<1>3. /\ Move(t, r) /\ UNCHANGED <<member, claimedBy, splits, revisions>> /\ tx[t].kind = "claim"
      /\ \A s \in Others(t) : ~ SharesMember(s, p)
  BY <1>1, <1>2 DEF LockPlaceholder
<1>4. /\ IsTx(r) /\ r.at = at /\ r.kind = tx[t].kind /\ r.expense = tx[t].expense
      /\ r.want = tx[t].want /\ r.rows = tx[t].rows /\ r.who = tx[t].who /\ r.whom = tx[t].whom
      /\ r.before = tx[t].before /\ r.after = tx[t].after
  BY <1>2, AtShape DEF IndInv, TxShape
<1>5. TxTyped(t, tx[t])
  BY DEF IndInv, TxInv
<1>6. TxTyped(t, r) /\ PostingOK(t, r) /\ ClaimOK(r)
  BY <1>3, <1>4, <1>5 DEF TxTyped, PostingOK, ClaimOK, Posting, Stages
<1>7. \A s \in Others(t) : Compatible(r, tx[s])
  BY <1>3, <1>4 DEF Compatible, Posting, Claiming, SharesMember
<1>. QED
  BY <1>3, <1>4, <1>6, <1>7, MoveKeeps DEF Fits

LEMMA ReadFoldsKeeps ==
  ASSUME IndInv, NEW t \in Txs, ReadFolds(t)
  PROVE  IndInv'
<1>. DEFINE folds == {e \in Expenses : Folds(e, tx[t].whom, tx[t].who)}
            b == [e \in folds |-> splits[e]]
            r == WithBefore(tx[t], "folding", b)
<1>1. /\ Move(t, r) /\ UNCHANGED <<member, claimedBy, splits, revisions>>
      /\ tx[t].kind = "claim" /\ tx[t].at = "opened"
  BY DEF ReadFolds, WithBefore
<1>2. /\ IsTx(tx[t]) /\ TxTyped(t, tx[t]) /\ \A s \in Others(t) : Compatible(tx[t], tx[s])
  BY DEF IndInv, TxShape, TxInv, LockInv, Others
<1>3. /\ IsTx(r) /\ r.at = "folding" /\ r.before = b /\ r.kind = tx[t].kind
      /\ r.expense = tx[t].expense /\ r.want = tx[t].want /\ r.rows = tx[t].rows
      /\ r.who = tx[t].who /\ r.whom = tx[t].whom /\ r.after = tx[t].after
  BY <1>2, WithBeforeShape
<1>4. \A e \in DOMAIN b : e \in Expenses /\ b[e] \in Splits
  BY DEF IndInv, TypeOK
<1>. HIDE DEF r, b
<1>5. TxTyped(t, r) /\ PostingOK(t, r) /\ ClaimOK(r)
  BY <1>1, <1>2, <1>3, <1>4 DEF TxTyped, PostingOK, ClaimOK, Posting, Stages
<1>6. \A s \in Others(t) : Compatible(r, tx[s])
  BY <1>1, <1>2, <1>3 DEF Compatible, Posting, Claiming
<1>. QED
  BY <1>1, <1>3, <1>5, <1>6, MoveKeeps DEF Fits

LEMMA InsertRevisionsKeeps ==
  ASSUME IndInv, NEW t \in Txs, InsertRevisions(t)
  PROVE  IndInv'
<1>1. PICK r : r = [tx[t] EXCEPT !.at = "folded"]
  OBVIOUS
<1>2. /\ Move(t, r) /\ UNCHANGED <<member, claimedBy, splits, revisions>>
      /\ tx[t].kind = "claim" /\ tx[t].at = "folding"
  BY <1>1 DEF InsertRevisions
<1>3. /\ IsTx(r) /\ r.at = "folded" /\ r.kind = tx[t].kind /\ r.expense = tx[t].expense
      /\ r.want = tx[t].want /\ r.rows = tx[t].rows /\ r.who = tx[t].who /\ r.whom = tx[t].whom
      /\ r.before = tx[t].before /\ r.after = tx[t].after
  BY <1>1, AtShape DEF IndInv, TxShape
<1>4. TxTyped(t, tx[t]) /\ \A s \in Others(t) : Compatible(tx[t], tx[s])
  BY DEF IndInv, TxInv, LockInv, Others
<1>5. TxTyped(t, r) /\ PostingOK(t, r) /\ ClaimOK(r)
  BY <1>2, <1>3, <1>4 DEF TxTyped, PostingOK, ClaimOK, Posting, Stages
<1>6. \A s \in Others(t) : Compatible(r, tx[s])
  BY <1>2, <1>3, <1>4 DEF Compatible, Posting, Claiming
<1>. QED
  BY <1>2, <1>3, <1>5, <1>6, MoveKeeps DEF Fits

LEMMA MoveSplitsKeeps ==
  ASSUME IndInv, NEW t \in Txs, MoveSplits(t)
  PROVE  IndInv'
<1>. DEFINE p == tx[t].whom
            c == tx[t].who
            es == {e \in Expenses : p \in DOMAIN splits[e]}
            a == [e \in es |-> Reidentify(splits[e], p, c)]
            r == WithAfter(tx[t], "writing", a)
<1>1. /\ Move(t, r) /\ UNCHANGED <<member, claimedBy, splits, revisions>>
      /\ tx[t].kind = "claim" /\ tx[t].at = "folded"
      /\ \A s \in Others(t), e \in es : ~ LocksSplits(s, e)
  BY DEF MoveSplits, WithAfter
<1>2. /\ IsTx(tx[t]) /\ TxTyped(t, tx[t]) /\ \A s \in Others(t) : Compatible(tx[t], tx[s])
  BY DEF IndInv, TxShape, TxInv, LockInv, Others
<1>3. /\ IsTx(r) /\ r.at = "writing" /\ r.after = a /\ r.kind = tx[t].kind
      /\ r.expense = tx[t].expense /\ r.want = tx[t].want /\ r.rows = tx[t].rows
      /\ r.who = tx[t].who /\ r.whom = tx[t].whom /\ r.before = tx[t].before
  BY <1>2, WithAfterShape
<1>4. c \in People /\ c # p
  BY <1>1, <1>2, DistinctAssumption DEF TxTyped, People
<1>5. DOMAIN a = es /\ \A e \in es : a[e] = Reidentify(splits[e], p, c)
  OBVIOUS
<1>6. ASSUME NEW e \in es
      PROVE  Valid(a[e])
  <2>1. Valid(splits[e]) /\ p \in DOMAIN splits[e]
    BY DEF IndInv, TypeOK, SharesAddUp, Exists, Valid
  <2>. QED
    BY <1>4, <1>5, <2>1, ReidentifyValid
<1>. HIDE DEF r, a
<1>7. TxTyped(t, r)
  BY <1>1, <1>2, <1>3, <1>5, <1>6 DEF TxTyped, Stages
<1>8. PostingOK(t, r) /\ ClaimOK(r)
  BY <1>1, <1>3, <1>5 DEF PostingOK, ClaimOK, Posting
<1>9. \A s \in Others(t) : Compatible(r, tx[s])
  BY <1>1, <1>2, <1>3, <1>5 DEF Compatible, Posting, Claiming, LocksSplits
<1>. QED
  BY <1>1, <1>3, <1>7, <1>8, <1>9, MoveKeeps DEF Fits

-----------------------------------------------------------------------------
(* Commits *)

(* What a commit leaves to be shown, beside what it wrote: the others'     *)
(* notes still fit the tables.                                             *)
OthersFit(t) == \A s \in Others(t) : PostingOK(s, tx[s]) /\ ClaimOK(tx[s])

LEMMA AtCommit ==
  ASSUME NEW q, IsTx(q), NEW r, r = [q EXCEPT !.at = "committed"]
  PROVE  /\ IsTx(r) /\ r.at = "committed" /\ r.kind = q.kind /\ r.expense = q.expense
         /\ r.want = q.want /\ r.rows = q.rows /\ r.who = q.who /\ r.whom = q.whom
         /\ r.before = q.before /\ r.after = q.after
<1>. DEFINE o == [q EXCEPT !.at = "committed"]
<1>1. /\ IsTx(o) /\ o.at = "committed" /\ o.kind = q.kind /\ o.expense = q.expense
      /\ o.want = q.want /\ o.rows = q.rows /\ o.who = q.who /\ o.whom = q.whom
      /\ o.before = q.before /\ o.after = q.after
  BY AtShape
<1>2. r = o
  OBVIOUS
<1>. HIDE DEF o
<1>. QED
  BY <1>1, <1>2

LEMMA Elsewhere ==
  ASSUME TxShape, NEW t \in Txs, NEW r, Move(t, r)
  PROVE  \A s \in Others(t) : s \in Txs /\ tx'[s] = tx[s]
BY DEF TxShape, Move, Others

LEMMA CommitKeeps ==
  ASSUME IndInv, NEW t \in Txs, Move(t, [tx[t] EXCEPT !.at = "committed"]),
         member' \in [People -> {"absent", "active", "left"}],
         claimedBy' \in [Placeholders -> Joiners \cup {None}],
         splits' \in [Expenses -> Splits],
         revisions' \in [Expenses -> Seq(Splits)],
         OthersFit(t)', SharesAddUp', ClaimedOwesNothing'
  PROVE  IndInv'
<1>1. PICK r : r = [tx[t] EXCEPT !.at = "committed"]
  OBVIOUS
<1>2. /\ IsTx(r) /\ r.at = "committed" /\ r.kind = tx[t].kind /\ r.expense = tx[t].expense
      /\ r.want = tx[t].want /\ r.rows = tx[t].rows /\ r.who = tx[t].who /\ r.whom = tx[t].whom
      /\ r.before = tx[t].before /\ r.after = tx[t].after
  <2>1. IsTx(tx[t])
    BY DEF IndInv, TxShape
  <2>. QED
    BY <1>1, <2>1, AtCommit
<1>3. /\ TxShape' /\ tx'[t] = r /\ \A s \in Others(t) : tx'[s] = tx[s]
  <2>1. Move(t, r)
    BY <1>1
  <2>. QED
    BY <1>2, <2>1 DEF IndInv, TxShape, Move, Others
<1>4. TxTyped(t, r)
  <2>1. TxTyped(t, tx[t])
    BY DEF IndInv, TxInv
  <2>. QED
    BY <1>2, <2>1 DEF TxTyped, Stages
<1>5. \A s \in Txs : TxTyped(s, tx'[s])
  BY <1>3, <1>4 DEF IndInv, TxInv, Others
<1>6. TypeOK'
  BY <1>5, ValidIsSplit DEF TypeOK, TxTyped
<1>7. TxInv'
  <2>1. PostingOK(t, tx[t])' /\ ClaimOK(tx[t])'
    BY <1>2, <1>3 DEF PostingOK, ClaimOK, Posting
  <2>2. \A s \in Txs : TxTyped(s, tx[s])'
    BY <1>5 DEF TxTyped
  <2>. QED
    BY <1>3, <2>1, <2>2 DEF TxInv, Others, OthersFit
<1>8. LockInv'
  <2>. SUFFICES ASSUME NEW q \in Txs, NEW s \in Txs, q # s
                PROVE  Compatible(tx'[q], tx'[s])
    BY DEF LockInv, Compatible, Posting, Claiming
  <2>1. CASE q = t \/ s = t
    BY <1>2, <1>3, <2>1 DEF Compatible, Posting, Claiming
  <2>2. CASE q # t /\ s # t
    BY <1>3, <2>2 DEF IndInv, LockInv, Others
  <2>. QED
    BY <2>1, <2>2
<1>. QED
  BY <1>3, <1>6, <1>7, <1>8 DEF IndInv

LEMMA CommitPostingKeeps ==
  ASSUME IndInv, NEW t \in Txs, CommitPosting(t)
  PROVE  IndInv'
<1>. DEFINE f == tx[t].after[t]
<1>1. /\ Move(t, [tx[t] EXCEPT !.at = "committed"])
      /\ UNCHANGED <<member, claimedBy, revisions>> /\ splits' = [splits EXCEPT ![t] = f]
      /\ tx[t].kind \in {"create", "bill"} /\ tx[t].at = "locked"
  BY DEF CommitPosting
<1>2. /\ TxTyped(t, tx[t]) /\ PostingOK(t, tx[t]) /\ t \in Expenses
      /\ splits \in [Expenses -> Splits]
  BY DEF IndInv, TxInv, TypeOK, Expenses
<1>3. /\ Valid(f) /\ DOMAIN f \subseteq tx[t].rows /\ ~ Exists(t)
      /\ \A u \in tx[t].rows : member[u] = "active"
  BY <1>1, <1>2 DEF PostingOK, Posting, TxTyped
<1>4. splits'[t] = f /\ \A e \in Expenses \ {t} : splits'[e] = splits[e]
  BY <1>1, <1>2
<1>5. splits' \in [Expenses -> Splits]
  BY <1>1, <1>2, <1>3, ValidIsSplit
<1>. HIDE DEF f
<1>6. ASSUME NEW s \in Others(t)
      PROVE  PostingOK(s, tx[s])' /\ ClaimOK(tx[s])'
  <2>. tx'[s] = tx[s]
    BY <1>1, Elsewhere DEF IndInv
  <2>1. s \in Expenses \ {t} /\ PostingOK(s, tx[s]) /\ ClaimOK(tx[s]) /\ Compatible(tx[t], tx[s])
    BY DEF IndInv, TxInv, LockInv, Others, Expenses
  <2>2. PostingOK(s, tx[s])'
    BY <1>1, <1>4, <1>6, <2>1 DEF PostingOK, Exists, Posting
  <2>3. ASSUME tx[s].kind = "claim", tx[s].at = "writing"
        PROVE  /\ DOMAIN tx[s].after = {e \in Expenses : tx[s].whom \in DOMAIN splits'[e]}
               /\ \A e \in DOMAIN tx[s].after :
                    tx[s].after[e] = Reidentify(splits'[e], tx[s].whom, tx[s].who)
    <3>1. tx[s].whom \notin DOMAIN f
      BY <1>1, <1>3, <2>1, <2>3 DEF Compatible, Posting, Claiming
    <3>. QED
      BY <1>2, <1>3, <1>4, <2>1, <2>3, <3>1 DEF ClaimOK, Exists
  <2>4. ClaimOK(tx[s])'
    BY <1>6, <2>3 DEF ClaimOK, Reidentify
  <2>. QED
    BY <2>2, <2>4
<1>7. SharesAddUp'
  BY <1>3, <1>4 DEF SharesAddUp, IndInv, Valid, Exists
<1>8. ClaimedOwesNothing'
  BY <1>1, <1>3, <1>4 DEF ClaimedOwesNothing, IndInv
<1>9. OthersFit(t)'
  BY <1>6 DEF OthersFit
<1>. QED
  BY <1>1, <1>5, <1>7, <1>8, <1>9, CommitKeeps DEF IndInv, TypeOK

LEMMA CommitEditKeeps ==
  ASSUME IndInv, NEW t \in Txs, CommitEdit(t)
  PROVE  IndInv'
<1>. DEFINE e == tx[t].expense
            f == tx[t].after[e]
            b == tx[t].before[e]
<1>1. /\ Move(t, [tx[t] EXCEPT !.at = "committed"])
      /\ UNCHANGED <<member, claimedBy>> /\ splits' = [splits EXCEPT ![e] = f]
      /\ revisions' = [revisions EXCEPT ![e] = Append(@, b)]
      /\ tx[t].kind = "edit" /\ tx[t].at = "writing"
  BY DEF CommitEdit
<1>2. /\ TxTyped(t, tx[t]) /\ PostingOK(t, tx[t])
      /\ splits \in [Expenses -> Splits] /\ revisions \in [Expenses -> Seq(Splits)]
  BY DEF IndInv, TxInv, TypeOK
<1>3. /\ e = First /\ e \in Expenses /\ e \notin Txs /\ b \in Splits
      /\ Valid(f) /\ DOMAIN tx[t].after = {e} /\ DOMAIN f \subseteq tx[t].rows
      /\ \A u \in tx[t].rows : member[u] = "active"
  BY <1>1, <1>2, DistinctAssumption DEF PostingOK, Posting, TxTyped
<1>. HIDE DEF f, b, e
<1>4. splits'[e] = f /\ \A x \in Expenses \ {e} : splits'[x] = splits[x]
  BY <1>1, <1>2, <1>3
<1>5. splits' \in [Expenses -> Splits]
  BY <1>1, <1>2, <1>3, ValidIsSplit
<1>6. revisions' \in [Expenses -> Seq(Splits)]
  BY <1>1, <1>2, <1>3
<1>7. ASSUME NEW s \in Others(t)
      PROVE  PostingOK(s, tx[s])' /\ ClaimOK(tx[s])'
  <2>. tx'[s] = tx[s]
    BY <1>1, Elsewhere DEF IndInv
  <2>1. /\ s \in Txs /\ s \in Expenses \ {e}
        /\ PostingOK(s, tx[s]) /\ ClaimOK(tx[s]) /\ Compatible(tx[t], tx[s])
    BY <1>3 DEF IndInv, TxInv, LockInv, Others, Expenses
  <2>2. PostingOK(s, tx[s])'
    BY <1>1, <1>4, <2>1 DEF PostingOK, Exists, Posting
  <2>3. ASSUME tx[s].kind = "claim", tx[s].at = "writing"
        PROVE  /\ DOMAIN tx[s].after = {x \in Expenses : tx[s].whom \in DOMAIN splits'[x]}
               /\ \A x \in DOMAIN tx[s].after :
                    tx[s].after[x] = Reidentify(splits'[x], tx[s].whom, tx[s].who)
    <3>1. tx[s].whom \notin DOMAIN f /\ e \notin DOMAIN tx[s].after
      BY <1>1, <1>3, <2>1, <2>3 DEF Compatible, Posting, Claiming
    <3>. QED
      BY <1>3, <1>4, <2>1, <2>3, <3>1 DEF ClaimOK
  <2>4. ClaimOK(tx[s])'
    BY <2>3 DEF ClaimOK, Reidentify
  <2>. QED
    BY <2>2, <2>4
<1>8. OthersFit(t)'
  BY <1>7 DEF OthersFit
<1>9. SharesAddUp'
  BY <1>3, <1>4 DEF SharesAddUp, IndInv, Valid, Exists
<1>10. ClaimedOwesNothing'
  BY <1>1, <1>3, <1>4 DEF ClaimedOwesNothing, IndInv
<1>. QED
  BY <1>1, <1>5, <1>6, <1>8, <1>9, <1>10, CommitKeeps DEF IndInv, TypeOK

LEMMA CommitClaimKeeps ==
  ASSUME IndInv, NEW t \in Txs, CommitClaim(t)
  PROVE  IndInv'
<1>. DEFINE p == tx[t].whom
            c == tx[t].who
            after == tx[t].after
            before == tx[t].before
<1>1. /\ Move(t, [tx[t] EXCEPT !.at = "committed"])
      /\ member' = [member EXCEPT ![p] = "left", ![c] = "active"]
      /\ claimedBy' = [claimedBy EXCEPT ![p] = c]
      /\ splits' = [e \in Expenses |-> IF e \in DOMAIN after THEN after[e] ELSE splits[e]]
      /\ revisions' = [e \in Expenses |-> IF e \in DOMAIN before THEN Append(revisions[e], before[e])
                                          ELSE revisions[e]]
      /\ tx[t].kind = "claim" /\ tx[t].at = "writing"
  BY DEF CommitClaim
<1>2. /\ TxTyped(t, tx[t]) /\ ClaimOK(tx[t])
      /\ member \in [People -> {"absent", "active", "left"}]
      /\ claimedBy \in [Placeholders -> Joiners \cup {None}]
      /\ splits \in [Expenses -> Splits] /\ revisions \in [Expenses -> Seq(Splits)]
  BY DEF IndInv, TxInv, TypeOK
<1>3. /\ p \in Placeholders /\ c \in Joiners /\ p # c /\ p \in People /\ c \in People
      /\ \A e \in DOMAIN before : e \in Expenses /\ before[e] \in Splits
      /\ \A e \in DOMAIN after : e \in Expenses /\ Valid(after[e])
      /\ DOMAIN after = {e \in Expenses : p \in DOMAIN splits[e]}
      /\ \A e \in DOMAIN after : after[e] = Reidentify(splits[e], p, c)
  BY <1>1, <1>2, DistinctAssumption DEF TxTyped, ClaimOK, People
<1>. HIDE DEF p, c, after, before
<1>4. /\ member'[p] = "left" /\ member'[c] = "active"
      /\ \A u \in People \ {p, c} : member'[u] = member[u]
  BY <1>1, <1>2, <1>3
<1>5. /\ \A e \in DOMAIN after : splits'[e] = after[e]
      /\ \A e \in Expenses \ DOMAIN after : splits'[e] = splits[e]
  BY <1>1, <1>3
<1>6. member' \in [People -> {"absent", "active", "left"}]
  BY <1>1, <1>2, <1>3
<1>7. claimedBy' \in [Placeholders -> Joiners \cup {None}]
  BY <1>1, <1>2, <1>3
<1>8. splits' \in [Expenses -> Splits]
  BY <1>1, <1>2, <1>3, ValidIsSplit
<1>9. revisions' \in [Expenses -> Seq(Splits)]
  <2>. SUFFICES ASSUME NEW e \in Expenses
                PROVE  revisions'[e] \in Seq(Splits)
    BY <1>1
  <2>1. CASE e \in DOMAIN before
    BY <1>1, <1>2, <1>3, <2>1
  <2>2. CASE e \notin DOMAIN before
    BY <1>1, <1>2, <2>2
  <2>. QED
    BY <2>1, <2>2
<1>10. ASSUME NEW e \in DOMAIN after
       PROVE  DOMAIN after[e] = (DOMAIN splits[e] \ {p}) \cup {c}
  <2>1. after[e] = Reidentify(splits[e], p, c)
    BY <1>3
  <2>2. \A m, x, y : DOMAIN Reidentify(m, x, y) = (DOMAIN m \ {x}) \cup {y}
    BY DEF Reidentify
  <2>. QED
    BY <2>1, <2>2
<1>11. ASSUME NEW s \in Others(t)
       PROVE  PostingOK(s, tx[s])' /\ ClaimOK(tx[s])'
  <2>. tx'[s] = tx[s]
    BY <1>1, Elsewhere DEF IndInv
  <2>1. /\ s \in Txs /\ s \in Expenses /\ TxTyped(s, tx[s])
        /\ PostingOK(s, tx[s]) /\ ClaimOK(tx[s]) /\ Compatible(tx[t], tx[s])
    BY DEF IndInv, TxInv, LockInv, Others, Expenses
  <2>2. ASSUME Posting(tx[s]), NEW u \in tx[s].rows
        PROVE  member'[u] = "active"
    <3>1. u \in People /\ u # p /\ member[u] = "active"
      BY <1>1, <2>1, <2>2 DEF Compatible, Claiming, PostingOK, TxTyped, p
    <3>. QED
      BY <1>4, <3>1
  <2>3. ~ Exists(s) => s \notin DOMAIN after
    BY <1>3 DEF Exists
  <2>4. PostingOK(s, tx[s])'
    <3>1. ~ Exists(s) => ~ Exists(s)'
      BY <1>5, <2>1, <2>3 DEF Exists
    <3>. QED
      BY <2>1, <2>2, <3>1 DEF PostingOK, Posting
  <2>5. ASSUME tx[s].kind = "claim", tx[s].at = "writing"
        PROVE  /\ DOMAIN tx[s].after = {x \in Expenses : tx[s].whom \in DOMAIN splits'[x]}
               /\ \A x \in DOMAIN tx[s].after :
                    tx[s].after[x] = Reidentify(splits'[x], tx[s].whom, tx[s].who)
    <3>1. DOMAIN tx[s].after \cap DOMAIN after = {} /\ tx[s].whom # c
      BY <1>1, <1>3, <2>1, <2>5, DistinctAssumption DEF Compatible, TxTyped, after
    <3>2. /\ DOMAIN tx[s].after = {x \in Expenses : tx[s].whom \in DOMAIN splits[x]}
          /\ \A x \in DOMAIN tx[s].after :
                    tx[s].after[x] = Reidentify(splits[x], tx[s].whom, tx[s].who)
      BY <2>1, <2>5 DEF ClaimOK
    <3>3. ASSUME NEW x \in Expenses
          PROVE  tx[s].whom \in DOMAIN splits'[x] <=> tx[s].whom \in DOMAIN splits[x]
      <4>1. CASE x \in DOMAIN after
        <5>1. x \notin DOMAIN tx[s].after
          BY <3>1, <4>1
        <5>2. tx[s].whom \notin DOMAIN splits[x]
          BY <3>2, <5>1
        <5>3. DOMAIN splits'[x] = (DOMAIN splits[x] \ {p}) \cup {c}
          BY <1>5, <1>10, <4>1
        <5>. QED
          BY <3>1, <5>2, <5>3
      <4>2. CASE x \notin DOMAIN after
        BY <1>5, <4>2
      <4>. QED
        BY <4>1, <4>2
    <3>4. \A x \in DOMAIN tx[s].after : splits'[x] = splits[x]
      BY <1>5, <3>1, <3>2
    <3>. QED
      BY <3>2, <3>3, <3>4
  <2>6. ClaimOK(tx[s])'
    BY <2>5 DEF ClaimOK, Reidentify
  <2>. QED
    BY <2>4, <2>6
<1>12. OthersFit(t)'
  BY <1>11 DEF OthersFit
<1>13. SharesAddUp'
  BY <1>3, <1>5 DEF SharesAddUp, IndInv, Valid, Exists
<1>14. ClaimedOwesNothing'
  <2>. SUFFICES ASSUME NEW e \in Expenses, NEW u \in DOMAIN splits'[e]
                PROVE  member'[u] = "active"
    BY DEF ClaimedOwesNothing
  <2>1. u # p /\ (u = c \/ u \in DOMAIN splits[e])
    BY <1>3, <1>5, <1>10
  <2>2. CASE u = c
    BY <1>4, <2>2
  <2>3. CASE u # c
    <3>1. u \in DOMAIN splits[e] /\ member[u] = "active"
      BY <2>1, <2>3 DEF IndInv, ClaimedOwesNothing
    <3>2. u \in People
      BY <1>2, <3>1, SplitType
    <3>. QED
      BY <1>4, <2>1, <2>3, <3>1, <3>2
  <2>. QED
    BY <2>2, <2>3
<1>. QED
  BY <1>1, <1>6, <1>7, <1>8, <1>9, <1>12, <1>13, <1>14, CommitKeeps

-----------------------------------------------------------------------------
(* Every step, and the start *)

LEMMA NextKeeps == IndInv /\ [Next]_vars => IndInv'
<1>. SUFFICES ASSUME IndInv, [Next]_vars
              PROVE  IndInv'
  OBVIOUS
<1>1. CASE UNCHANGED vars
  BY <1>1 DEF vars, IndInv, TypeOK, TxShape, TxInv, LockInv, SharesAddUp, ClaimedOwesNothing,
              TxTyped, PostingOK, ClaimOK, Compatible, Posting, Claiming, Exists
<1>2. ASSUME NEW t \in Txs, Advance(t)
      PROVE  IndInv'
  BY <1>2, ReadMembersKeeps, LockMembersKeeps, CommitPostingKeeps, OpenEditKeeps,
     SnapSplitsKeeps, ReplaceSplitsKeeps, CommitEditKeeps, LockPlaceholderKeeps,
     ReadFoldsKeeps, InsertRevisionsKeeps, MoveSplitsKeeps, CommitClaimKeeps DEF Advance
<1>3. ASSUME NEW t \in Txs, Abort(t)
      PROVE  IndInv'
  BY <1>3, AbortKeeps DEF Abort, Open
<1>. QED
  BY <1>1, <1>2, <1>3 DEF Next, DeadlockVictim

LEMMA NoSplitsType == NoSplits \in Splits /\ DOMAIN NoSplits = {}
BY DEF NoSplits, Splits

LEMMA RequestFits ==
  ASSUME NEW t \in Txs, NEW r \in RequestsOf(t)
  PROVE  /\ IsTx(r) /\ TxTyped(t, r) /\ r.at = "new"
<1>1. CASE \E S \in Named : r = Creating(t, S)
  <2>1. PICK S \in SUBSET People : S # {} /\ r = Creating(t, S)
    BY <1>1 DEF Named
  <2>. QED
    BY <2>1 DEF Creating, Request, IsTx, TxTyped, Stages, Kinds, Expenses
<1>2. CASE r = Billing(t)
  BY <1>2 DEF Billing, Request, IsTx, TxTyped, Stages, Kinds, Expenses
<1>3. CASE \E S \in Named : r = Editing(S)
  <2>1. PICK S \in SUBSET People : S # {} /\ r = Editing(S)
    BY <1>3 DEF Named
  <2>. QED
    BY <2>1 DEF Editing, Request, IsTx, TxTyped, Stages, Kinds, Expenses
<1>4. CASE \E c \in Joiners, p \in Placeholders : r = Claim(c, p)
  BY <1>4 DEF Claim, Request, IsTx, TxTyped, Stages, Kinds, Expenses
<1>. QED
  BY <1>1, <1>2, <1>3, <1>4 DEF RequestsOf

LEMMA InitKeeps == Init => IndInv
<1>. SUFFICES ASSUME Init
              PROVE  IndInv
  OBVIOUS
<1>1. PICK J \in SUBSET Joiners :
        /\ member = [u \in People |-> IF u \in Joiners \ J THEN "absent" ELSE "active"]
        /\ splits = [e \in Expenses |-> IF e = First THEN EqualSplits(People \ (Joiners \ J))
                                        ELSE NoSplits]
  BY DEF Init
<1>. DEFINE S == People \ (Joiners \ J)
            f == EqualSplits(S)
<1>2. Valid(f) /\ DOMAIN f = S
  <2>1. S \in SUBSET People /\ Owner \in S
    BY DistinctAssumption DEF People
  <2>. QED
    BY <2>1, EqualSplitsValid
<1>. HIDE DEF f
<1>3. /\ splits \in [Expenses -> Splits] /\ First \in Expenses /\ splits[First] = f
      /\ \A e \in Expenses \ {First} : splits[e] = NoSplits
  BY <1>1, <1>2, NoSplitsType, ValidIsSplit DEF f, Expenses
<1>4. \A t \in Txs : ~ Exists(t)
  BY <1>3, NoSplitsType, DistinctAssumption DEF Exists, Expenses
<1>5. tx = [t \in Txs |-> tx[t]] /\ \A t \in Txs : tx[t] \in RequestsOf(t)
  BY DEF Init
<1>6. ASSUME NEW t \in Txs
      PROVE  /\ IsTx(tx[t]) /\ TxTyped(t, tx[t]) /\ tx[t].at = "new"
  BY <1>5, RequestFits
<1>7. TypeOK
  <2>1. member \in [People -> {"absent", "active", "left"}]
    BY <1>1
  <2>2. claimedBy \in [Placeholders -> Joiners \cup {None}]
    BY DEF Init
  <2>3. revisions \in [Expenses -> Seq(Splits)]
    BY DEF Init
  <2>. QED
    BY <1>3, <1>6, <2>1, <2>2, <2>3, ValidIsSplit DEF TypeOK, TxTyped
<1>8. TxShape /\ TxInv /\ LockInv
  BY <1>4, <1>5, <1>6
     DEF TxShape, TxInv, LockInv, PostingOK, ClaimOK, Posting, Claiming, Compatible
<1>9. SharesAddUp
  BY <1>2, <1>3, NoSplitsType DEF SharesAddUp, Exists, Valid
<1>10. ClaimedOwesNothing
  <2>1. \A u \in S : member[u] = "active"
    BY <1>1
  <2>. QED
    BY <1>2, <1>3, <2>1, NoSplitsType DEF ClaimedOwesNothing
<1>. QED
  BY <1>7, <1>8, <1>9, <1>10 DEF IndInv

-----------------------------------------------------------------------------
(* Every reachable state satisfies the inductive invariant: postings       *)
(* (posting.ts lockActiveMembers to insertExpense), edits and claims       *)
(* (claimHistory) never come between another's locks and its writes.       *)
THEOREM Inductive == Spec => []IndInv
BY InitKeeps, NextKeeps, PTL DEF Spec

(* Memberships, claims, splits and revisions keep their types.             *)
THEOREM TypeCorrect == Spec => []TypeOK
<1>1. IndInv => TypeOK
  BY DEF IndInv
<1>. QED
  BY <1>1, Inductive, PTL

(* Whatever is posted, edited or claimed at once, the shares of every      *)
(* expense add up to its amount (splits.ts computeSplits, posting.ts,      *)
(* ledger.service.ts editExpense, invites.service.ts claimHistory).        *)
THEOREM NoCentLost == Spec => []SharesAddUp
<1>1. IndInv => SharesAddUp
  BY DEF IndInv
<1>. QED
  BY <1>1, Inductive, PTL

(* No expense, however its writer's statements fall among a claim's,       *)
(* leaves a share with a placeholder who has been claimed, or with anyone  *)
(* else who is not an active member (posting.ts, claimHistory).            *)
THEOREM ClaimSweepsAll == Spec => []ClaimedOwesNothing
<1>1. IndInv => ClaimedOwesNothing
  BY DEF IndInv
<1>. QED
  BY <1>1, Inductive, PTL

-----------------------------------------------------------------------------
(* Each transaction takes effect at one moment *)

JoinedByClaim(u) ==
  \E s \in Txs : tx[s].kind = "claim" /\ tx[s].at = "committed" /\ tx[s].who = u

(* Whom a posting is about to charge: those named, or everyone a bill has  *)
(* found; and of the house it misses nobody but people a claim brought in. *)
ChargeOK(r) ==
  /\ r.kind = "bill" /\ r.at \in {"read", "locked"} =>
       \A u \in People : member[u] = "active" /\ u \notin r.rows => JoinedByClaim(u)
  /\ Posting(r) =>
       /\ Owner \in r.rows
       /\ r.kind # "bill" => DOMAIN r.after[r.expense] = r.want
       /\ r.kind = "bill" => DOMAIN r.after[r.expense] = r.rows

(* A placeholder whose row a claim holds is as the claim found it. *)
HeldOK(r) == Claiming(r) => member[r.whom] = "active" /\ claimedBy[r.whom] = None

Apart(q, r) == Claiming(q) /\ Claiming(r) => q.whom # r.whom

AtomicInv == /\ \A t \in Txs : ChargeOK(tx[t]) /\ HeldOK(tx[t])
             /\ \A s, t \in Txs : s # t => Apart(tx[s], tx[t])

Ended(r) == r.at \in {"committed", "aborted"}

SameRequest(q, r) == /\ q.kind = r.kind /\ q.want = r.want
                     /\ q.who = r.who /\ q.whom = r.whom

LEMMA AtomicNames ==
  Atomic!People = People /\ Atomic!Expenses = Expenses
BY DEF Atomic!People, Atomic!Expenses, People, Expenses

LEMMA JoinedStays ==
  ASSUME TxShape, NEW t \in Txs, NEW r, Move(t, r), ~ Ended(tx[t])
  PROVE  \A u : JoinedByClaim(u) => JoinedByClaim(u)'
BY DEF TxShape, Move, Ended, JoinedByClaim

LEMMA JoinedIsClaimer ==
  ASSUME NEW u, JoinedByClaim(u)
  PROVE  u \in Atomic!Claimers
<1>1. PICK s \in Txs : tx[s].kind = "claim" /\ tx[s].at = "committed" /\ tx[s].who = u
  BY DEF JoinedByClaim
<1>2. Asked[s].kind = "claim" /\ Asked[s].who = u /\ Outcome[s] = "done"
  BY <1>1 DEF Asked, Outcome
<1>. QED
  BY <1>2 DEF Atomic!Claimers

LEMMA AtomicMove ==
  ASSUME IndInv, AtomicInv, NEW t \in Txs, NEW r, Move(t, r), ~ Ended(tx[t]),
         UNCHANGED <<member, claimedBy>>,
         ChargeOK(r), HeldOK(r), \A s \in Others(t) : Apart(r, tx[s])
  PROVE  AtomicInv'
<1>1. tx'[t] = r /\ \A s \in Others(t) : s \in Txs /\ tx'[s] = tx[s]
  BY DEF IndInv, TxShape, Move, Others
<1>2. ASSUME NEW s \in Txs  PROVE  ChargeOK(tx[s])' /\ HeldOK(tx[s])'
  <2>0. \A u : JoinedByClaim(u) => JoinedByClaim(u)'
    BY JoinedStays DEF IndInv
  <2>1. CASE s = t
    BY <1>1, <2>0, <2>1 DEF ChargeOK, HeldOK, Posting, Claiming
  <2>2. CASE s # t
    BY <1>1, <2>0, <2>2 DEF AtomicInv, ChargeOK, HeldOK, Posting, Claiming, Others
  <2>. QED
    BY <2>1, <2>2
<1>3. ASSUME NEW q \in Txs, NEW s \in Txs, q # s  PROVE  Apart(tx[q], tx[s])'
  <2>1. CASE q = t
    BY <1>1, <1>3, <2>1 DEF Apart, Claiming, Others
  <2>2. CASE s = t
    <3>1. Apart(r, tx[q])
      BY <1>3, <2>2 DEF Others
    <3>. QED
      BY <1>1, <1>3, <2>2, <3>1 DEF Apart, Claiming, Others
  <2>3. CASE q # t /\ s # t
    BY <1>1, <1>3, <2>3 DEF AtomicInv, Apart, Claiming, Others
  <2>. QED
    BY <2>1, <2>2, <2>3
<1>. QED
  BY <1>2, <1>3 DEF AtomicInv

LEMMA AskedStays ==
  ASSUME TxShape, NEW t \in Txs, NEW r, Move(t, r), SameRequest(r, tx[t])
  PROVE  Asked' = Asked
<1>1. \A s \in Txs : SameRequest(tx'[s], tx[s])
  BY DEF TxShape, Move, SameRequest
<1>. QED
  BY <1>1 DEF Asked, SameRequest

(* A statement before the last is seen by nobody. *)
LEMMA QuietMove ==
  ASSUME IndInv, AtomicInv, NEW t \in Txs, NEW r, Move(t, r),
         UNCHANGED <<member, claimedBy, splits>>,
         ~ Ended(tx[t]), ~ Ended(r), SameRequest(r, tx[t]),
         ChargeOK(r), HeldOK(r), \A s \in Others(t) : Apart(r, tx[s])
  PROVE  AtomicInv' /\ UNCHANGED Atomic!vars
<1>1. AtomicInv'
  BY AtomicMove
<1>2. Asked' = Asked
  BY AskedStays DEF IndInv
<1>3. Outcome' = Outcome
  <2>1. tx'[t] = r /\ \A s \in Txs : s # t => tx'[s] = tx[s]
    BY DEF IndInv, TxShape, Move
  <2>. QED
    BY <2>1 DEF Outcome, Ended
<1>. QED
  BY <1>1, <1>2, <1>3 DEF Atomic!vars

(* The last is the end of the transaction. *)
LEMMA LastMove ==
  ASSUME IndInv, NEW t \in Txs, ~ Ended(tx[t]),
         NEW a \in {"committed", "aborted"}, Move(t, [tx[t] EXCEPT !.at = a])
  PROVE  Atomic!End(t, IF a = "committed" THEN "done" ELSE "none")
<1>1. PICK r : r = [tx[t] EXCEPT !.at = a]
  OBVIOUS
<1>2. SameRequest(r, tx[t]) /\ r.at = a
  <2>1. IsTx(tx[t])
    BY DEF IndInv, TxShape
  <2>. QED
    BY <1>1, <2>1, AtShape DEF SameRequest
<1>3. UNCHANGED Asked
  BY <1>1, <1>2, AskedStays DEF IndInv
<1>4. tx'[t] = r /\ \A s \in Txs : s # t => tx'[s] = tx[s]
  BY <1>1 DEF IndInv, TxShape, Move
<1>5. /\ Outcome[t] = "open"
      /\ Outcome' = [Outcome EXCEPT ![t] = IF a = "committed" THEN "done" ELSE "none"]
  BY <1>2, <1>4 DEF Outcome, Ended
<1>. QED
  BY <1>3, <1>5 DEF Atomic!End

LEMMA AbortGivesUp ==
  ASSUME IndInv, AtomicInv, NEW t \in Txs, ~ Ended(tx[t]),
         Move(t, [tx[t] EXCEPT !.at = "aborted"]), UNCHANGED <<member, claimedBy, splits>>
  PROVE  AtomicInv' /\ Atomic!GiveUp(t)
<1>1. PICK r : r = [tx[t] EXCEPT !.at = "aborted"]
  OBVIOUS
<1>2. r.at = "aborted"
  <2>1. IsTx(tx[t])
    BY DEF IndInv, TxShape
  <2>. QED
    BY <1>1, <2>1, AtShape
<1>3. AtomicInv'
  BY <1>1, <1>2, AtomicMove DEF ChargeOK, HeldOK, Apart, Posting, Claiming
<1>4. Atomic!End(t, "none")
  BY LastMove
<1>. QED
  BY <1>3, <1>4 DEF Atomic!GiveUp

-----------------------------------------------------------------------------
(* The statements before the last *)

LEMMA ReadMembersQuiet ==
  ASSUME IndInv, AtomicInv, NEW t \in Txs, ReadMembers(t)
  PROVE  AtomicInv' /\ UNCHANGED Atomic!vars
<1>. DEFINE R == {u \in Scope(t) : member[u] = "active"}
            r == WithRows(tx[t], "read", R)
<1>1. /\ Move(t, r) /\ UNCHANGED <<member, claimedBy, splits>>
      /\ tx[t].kind # "claim" /\ ~ Ended(tx[t])
  BY DEF ReadMembers, WithRows, Ended
<1>2. IsTx(tx[t])
  BY DEF IndInv, TxShape
<1>3. /\ r.at = "read" /\ r.rows = R /\ r.kind = tx[t].kind /\ r.want = tx[t].want
      /\ r.who = tx[t].who /\ r.whom = tx[t].whom
  BY <1>2, WithRowsShape
<1>4. tx[t].kind = "bill" => \A u \in People : member[u] = "active" => u \in R
  BY DEF Scope
<1>. HIDE DEF r, R
<1>5. ChargeOK(r) /\ HeldOK(r) /\ \A s \in Others(t) : Apart(r, tx[s])
  BY <1>1, <1>3, <1>4 DEF ChargeOK, HeldOK, Apart, Posting, Claiming
<1>. QED
  BY <1>1, <1>3, <1>5, QuietMove DEF Ended, SameRequest

LEMMA LockMembersRefines ==
  ASSUME IndInv, AtomicInv, NEW t \in Txs, LockMembers(t)
  PROVE  AtomicInv' /\ (UNCHANGED Atomic!vars \/ Atomic!GiveUp(t))
<1>. DEFINE R == {u \in tx[t].rows : member[u] = "active"}
            S == Charged(t, R)
            e == tx[t].expense
            o == WithRows(tx[t], "locked", R)
            r == WithAfter(o, "locked", [x \in {e} |-> EqualSplits(S)])
<1>1. /\ tx[t].at = "read" /\ ~ Ended(tx[t]) /\ UNCHANGED <<member, claimedBy, splits>>
  BY DEF LockMembers, Ended
<1>2. IsTx(tx[t]) /\ TxTyped(t, tx[t]) /\ ChargeOK(tx[t])
  BY DEF IndInv, TxShape, TxInv, AtomicInv
<1>3. CASE ~ (S \cup {Owner} \subseteq R)
  BY <1>1, <1>3, AbortGivesUp DEF LockMembers
<1>4. CASE S \cup {Owner} \subseteq R
  <2>1. Move(t, r)
    <3>1. Move(t, [tx[t] EXCEPT !.at = "locked", !.rows = R, !.after = [x \in {e} |-> EqualSplits(S)]])
      BY <1>4 DEF LockMembers
    <3>2. [tx[t] EXCEPT !.at = "locked", !.rows = R, !.after = [x \in {e} |-> EqualSplits(S)]] = r
      BY <1>2 DEF WithRows, WithAfter, IsTx
    <3>. QED
      BY <3>1, <3>2
  <2>2. /\ r.at = "locked" /\ r.rows = R /\ r.after = [x \in {e} |-> EqualSplits(S)]
        /\ r.kind = tx[t].kind /\ r.expense = e /\ r.want = tx[t].want /\ r.who = tx[t].who
        /\ r.whom = tx[t].whom
    BY <1>2, WithRowsShape, WithAfterShape
  <2>3. r.after[e] = EqualSplits(S) /\ DOMAIN EqualSplits(S) = S
    BY <2>2 DEF EqualSplits
  <2>4. /\ tx[t].kind # "bill" => S = tx[t].want
        /\ tx[t].kind = "bill" => S = R
        /\ tx[t].kind # "claim" /\ Owner \in R
    BY <1>1, <1>2, <1>4 DEF Charged, TxTyped
  <2>5. tx[t].kind = "bill" =>
          \A u \in People : member[u] = "active" /\ u \notin R => JoinedByClaim(u)
    BY <1>1, <1>2 DEF ChargeOK
  <2>. HIDE DEF r, R, S
  <2>6. ChargeOK(r) /\ HeldOK(r) /\ \A s \in Others(t) : Apart(r, tx[s])
    BY <2>2, <2>3, <2>4, <2>5 DEF ChargeOK, HeldOK, Apart, Posting, Claiming
  <2>. QED
    BY <1>1, <2>1, <2>2, <2>6, QuietMove DEF Ended, SameRequest
<1>. QED
  BY <1>3, <1>4

(* A step that goes on, or writes down what it has read. *)
LEMMA GoesOnQuietly ==
  ASSUME IndInv, AtomicInv, NEW t \in Txs, NEW r, Move(t, r),
         UNCHANGED <<member, claimedBy, splits>>,
         ~ Ended(tx[t]), ~ Ended(r), SameRequest(r, tx[t]),
         r.kind # "bill", r.rows = tx[t].rows, r.expense = tx[t].expense,
         Posting(r) => Posting(tx[t]) /\ r.after = tx[t].after,
         Claiming(r) => Claiming(tx[t])
  PROVE  AtomicInv' /\ UNCHANGED Atomic!vars
<1>1. /\ ChargeOK(tx[t]) /\ HeldOK(tx[t]) /\ \A s \in Others(t) : Apart(tx[t], tx[s])
  BY DEF AtomicInv, Others
<1>2. ChargeOK(r) /\ HeldOK(r) /\ \A s \in Others(t) : Apart(r, tx[s])
  BY <1>1 DEF ChargeOK, HeldOK, Apart, SameRequest
<1>. QED
  BY <1>2, QuietMove

LEMMA EditGoesOn ==
  ASSUME IndInv, AtomicInv, NEW t \in Txs, OpenEdit(t) \/ SnapSplits(t) \/ ReplaceSplits(t)
  PROVE  AtomicInv' /\ UNCHANGED Atomic!vars
<1>1. IsTx(tx[t])
  BY DEF IndInv, TxShape
<1>2. CASE OpenEdit(t)
  <2>1. PICK r : r = [tx[t] EXCEPT !.at = "opened"]
    OBVIOUS
  <2>2. /\ Move(t, r) /\ UNCHANGED <<member, claimedBy, splits>>
        /\ tx[t].kind = "edit" /\ tx[t].at = "new"
    BY <1>2, <2>1 DEF OpenEdit
  <2>3. /\ r.at = "opened" /\ r.kind = tx[t].kind /\ r.expense = tx[t].expense
        /\ r.want = tx[t].want /\ r.rows = tx[t].rows /\ r.who = tx[t].who /\ r.whom = tx[t].whom
    BY <1>1, <2>1, AtShape
  <2>. QED
    BY <2>2, <2>3, GoesOnQuietly DEF Ended, SameRequest, Posting, Claiming
<1>3. CASE SnapSplits(t)
  <2>1. PICK r : r = WithBefore(tx[t], "snapped", [x \in {tx[t].expense} |-> splits[x]])
    OBVIOUS
  <2>2. /\ Move(t, r) /\ UNCHANGED <<member, claimedBy, splits>>
        /\ tx[t].kind = "edit" /\ tx[t].at = "opened"
    BY <1>3, <2>1 DEF SnapSplits, WithBefore
  <2>3. /\ r.at = "snapped" /\ r.kind = tx[t].kind /\ r.expense = tx[t].expense
        /\ r.want = tx[t].want /\ r.rows = tx[t].rows /\ r.who = tx[t].who /\ r.whom = tx[t].whom
    BY <1>1, <2>1, WithBeforeShape
  <2>. QED
    BY <2>2, <2>3, GoesOnQuietly DEF Ended, SameRequest, Posting, Claiming
<1>4. CASE ReplaceSplits(t)
  <2>1. PICK r : r = [tx[t] EXCEPT !.at = "writing"]
    OBVIOUS
  <2>2. /\ Move(t, r) /\ UNCHANGED <<member, claimedBy, splits>>
        /\ tx[t].kind = "edit" /\ tx[t].at = "locked"
    BY <1>4, <2>1 DEF ReplaceSplits
  <2>3. /\ r.at = "writing" /\ r.kind = tx[t].kind /\ r.expense = tx[t].expense
        /\ r.want = tx[t].want /\ r.rows = tx[t].rows /\ r.who = tx[t].who /\ r.whom = tx[t].whom
        /\ r.after = tx[t].after
    BY <1>1, <2>1, AtShape
  <2>. QED
    BY <2>2, <2>3, GoesOnQuietly DEF Ended, SameRequest, Posting, Claiming
<1>. QED
  BY <1>2, <1>3, <1>4

LEMMA ClaimGoesOn ==
  ASSUME IndInv, AtomicInv, NEW t \in Txs, ReadFolds(t) \/ InsertRevisions(t) \/ MoveSplits(t)
  PROVE  AtomicInv' /\ UNCHANGED Atomic!vars
<1>1. IsTx(tx[t])
  BY DEF IndInv, TxShape
<1>2. CASE ReadFolds(t)
  <2>1. PICK r : r = WithBefore(tx[t], "folding",
                       [e \in {e \in Expenses : Folds(e, tx[t].whom, tx[t].who)} |-> splits[e]])
    OBVIOUS
  <2>2. /\ Move(t, r) /\ UNCHANGED <<member, claimedBy, splits>>
        /\ tx[t].kind = "claim" /\ tx[t].at = "opened"
    BY <1>2, <2>1 DEF ReadFolds, WithBefore
  <2>3. /\ r.at = "folding" /\ r.kind = tx[t].kind /\ r.expense = tx[t].expense
        /\ r.want = tx[t].want /\ r.rows = tx[t].rows /\ r.who = tx[t].who /\ r.whom = tx[t].whom
    BY <1>1, <2>1, WithBeforeShape
  <2>. QED
    BY <2>2, <2>3, GoesOnQuietly DEF Ended, SameRequest, Posting, Claiming
<1>3. CASE InsertRevisions(t)
  <2>1. PICK r : r = [tx[t] EXCEPT !.at = "folded"]
    OBVIOUS
  <2>2. /\ Move(t, r) /\ UNCHANGED <<member, claimedBy, splits>>
        /\ tx[t].kind = "claim" /\ tx[t].at = "folding"
    BY <1>3, <2>1 DEF InsertRevisions
  <2>3. /\ r.at = "folded" /\ r.kind = tx[t].kind /\ r.expense = tx[t].expense
        /\ r.want = tx[t].want /\ r.rows = tx[t].rows /\ r.who = tx[t].who /\ r.whom = tx[t].whom
    BY <1>1, <2>1, AtShape
  <2>. QED
    BY <2>2, <2>3, GoesOnQuietly DEF Ended, SameRequest, Posting, Claiming
<1>4. CASE MoveSplits(t)
  <2>1. PICK r : r = WithAfter(tx[t], "writing",
                       [e \in {e \in Expenses : tx[t].whom \in DOMAIN splits[e]}
                          |-> Reidentify(splits[e], tx[t].whom, tx[t].who)])
    OBVIOUS
  <2>2. /\ Move(t, r) /\ UNCHANGED <<member, claimedBy, splits>>
        /\ tx[t].kind = "claim" /\ tx[t].at = "folded"
    BY <1>4, <2>1 DEF MoveSplits, WithAfter
  <2>3. /\ r.at = "writing" /\ r.kind = tx[t].kind /\ r.expense = tx[t].expense
        /\ r.want = tx[t].want /\ r.rows = tx[t].rows /\ r.who = tx[t].who /\ r.whom = tx[t].whom
    BY <1>1, <2>1, WithAfterShape
  <2>. QED
    BY <2>2, <2>3, GoesOnQuietly DEF Ended, SameRequest, Posting, Claiming
<1>. QED
  BY <1>2, <1>3, <1>4

LEMMA LockPlaceholderRefines ==
  ASSUME IndInv, AtomicInv, NEW t \in Txs, LockPlaceholder(t)
  PROVE  AtomicInv' /\ (UNCHANGED Atomic!vars \/ Atomic!GiveUp(t))
<1>. DEFINE p == tx[t].whom
<1>1. /\ tx[t].kind = "claim" /\ tx[t].at = "new" /\ ~ Ended(tx[t])
      /\ UNCHANGED <<member, claimedBy, splits>>
      /\ \A s \in Others(t) : ~ LocksMember(s, p)
  BY DEF LockPlaceholder, Ended
<1>2. IsTx(tx[t])
  BY DEF IndInv, TxShape
<1>3. CASE ~ (claimedBy[p] = None /\ member[p] = "active")
  BY <1>1, <1>3, AbortGivesUp DEF LockPlaceholder
<1>4. CASE claimedBy[p] = None /\ member[p] = "active"
  <2>1. PICK r : r = [tx[t] EXCEPT !.at = "opened"]
    OBVIOUS
  <2>2. Move(t, r)
    BY <1>4, <2>1 DEF LockPlaceholder
  <2>3. /\ r.at = "opened" /\ r.kind = tx[t].kind
        /\ r.want = tx[t].want /\ r.who = tx[t].who /\ r.whom = tx[t].whom
    BY <1>2, <2>1, AtShape
  <2>4. \A s \in Others(t) : Apart(r, tx[s])
    BY <1>1, <2>3 DEF Apart, Claiming, LocksMember, Open
  <2>5. ChargeOK(r) /\ HeldOK(r)
    BY <1>1, <1>4, <2>3 DEF ChargeOK, HeldOK, Posting, Claiming
  <2>. QED
    BY <1>1, <2>2, <2>3, <2>4, <2>5, QuietMove DEF Ended, SameRequest
<1>. QED
  BY <1>3, <1>4

-----------------------------------------------------------------------------
(* Commits *)

(* What is left of a transaction that has ended relies on nothing. *)
LEMMA CommitLeaves ==
  ASSUME IndInv, NEW t \in Txs, Move(t, [tx[t] EXCEPT !.at = "committed"]),
         \A s \in Others(t) : ChargeOK(tx[s])' /\ HeldOK(tx[s])',
         AtomicInv
  PROVE  AtomicInv'
<1>1. PICK r : r = [tx[t] EXCEPT !.at = "committed"]
  OBVIOUS
<1>2. r.at = "committed"
  <2>1. IsTx(tx[t])
    BY DEF IndInv, TxShape
  <2>. QED
    BY <1>1, <2>1, AtCommit
<1>3. tx'[t] = r /\ \A s \in Others(t) : s \in Txs /\ tx'[s] = tx[s]
  BY <1>1 DEF IndInv, TxShape, Move, Others
<1>4. ChargeOK(tx[t])' /\ HeldOK(tx[t])'
  BY <1>2, <1>3 DEF ChargeOK, HeldOK, Posting, Claiming
<1>5. ASSUME NEW q \in Txs, NEW s \in Txs, q # s  PROVE  Apart(tx[q], tx[s])'
  <2>1. CASE q = t \/ s = t
    BY <1>2, <1>3, <2>1 DEF Apart, Claiming
  <2>2. CASE q # t /\ s # t
    BY <1>3, <1>5, <2>2 DEF AtomicInv, Apart, Claiming, Others
  <2>. QED
    BY <2>1, <2>2
<1>. QED
  BY <1>4, <1>5 DEF AtomicInv, Others

LEMMA OthersStand ==
  ASSUME IndInv, AtomicInv, NEW t \in Txs, NEW r, Move(t, r), ~ Ended(tx[t]),
         UNCHANGED <<member, claimedBy>>
  PROVE  \A s \in Others(t) : ChargeOK(tx[s])' /\ HeldOK(tx[s])'
<1>1. \A s \in Others(t) : s \in Txs /\ tx'[s] = tx[s]
  BY Elsewhere DEF IndInv
<1>2. \A u : JoinedByClaim(u) => JoinedByClaim(u)'
  BY JoinedStays DEF IndInv
<1>. QED
  BY <1>1, <1>2 DEF AtomicInv, ChargeOK, HeldOK, Posting, Claiming

LEMMA Dividing ==
  ASSUME NEW f, Valid(f)
  PROVE  f \in Atomic!Divisions(DOMAIN f)
<1>1. f \in [DOMAIN f -> 0..Total]
  <2>1. f \in Splits
    BY DEF Valid
  <2>2. PICK S \in SUBSET People : f \in [S -> 0..Total]
    BY <2>1 DEF Splits
  <2>. QED
    BY <2>2
<1>2. Sum(f) = Total
  BY DEF Valid
<1>. QED
  BY <1>1, <1>2 DEF Atomic!Divisions

LEMMA CommitPostingPosts ==
  ASSUME IndInv, AtomicInv, NEW t \in Txs, CommitPosting(t)
  PROVE  AtomicInv' /\ (Atomic!Create(t) \/ Atomic!Bill(t))
<1>. DEFINE f == tx[t].after[t]
            A == Atomic!Active
<1>1. /\ Move(t, [tx[t] EXCEPT !.at = "committed"])
      /\ UNCHANGED <<member, claimedBy>> /\ splits' = [splits EXCEPT ![t] = f]
      /\ tx[t].kind \in {"create", "bill"} /\ tx[t].at = "locked"
  BY DEF CommitPosting
<1>2. TxTyped(t, tx[t]) /\ PostingOK(t, tx[t]) /\ ChargeOK(tx[t])
  BY DEF IndInv, TxInv, AtomicInv
<1>3. /\ Valid(f) /\ DOMAIN f \subseteq tx[t].rows /\ tx[t].expense = t
      /\ \A u \in tx[t].rows : member[u] = "active"
      /\ tx[t].rows \subseteq People
  BY <1>1, <1>2 DEF PostingOK, Posting, TxTyped
<1>4. /\ Owner \in tx[t].rows
      /\ tx[t].kind = "create" => DOMAIN f = tx[t].want
      /\ tx[t].kind = "bill" => DOMAIN f = tx[t].rows
      /\ tx[t].kind = "bill" =>
           \A u \in People : member[u] = "active" /\ u \notin tx[t].rows => JoinedByClaim(u)
  BY <1>1, <1>2, <1>3 DEF ChargeOK, Posting
<1>5. f \in Atomic!Divisions(DOMAIN f)
  BY <1>3, Dividing
<1>6. /\ tx[t].rows \subseteq A
      /\ A \subseteq {u \in People : member[u] = "active"}
  BY <1>3, AtomicNames DEF Atomic!Active
<1>7. AtomicInv'
  <2>1. \A s \in Others(t) : ChargeOK(tx[s])' /\ HeldOK(tx[s])'
    BY <1>1, OthersStand DEF Ended
  <2>. QED
    BY <1>1, <2>1, CommitLeaves
<1>8. Atomic!End(t, "done")
  BY <1>1, LastMove DEF Ended
<1>9. Asked[t].kind = tx[t].kind /\ Asked[t].want = tx[t].want
  BY DEF Asked
<1>. HIDE DEF f, A
<1>10. Atomic!Write(t, DOMAIN f)
  BY <1>1, <1>5 DEF Atomic!Write
<1>11. CASE tx[t].kind = "create"
  <2>1. Asked[t].want \cup {Owner} \subseteq A
    BY <1>3, <1>4, <1>6, <1>9, <1>11
  <2>. QED
    BY <1>1, <1>4, <1>7, <1>8, <1>9, <1>10, <1>11, <2>1 DEF Atomic!Create, A
<1>12. CASE tx[t].kind = "bill"
  <2>1. DOMAIN f \in SUBSET A /\ A \ Atomic!Claimers \subseteq DOMAIN f
    BY <1>4, <1>6, <1>12, JoinedIsClaimer
  <2>. QED
    BY <1>1, <1>7, <1>8, <1>9, <1>10, <1>12, <2>1 DEF Atomic!Bill, A
<1>. QED
  BY <1>1, <1>11, <1>12

LEMMA CommitEditEdits ==
  ASSUME IndInv, AtomicInv, NEW t \in Txs, CommitEdit(t)
  PROVE  AtomicInv' /\ Atomic!Edit(t)
<1>. DEFINE e == tx[t].expense
            f == tx[t].after[e]
            A == Atomic!Active
<1>1. /\ Move(t, [tx[t] EXCEPT !.at = "committed"])
      /\ UNCHANGED <<member, claimedBy>> /\ splits' = [splits EXCEPT ![e] = f]
      /\ tx[t].kind = "edit" /\ tx[t].at = "writing"
  BY DEF CommitEdit
<1>2. TxTyped(t, tx[t]) /\ PostingOK(t, tx[t]) /\ ChargeOK(tx[t])
  BY DEF IndInv, TxInv, AtomicInv
<1>3. /\ Valid(f) /\ DOMAIN f \subseteq tx[t].rows /\ e = First
      /\ \A u \in tx[t].rows : member[u] = "active"
      /\ tx[t].rows \subseteq People
  BY <1>1, <1>2 DEF PostingOK, Posting, TxTyped
<1>4. Owner \in tx[t].rows /\ DOMAIN f = tx[t].want
  BY <1>1, <1>2, <1>3 DEF ChargeOK, Posting
<1>5. f \in Atomic!Divisions(DOMAIN f)
  BY <1>3, Dividing
<1>6. tx[t].rows \subseteq A
  BY <1>3, AtomicNames DEF Atomic!Active
<1>7. AtomicInv'
  <2>1. \A s \in Others(t) : ChargeOK(tx[s])' /\ HeldOK(tx[s])'
    BY <1>1, OthersStand DEF Ended
  <2>. QED
    BY <1>1, <2>1, CommitLeaves
<1>8. Atomic!End(t, "done")
  BY <1>1, LastMove DEF Ended
<1>9. Asked[t].kind = tx[t].kind /\ Asked[t].want = tx[t].want
  BY DEF Asked
<1>. HIDE DEF f, A, e
<1>10. Atomic!Write(First, DOMAIN f)
  BY <1>1, <1>3, <1>5 DEF Atomic!Write
<1>11. Asked[t].want \cup {Owner} \subseteq A
  BY <1>3, <1>4, <1>6, <1>9
<1>. QED
  BY <1>1, <1>4, <1>7, <1>8, <1>9, <1>10, <1>11 DEF Atomic!Edit, A

LEMMA InheritIsReidentify ==
  ASSUME NEW f \in Splits, NEW p \in DOMAIN f, NEW c \in People, c # p
  PROVE  Reidentify(f, p, c) = Atomic!Inherit(f, p, c)
<1>1. \A u \in DOMAIN f : f[u] \in Int
  BY SplitType, TotalAssumption
<1>2. ASSUME NEW u \in (DOMAIN f \ {p}) \cup {c}
      PROVE  (IF u \in DOMAIN f THEN f[u] ELSE 0) + (IF u = c THEN f[p] ELSE 0)
               = IF u # c THEN f[u] ELSE f[p] + (IF c \in DOMAIN f THEN f[c] ELSE 0)
  BY <1>1
<1>. QED
  BY <1>2 DEF Reidentify, Atomic!Inherit

LEMMA CommitClaimClaims ==
  ASSUME IndInv, AtomicInv, NEW t \in Txs, CommitClaim(t)
  PROVE  AtomicInv' /\ Atomic!Claim(t)
<1>. DEFINE p == tx[t].whom
            c == tx[t].who
            a == tx[t].after
<1>1. /\ Move(t, [tx[t] EXCEPT !.at = "committed"])
      /\ member' = [member EXCEPT ![p] = "left", ![c] = "active"]
      /\ claimedBy' = [claimedBy EXCEPT ![p] = c]
      /\ splits' = [e \in Expenses |-> IF e \in DOMAIN a THEN a[e] ELSE splits[e]]
      /\ tx[t].kind = "claim" /\ tx[t].at = "writing"
  BY DEF CommitClaim
<1>2. TxTyped(t, tx[t]) /\ ClaimOK(tx[t]) /\ HeldOK(tx[t])
  BY DEF IndInv, TxInv, AtomicInv
<1>3. /\ p \in Placeholders /\ c \in Joiners /\ c # p /\ p \in People /\ c \in People
      /\ p \notin Joiners
  BY <1>1, <1>2, DistinctAssumption DEF TxTyped, People
<1>4. /\ member \in [People -> {"absent", "active", "left"}]
      /\ claimedBy \in [Placeholders -> Joiners \cup {None}]
      /\ splits \in [Expenses -> Splits]
  BY DEF IndInv, TypeOK
<1>5. /\ member[p] = "active" /\ claimedBy[p] = None
      /\ DOMAIN a = {e \in Expenses : p \in DOMAIN splits[e]}
      /\ \A e \in DOMAIN a : a[e] = Reidentify(splits[e], p, c)
  BY <1>1, <1>2 DEF HeldOK, ClaimOK, Claiming
<1>5a. \A u : u = c \/ JoinedByClaim(u) => JoinedByClaim(u)'
  <2>1. IsTx(tx[t])
    BY DEF IndInv, TxShape
  <2>2. tx'[t].kind = "claim" /\ tx'[t].at = "committed" /\ tx'[t].who = c
    <3>1. PICK r : r = [tx[t] EXCEPT !.at = "committed"]
      OBVIOUS
    <3>2. r.kind = "claim" /\ r.at = "committed" /\ r.who = c
      BY <1>1, <2>1, <3>1, AtShape
    <3>. QED
      BY <1>1, <3>1, <3>2 DEF IndInv, TxShape, Move
  <2>3. \A u : u = c => JoinedByClaim(u)'
    BY <2>2 DEF JoinedByClaim
  <2>4. \A u : JoinedByClaim(u) => JoinedByClaim(u)'
    BY <1>1, JoinedStays DEF IndInv, Ended
  <2>. QED
    BY <2>3, <2>4
<1>6. ASSUME NEW s \in Others(t)
      PROVE  ChargeOK(tx[s])' /\ HeldOK(tx[s])'
  <2>1. s \in Txs /\ tx'[s] = tx[s]
    BY <1>1, Elsewhere DEF IndInv
  <2>2. /\ ChargeOK(tx[s]) /\ HeldOK(tx[s]) /\ TxTyped(s, tx[s]) /\ Apart(tx[t], tx[s])
    BY <2>1 DEF AtomicInv, IndInv, TxInv, Others
  <2>3. \A u \in People : member'[u] = "active" /\ ~ JoinedByClaim(u)' => member[u] = "active"
    <3>1. ASSUME NEW u \in People, member'[u] = "active", u # c  PROVE  member[u] = "active"
      BY <1>1, <1>3, <1>4, <3>1
    <3>. QED
      BY <1>5a, <3>1
  <2>4. ChargeOK(tx[s])'
    BY <1>5a, <2>1, <2>2, <2>3 DEF ChargeOK, Posting
  <2>5. Claiming(tx[s]) => tx[s].whom # p /\ tx[s].whom \in Placeholders
    BY <1>1, <2>2 DEF Apart, Claiming, TxTyped
  <2>6. \A q \in Placeholders \ {p} : member'[q] = member[q] /\ claimedBy'[q] = claimedBy[q]
    BY <1>1, <1>3, <1>4, DistinctAssumption DEF People
  <2>7. HeldOK(tx[s])'
    BY <2>1, <2>2, <2>5, <2>6 DEF HeldOK, Claiming
  <2>. QED
    BY <2>4, <2>7
<1>7. AtomicInv'
  BY <1>1, <1>6, CommitLeaves
<1>8. Atomic!End(t, "done")
  BY <1>1, LastMove DEF Ended
<1>9. Asked[t].kind = tx[t].kind /\ Asked[t].who = c /\ Asked[t].whom = p
  BY DEF Asked
<1>. HIDE DEF p, c, a
<1>10. p \in Atomic!Active
  BY <1>3, <1>5, AtomicNames DEF Atomic!Active
<1>11. \A e \in Expenses : p \in DOMAIN splits[e] =>
         Reidentify(splits[e], p, c) = Atomic!Inherit(splits[e], p, c)
  BY <1>3, <1>4, InheritIsReidentify
<1>12. splits' = [e \in Atomic!Expenses |-> IF p \in DOMAIN splits[e]
                                            THEN Atomic!Inherit(splits[e], p, c) ELSE splits[e]]
  BY <1>1, <1>5, <1>11, AtomicNames
<1>. QED
  BY <1>1, <1>5, <1>7, <1>8, <1>9, <1>10, <1>12 DEF Atomic!Claim

-----------------------------------------------------------------------------
LEMMA AbortRefines ==
  ASSUME IndInv, AtomicInv, NEW t \in Txs, Abort(t)
  PROVE  AtomicInv' /\ Atomic!GiveUp(t)
BY AbortGivesUp DEF Abort, Open, Ended

LEMMA AtomicInit ==
  ASSUME Init
  PROVE  AtomicInv /\ Atomic!Init
<1>1. PICK J \in SUBSET Joiners :
        /\ member = [u \in People |-> IF u \in Joiners \ J THEN "absent" ELSE "active"]
        /\ splits = [e \in Expenses |-> IF e = First THEN EqualSplits(People \ (Joiners \ J))
                                        ELSE NoSplits]
  BY DEF Init
<1>2. /\ claimedBy = [p \in Placeholders |-> None]
      /\ tx = [t \in Txs |-> tx[t]] /\ \A t \in Txs : tx[t] \in RequestsOf(t)
  BY DEF Init
<1>3. \A t \in Txs : tx[t].at = "new"
  BY <1>2 DEF RequestsOf, Creating, Billing, Editing, Claim, Request
<1>4. AtomicInv
  BY <1>3 DEF AtomicInv, ChargeOK, HeldOK, Apart, Posting, Claiming
<1>5. Atomic!Active = People \ (Joiners \ J) /\ {Owner} \cup Placeholders \subseteq Atomic!Active
  BY <1>1, AtomicNames, DistinctAssumption DEF Atomic!Active, People
<1>6. member \in [Atomic!People -> {"absent", "active"}]
  BY <1>1, AtomicNames
<1>7. \E f \in Atomic!Divisions(Atomic!Active) :
        splits = [e \in Atomic!Expenses |-> IF e = First THEN f ELSE <<>>]
  <2>. DEFINE f == EqualSplits(People \ (Joiners \ J))
  <2>1. Valid(f) /\ DOMAIN f = People \ (Joiners \ J)
    <3>1. People \ (Joiners \ J) \in SUBSET People /\ People \ (Joiners \ J) # {}
      BY DistinctAssumption DEF People
    <3>. QED
      BY <3>1, EqualSplitsValid
  <2>. HIDE DEF f
  <2>2. f \in Atomic!Divisions(Atomic!Active)
    BY <1>5, <2>1, Dividing
  <2>. QED
    BY <1>1, <2>2, AtomicNames DEF f, NoSplits
<1>8. Asked \in [Txs -> Atomic!Requests]
  <2>1. ASSUME NEW t \in Txs
        PROVE  [kind |-> tx[t].kind, want |-> tx[t].want, who |-> tx[t].who, whom |-> tx[t].whom]
                 \in Atomic!Requests
    BY <1>2, AtomicNames
       DEF RequestsOf, Creating, Billing, Editing, Claim, Request, Named, Atomic!Requests
  <2>. QED
    BY <2>1 DEF Asked
<1>9. Outcome = [t \in Txs |-> "open"]
  BY <1>3 DEF Outcome
<1>. QED
  BY <1>2, <1>4, <1>5, <1>6, <1>7, <1>8, <1>9 DEF Atomic!Init

LEMMA AtomicStep ==
  ASSUME IndInv, AtomicInv, [Next]_vars
  PROVE  AtomicInv' /\ [Atomic!Next]_(Atomic!vars)
<1>1. ASSUME NEW t \in Txs, Advance(t)
      PROVE  AtomicInv' /\ [Atomic!Next]_(Atomic!vars)
  <2>1. CASE ReadMembers(t)
    BY <2>1, ReadMembersQuiet
  <2>2. CASE LockMembers(t)
    BY <2>2, LockMembersRefines DEF Atomic!Next
  <2>3. CASE CommitPosting(t)
    BY <2>3, CommitPostingPosts DEF Atomic!Next
  <2>4. CASE OpenEdit(t) \/ SnapSplits(t) \/ ReplaceSplits(t)
    BY <2>4, EditGoesOn
  <2>5. CASE CommitEdit(t)
    BY <2>5, CommitEditEdits DEF Atomic!Next
  <2>6. CASE LockPlaceholder(t)
    BY <2>6, LockPlaceholderRefines DEF Atomic!Next
  <2>7. CASE ReadFolds(t) \/ InsertRevisions(t) \/ MoveSplits(t)
    BY <2>7, ClaimGoesOn
  <2>8. CASE CommitClaim(t)
    BY <2>8, CommitClaimClaims DEF Atomic!Next
  <2>. QED
    BY <1>1, <2>1, <2>2, <2>3, <2>4, <2>5, <2>6, <2>7, <2>8 DEF Advance
<1>2. ASSUME NEW t \in Txs, Abort(t) \/ DeadlockVictim(t)
      PROVE  AtomicInv' /\ [Atomic!Next]_(Atomic!vars)
  BY <1>2, AbortRefines DEF DeadlockVictim, Atomic!Next
<1>3. CASE UNCHANGED vars
  BY <1>3 DEF vars, AtomicInv, ChargeOK, JoinedByClaim, HeldOK, Apart, Posting, Claiming, Atomic!vars, Asked, Outcome
<1>. QED
  BY <1>1, <1>2, <1>3 DEF Next

(* Every behaviour of the transactions, statement by statement, is a       *)
(* behaviour of AtomicLedger: to whoever reads what is committed, each     *)
(* expense, edit, bill and claim happens at one moment, its commit, on the *)
(* members and the shares of that moment, in spite of what it read before. *)
THEOREM OneAtATime == Spec => ImplementsAtomicLedger
<1>1. Spec => [](IndInv /\ AtomicInv)
  <2>1. Init => IndInv /\ AtomicInv
    BY InitKeeps, AtomicInit
  <2>2. (IndInv /\ AtomicInv) /\ [Next]_vars => (IndInv /\ AtomicInv)'
    BY NextKeeps, AtomicStep
  <2>. QED
    BY <2>1, <2>2, PTL DEF Spec
<1>2. Init => Atomic!Init
  BY AtomicInit
<1>3. (IndInv /\ AtomicInv) /\ [Next]_vars => [Atomic!Next]_(Atomic!vars)
  BY AtomicStep
<1>. QED
  BY <1>1, <1>2, <1>3, PTL DEF Spec, ImplementsAtomicLedger, Atomic!Spec
=============================================================================
