--------------------------- MODULE SettlingProofs ---------------------------
(***************************************************************************)
(* Theorems about Settling, for any house, any expenses and payments, any  *)
(* page size and dispute window.                                           *)
(***************************************************************************)
EXTENDS Settling, Sums

-----------------------------------------------------------------------------
(* Pages of the ledger *)

(* Rows told apart by their ids. *)
Entries(S) ==
  /\ IsFiniteSet(S)
  /\ \A r \in S : r.created \in Nat /\ r.id \in Nat
  /\ \A r, s \in S : r.id = s.id => r = s

NewerThan(S, r) == {s \in S : Newer(s, r)}

LEMMA Ordered ==
  ASSUME NEW S, Entries(S), NEW r \in S, NEW s \in S
  PROVE  /\ r # s => Newer(r, s) \/ Newer(s, r)
         /\ ~ (Newer(r, s) /\ Newer(s, r)) /\ ~ Newer(r, r)
BY DEF Entries, Newer

LEMMA NewerTransitive ==
  ASSUME NEW S, Entries(S), NEW q \in S, NEW r \in S, NEW s \in S, Newer(q, r), Newer(r, s)
  PROVE  Newer(q, s)
BY DEF Entries, Newer

LEMMA SubEntries ==
  ASSUME NEW S, Entries(S), NEW R \in SUBSET S
  PROVE  Entries(R) /\ Cardinality(R) \in Nat /\ Cardinality(R) =< Cardinality(S)
BY FS_Subset, FS_CardinalityType DEF Entries

LEMMA NewestIs ==
  ASSUME NEW S, Entries(S), NEW n \in Nat, NEW r \in S
  PROVE  /\ Newest(S, n) \subseteq S /\ Cardinality(NewerThan(S, r)) \in Nat
         /\ r \in Newest(S, n) <=> Cardinality(NewerThan(S, r)) < n
<1>1. NewerThan(S, r) \in SUBSET S
  BY DEF NewerThan
<1>. QED
  BY <1>1, SubEntries DEF Newest, NewerThan

(* What LIMIT n keeps is newer than what it drops ... *)
LEMMA NewestFirst ==
  ASSUME NEW S, Entries(S), NEW n \in Nat, NEW q \in Newest(S, n), NEW r \in S \ Newest(S, n)
  PROVE  Newer(q, r)
<1>. SUFFICES ASSUME ~ Newer(q, r)
              PROVE  FALSE
  OBVIOUS
<1>1. q \in S /\ r \in S /\ q # r
  BY NewestIs
<1>2. Newer(r, q)
  BY <1>1, Ordered
<1>3. NewerThan(S, r) \in SUBSET NewerThan(S, q)
  BY <1>1, <1>2, NewerTransitive DEF NewerThan
<1>4. Entries(NewerThan(S, q))
  <2>1. NewerThan(S, q) \in SUBSET S
    BY DEF NewerThan
  <2>. QED
    BY <2>1, SubEntries
<1>5. Cardinality(NewerThan(S, r)) =< Cardinality(NewerThan(S, q))
  BY <1>3, <1>4, SubEntries
<1>6. Cardinality(NewerThan(S, q)) < n /\ ~ Cardinality(NewerThan(S, r)) < n
  BY <1>1, NewestIs
<1>. QED
  BY <1>1, <1>5, <1>6, NewestIs

(* ... and it drops nothing unless it keeps n. *)
LEMMA NewestFull ==
  ASSUME NEW S, Entries(S), NEW n \in Nat, Newest(S, n) # S
  PROVE  Cardinality(Newest(S, n)) \in Nat /\ Cardinality(Newest(S, n)) >= n
<1>. DEFINE N == Newest(S, n)
            rank(r) == Cardinality(NewerThan(S, r))
            B == {rank(r) : r \in S \ N}
<1>1. N \in SUBSET S /\ \A r \in S : rank(r) \in Nat /\ (r \in N <=> rank(r) < n)
  <2>1. N \in SUBSET S
    BY DEF Newest
  <2>. QED
    BY <2>1, NewestIs
<1>2. PICK r \in S \ N : \A s \in S \ N : rank(r) =< rank(s)
  <2>. HIDE DEF rank, N
  <2>1. B \in SUBSET Nat /\ B # {}
    BY <1>1 DEF N
  <2>2. PICK k \in B : \A m \in B : k =< m
    BY <2>1, FirstFailure
  <2>. QED
    BY <2>2
<1>3. ASSUME NEW s \in NewerThan(S, r)
      PROVE  s \in N
  <2>. SUFFICES ASSUME s \notin N
                PROVE  FALSE
    OBVIOUS
  <2>1. s \in S /\ Newer(s, r) /\ s \notin NewerThan(S, s)
    BY Ordered DEF NewerThan
  <2>2. NewerThan(S, s) \in SUBSET (NewerThan(S, r) \ {s})
    BY <2>1, NewerTransitive DEF NewerThan
  <2>3. IsFiniteSet(NewerThan(S, r))
    <3>1. NewerThan(S, r) \in SUBSET S
      BY DEF NewerThan
    <3>. QED
      BY <3>1, SubEntries DEF Entries
  <2>4. /\ IsFiniteSet(NewerThan(S, r) \ {s})
        /\ Cardinality(NewerThan(S, r) \ {s}) < Cardinality(NewerThan(S, r))
    BY <2>3, Smaller
  <2>5. /\ Cardinality(NewerThan(S, s)) =< Cardinality(NewerThan(S, r) \ {s})
        /\ Cardinality(NewerThan(S, r) \ {s}) \in Nat
    BY <2>2, <2>4, FS_Subset, FS_CardinalityType
  <2>6. rank(r) =< rank(s) /\ rank(r) \in Nat /\ rank(s) \in Nat
    BY <1>1, <1>2, <2>1
  <2>. QED
    BY <2>4, <2>5, <2>6
<1>4. Entries(N) /\ NewerThan(S, r) \in SUBSET N
  BY <1>1, <1>3, SubEntries
<1>5. Cardinality(N) \in Nat /\ rank(r) =< Cardinality(N) /\ rank(r) >= n /\ rank(r) \in Nat
  <2>1. Cardinality(N) \in Nat
    BY <1>1, SubEntries
  <2>2. rank(r) =< Cardinality(N)
    BY <1>4, SubEntries
  <2>3. rank(r) \in Nat /\ ~ rank(r) < n
    BY <1>1, <1>2
  <2>. QED
    BY <2>1, <2>2, <2>3
<1>. QED
  BY <1>5

(* A page is taken from expenses and payments cut off one past its length. *)
Merge(E, P) == Newest(E, Limit + 1) \cup Newest(P, Limit + 1)

LEMMA MergeIs ==
  ASSUME NEW E, NEW P, Entries(E \cup P)
  PROVE  /\ Entries(E) /\ Entries(P) /\ Entries(Merge(E, P)) /\ Merge(E, P) \subseteq E \cup P
         /\ Cardinality(Merge(E, P)) \in Nat
<1>1. E \in SUBSET (E \cup P) /\ P \in SUBSET (E \cup P)
  OBVIOUS
<1>2. Merge(E, P) \in SUBSET (E \cup P)
  BY DEF Merge, Newest
<1>. QED
  BY <1>1, <1>2, SubEntries

(* No row more than the page has room for: there is no other row. *)
LEMMA LastPage ==
  ASSUME NEW E, NEW P, Entries(E \cup P), Cardinality(Merge(E, P)) =< Limit
  PROVE  Merge(E, P) = E \cup P /\ Newest(Merge(E, P), Limit) = E \cup P
<1>. DEFINE M == Merge(E, P)
<1>1. /\ Limit \in Nat /\ Limit + 1 \in Nat
      /\ Entries(E) /\ Entries(P) /\ Entries(M) /\ Cardinality(M) \in Nat
  BY MergeIs, SettlingAssumption
<1>2. ASSUME NEW S, Entries(S), Newest(S, Limit + 1) \subseteq M
      PROVE  Newest(S, Limit + 1) = S
  <2>. SUFFICES ASSUME Newest(S, Limit + 1) # S
                PROVE  FALSE
    OBVIOUS
  <2>1. Cardinality(Newest(S, Limit + 1)) \in Nat /\ Cardinality(Newest(S, Limit + 1)) >= Limit + 1
    BY <1>1, <1>2, NewestFull
  <2>2. Cardinality(Newest(S, Limit + 1)) =< Cardinality(M)
    BY <1>1, <1>2, SubEntries
  <2>. QED
    BY <1>1, <2>1, <2>2
<1>3. M = E \cup P
  BY <1>1, <1>2 DEF Merge
<1>4. ASSUME NEW r \in M
      PROVE  r \in Newest(M, Limit)
  <2>1. IsFiniteSet(M) /\ r \notin NewerThan(M, r)
    BY <1>1, Ordered DEF Entries, NewerThan
  <2>2. IsFiniteSet(M \ {r}) /\ Cardinality(M \ {r}) < Cardinality(M)
    BY <2>1, Smaller
  <2>3. NewerThan(M, r) \subseteq M \ {r}
    BY <2>1 DEF NewerThan
  <2>4. Cardinality(NewerThan(M, r)) =< Cardinality(M \ {r}) /\ Cardinality(M \ {r}) \in Nat
    BY <2>2, <2>3, FS_Subset, FS_CardinalityType
  <2>5. Cardinality(NewerThan(M, r)) < Limit
    <3>1. Cardinality(NewerThan(M, r)) \in Nat
      BY <1>1, NewestIs
    <3>. QED
      BY <1>1, <2>2, <2>4, <3>1
  <2>. QED
    BY <1>1, <2>5, NewestIs
<1>5. Newest(M, Limit) \subseteq M
  BY DEF Newest
<1>. QED
  BY <1>3, <1>4, <1>5

(* One row more: what is not on the page is older than all that is. *)
LEMMA FullPage ==
  ASSUME NEW E, NEW P, Entries(E \cup P), Cardinality(Merge(E, P)) > Limit
  PROVE  LET page == Newest(Merge(E, P), Limit)
         IN  /\ page # {} /\ page \subseteq E \cup P
             /\ \A q \in page, r \in (E \cup P) \ page : Newer(q, r)
<1>. DEFINE M == Merge(E, P)
            page == Newest(M, Limit)
<1>1. /\ Limit \in Nat /\ Limit >= 1 /\ Limit + 1 \in Nat
      /\ Entries(E) /\ Entries(P) /\ Entries(M) /\ Cardinality(M) \in Nat
      /\ M \subseteq E \cup P /\ page \subseteq M
  BY MergeIs, SettlingAssumption DEF Newest
<1>2. page # {}
  <2>. SUFFICES ASSUME page = {}
                PROVE  FALSE
    OBVIOUS
  <2>1. Cardinality(page) = 0
    BY FS_EmptySet
  <2>2. page # M
    BY <1>1, <2>1
  <2>3. Cardinality(page) >= Limit
    BY <1>1, <2>2, NewestFull
  <2>. QED
    BY <1>1, <2>1, <2>3
<1>3. ASSUME NEW S \in {E, P}, NEW q \in page, NEW r \in S \ M
      PROVE  Newer(q, r)
  <2>. DEFINE K == Newest(S, Limit + 1)
  <2>1. Entries(S) /\ K \subseteq M /\ K # S /\ K \subseteq S /\ r \in S \ K
    BY <1>1 DEF Merge, Newest
  <2>2. \A s \in K : Newer(s, r)
    BY <1>1, <2>1, NewestFirst
  <2>3. Cardinality(K) \in Nat /\ Cardinality(K) >= Limit + 1
    BY <1>1, <2>1, NewestFull
  <2>. SUFFICES ASSUME ~ Newer(q, r)
                PROVE  FALSE
    OBVIOUS
  <2>4. q \in M /\ q \in E \cup P /\ r \in E \cup P /\ q # r
    BY <1>1
  <2>5. Newer(r, q)
    BY <2>4, Ordered
  <2>6. K \subseteq NewerThan(M, q)
    BY <1>1, <2>1, <2>2, <2>4, <2>5, NewerTransitive DEF NewerThan
  <2>7. Entries(NewerThan(M, q)) /\ Cardinality(NewerThan(M, q)) \in Nat
    <3>1. NewerThan(M, q) \in SUBSET M
      BY DEF NewerThan
    <3>. QED
      BY <1>1, <3>1, SubEntries
  <2>8. Cardinality(K) =< Cardinality(NewerThan(M, q))
    BY <2>6, <2>7, SubEntries
  <2>9. Cardinality(NewerThan(M, q)) < Limit
    BY <1>1, <2>4, NewestIs
  <2>. QED
    BY <1>1, <2>3, <2>7, <2>8, <2>9
<1>4. ASSUME NEW q \in page, NEW r \in (E \cup P) \ page
      PROVE  Newer(q, r)
  <2>1. CASE r \in M
    BY <1>1, <2>1, NewestFirst
  <2>2. CASE r \notin M
    BY <1>3, <2>2
  <2>. QED
    BY <2>1, <2>2
<1>. QED
  BY <1>1, <1>2, <1>4

LEMMA OldestIs ==
  ASSUME NEW S, Entries(S), S # {}
  PROVE  Oldest(S) \in S /\ \A s \in S \ {Oldest(S)} : Newer(s, Oldest(S))
<1>. DEFINE C == {r.created : r \in S}
<1>1. PICK c \in C : \A d \in C : c =< d
  <2>1. C \in SUBSET Nat /\ C # {}
    BY DEF Entries
  <2>. HIDE DEF C
  <2>. QED
    BY <2>1, FirstFailure
<1>. DEFINE I == {r.id : r \in {s \in S : s.created = c}}
<1>2. PICK i \in I : \A j \in I : i =< j
  <2>1. I \in SUBSET Nat /\ I # {}
    BY DEF Entries
  <2>. HIDE DEF I
  <2>. QED
    BY <2>1, FirstFailure
<1>3. PICK r \in S : r.created = c /\ r.id = i
  OBVIOUS
<1>4. ASSUME NEW s \in S \ {r}
      PROVE  Newer(s, r)
  <2>1. s.created \in Nat /\ s.id \in Nat /\ r.created \in Nat /\ r.id \in Nat /\ s.id # r.id
    BY DEF Entries
  <2>2. s.created >= r.created
    BY <1>1, <1>3, <2>1
  <2>3. s.created = r.created => s.id >= r.id
    BY <1>2, <1>3, <2>1
  <2>. QED
    BY <2>1, <2>2, <2>3 DEF Newer
<1>. QED
  BY <1>4 DEF Oldest

-----------------------------------------------------------------------------
(* The invariant *)

IsExpense(r) ==
  r = [id |-> r.id, created |-> r.created, kind |-> "expense", payer |-> r.payer,
       cents |-> r.cents, splits |-> r.splits]

IsPayment(r) ==
  r = [id |-> r.id, created |-> r.created, kind |-> "payment", from |-> r.from, to |-> r.to,
       cents |-> r.cents, status |-> r.status]

RowOK(i, r) ==
  /\ r.id = i /\ r.created \in Nat /\ r.created =< now
  /\ IsExpense(r) \/ (IsPayment(r) /\ r.status \in {"recorded", "disputed", "resolved"})

RowsInv ==
  /\ rows = [i \in DOMAIN rows |-> rows[i]]
  /\ DOMAIN rows \subseteq Ids /\ IsFiniteSet(DOMAIN rows)
  /\ \A i \in DOMAIN rows : RowOK(i, rows[i])

Transition(r) == r.op \in {"dispute", "resolve"}

(* A transaction that has found a payment in a status finds it so still    *)
(* when it writes.                                                         *)
TxOK(r) ==
  \/ r = Idle
  \/ r.op \in {"expense", "pay"} /\ r.begun \in Nat /\ r.begun =< now
  \/ /\ Transition(r) /\ r.id \in DOMAIN rows
     /\ rows[r.id].kind = "payment" /\ rows[r.id].status \in StatusFor(r.op)

TxInv ==
  /\ tx = [t \in Txs |-> tx[t]]
  /\ \A t \in Txs : TxOK(tx[t])
  /\ \A s, t \in Txs : s # t /\ Transition(tx[s]) /\ Transition(tx[t]) => tx[s].id # tx[t].id

HouseInv == now \in Nat /\ active \in {People, Members}

FeedInv == feed = [i \in Ids |-> feed[i]] /\ FeedTellsStatus

ReaderInv ==
  /\ reader = [at |-> reader.at, snap |-> reader.snap, existed |-> reader.existed]
  /\ reader.at \in {"idle", "reading"}
  /\ BalancesOnceExisted

(* Every entry that was there when the walk began is there still, at its   *)
(* place, and already shown or beyond the cursor.                          *)
Ahead(i) == walk.cursor # <<>> => Before(<<rows[i].created, i>>, walk.cursor)

WalkInv ==
  /\ walk.at = "idle" => walk = NotWalking
  /\ walk.at \in {"idle", "between", "reading"}
  /\ walk.there \subseteq DOMAIN rows
  /\ \A i \in walk.there : i \in walk.got \/ Ahead(i)
  /\ walk.at = "reading" =>
       /\ Entries(walk.snap)
       /\ \A r \in walk.snap : r.kind \in {"expense", "payment"}
       /\ \A i \in walk.there : \E r \in walk.snap : r.id = i /\ r.created = rows[i].created

IndInv == HouseInv /\ RowsInv /\ TxInv /\ FeedInv /\ ReaderInv /\ WalkInv

-----------------------------------------------------------------------------
(* What a change of the ledger leaves alone *)

KeepsPlaces ==
  /\ DOMAIN rows \subseteq DOMAIN rows'
  /\ \A i \in DOMAIN rows : rows'[i].created = rows[i].created

LEMMA WalkStands ==
  ASSUME WalkInv, UNCHANGED walk, KeepsPlaces
  PROVE  WalkInv'
<1>. QED
  BY DEF WalkInv, KeepsPlaces, Ahead, Entries, Before

LEMMA ReaderStands ==
  ASSUME ReaderInv, UNCHANGED reader \/ Remember
  PROVE  ReaderInv'
<1>. DEFINE now_ == Owed(Expenses(Current'), Payments(Current'))
<1>1. CASE UNCHANGED reader
  BY <1>1 DEF ReaderInv, BalancesOnceExisted, Balances, PaymentsRead, Owed, Expenses, Payments,
              Pairwise, Debt
<1>2. CASE Remember
  <2>1. CASE reader.at = "idle"
    BY <1>1, <1>2, <2>1 DEF Remember
  <2>2. CASE reader.at # "idle"
    <3>1. PICK n : reader' = [reader EXCEPT !.existed = @ \cup {n}]
      BY <1>2, <2>2 DEF Remember
    <3>2. /\ reader'.at = reader.at /\ reader'.snap = reader.snap
          /\ reader'.existed = reader.existed \cup {n}
          /\ reader' = [at |-> reader'.at, snap |-> reader'.snap, existed |-> reader'.existed]
      BY <3>1 DEF ReaderInv
    <3>3. Balances' = Balances
      BY <3>2 DEF Balances, PaymentsRead, Owed, Expenses, Payments, Pairwise, Debt
    <3>. QED
      BY <3>2, <3>3 DEF ReaderInv, BalancesOnceExisted
  <2>. QED
    BY <2>1, <2>2
<1>. QED
  BY <1>1, <1>2

LEMMA CurrentEntries ==
  ASSUME HouseInv, RowsInv
  PROVE  /\ Entries(Current) /\ \A r \in Current : r.kind \in {"expense", "payment"}
         /\ \A i \in DOMAIN rows : rows[i] \in Current /\ rows[i].id = i
<1>1. \A i \in DOMAIN rows : /\ rows[i].id = i /\ rows[i].created \in Nat /\ i \in Nat
                             /\ rows[i].kind \in {"expense", "payment"}
  BY SettlingAssumption DEF RowsInv, RowOK, IsExpense, IsPayment
<1>2. IsFiniteSet(Current)
  <2>1. rows \in Surjection(DOMAIN rows, Current)
    BY DEF RowsInv, Current, Surjection
  <2>. QED
    BY <2>1, FS_Surjection DEF RowsInv
<1>. QED
  BY <1>1, <1>2 DEF Current, Entries

-----------------------------------------------------------------------------
(* Steps of a transaction that nobody sees, and the passing of time *)

(* One transaction is at another place, all else stands. *)
LEMMA OpenKeeps ==
  ASSUME IndInv, NEW t \in Txs, NEW r, TxOK(r), Open(t, r),
         Transition(r) => \A s \in Txs \ {t} : Transition(tx[s]) => tx[s].id # r.id
  PROVE  IndInv'
<1>1. /\ tx' = [tx EXCEPT ![t] = r]
      /\ UNCHANGED <<now, active, rows, feed, reader, walk>>
  BY DEF Open
<1>2. TxInv'
  <2>1. tx'[t] = r /\ \A s \in Txs \ {t} : tx'[s] = tx[s]
    BY <1>1 DEF IndInv, TxInv
  <2>2. tx' = [s \in Txs |-> tx'[s]]
    BY <1>1 DEF IndInv, TxInv
  <2>3. \A s \in Txs : TxOK(tx'[s])
    BY <2>1 DEF IndInv, TxInv
  <2>4. \A s \in Txs : TxOK(tx[s])'
    BY <1>1, <2>3 DEF TxOK, Transition
  <2>5. \A s, q \in Txs : s # q /\ Transition(tx'[s]) /\ Transition(tx'[q]) => tx'[s].id # tx'[q].id
    BY <2>1 DEF IndInv, TxInv
  <2>. QED
    BY <2>2, <2>4, <2>5 DEF TxInv, Transition
<1>3. KeepsPlaces
  BY <1>1 DEF KeepsPlaces
<1>4. HouseInv' /\ RowsInv' /\ FeedInv'
  <2>1. HouseInv'
    BY <1>1 DEF IndInv, HouseInv
  <2>2. RowsInv'
    BY <1>1 DEF IndInv, RowsInv, RowOK
  <2>3. FeedInv'
    BY <1>1 DEF IndInv, FeedInv, FeedTellsStatus
  <2>. QED
    BY <2>1, <2>2, <2>3
<1>. QED
  BY <1>1, <1>2, <1>3, <1>4, WalkStands, ReaderStands DEF IndInv

LEMMA OpenExpenseKeeps ==
  ASSUME IndInv, NEW t \in Txs, NEW in, OpenExpense(t, in)
  PROVE  IndInv'
<1>. DEFINE r == [op |-> "expense", begun |-> now, in |-> in]
<1>1. TxOK(r) /\ Open(t, r) /\ ~ Transition(r)
  BY DEF OpenExpense, TxOK, Transition, IndInv, HouseInv
<1>. HIDE DEF r
<1>. QED
  BY <1>1, OpenKeeps

LEMMA OpenPaymentKeeps ==
  ASSUME IndInv, NEW t \in Txs, NEW in, OpenPayment(t, in)
  PROVE  IndInv'
<1>. DEFINE r == [op |-> "pay", begun |-> now, in |-> in]
<1>1. TxOK(r) /\ Open(t, r) /\ ~ Transition(r)
  BY DEF OpenPayment, TxOK, Transition, IndInv, HouseInv
<1>. HIDE DEF r
<1>. QED
  BY <1>1, OpenKeeps

LEMMA OpenTransitionKeeps ==
  ASSUME IndInv, NEW t \in Txs, NEW i \in DOMAIN rows, NEW u, OpenTransition(t, i, u)
  PROVE  IndInv'
<1>1. PICK op \in {"dispute", "resolve"} :
        rows[i].status \in StatusFor(op) /\ Open(t, [op |-> op, id |-> i])
  BY DEF OpenTransition, Disputable, Resolvable
<1>. DEFINE r == [op |-> op, id |-> i]
<1>2. TxOK(r) /\ Transition(r) /\ r.id = i
  BY <1>1 DEF OpenTransition, TxOK, Transition
<1>3. Open(t, r)
  BY <1>1
<1>4. \A s \in Txs : Transition(tx[s]) => tx[s].id # i
  BY DEF OpenTransition, Locked, Transition
<1>. HIDE DEF r
<1>. QED
  BY <1>2, <1>3, <1>4, OpenKeeps

LEMMA AbortKeeps ==
  ASSUME IndInv, NEW t \in Txs, Abort(t)
  PROVE  IndInv'
<1>1. TxOK(Idle) /\ ~ Transition(Idle) /\ Open(t, Idle)
  BY DEF TxOK, Transition, Idle, Abort
<1>. QED
  BY <1>1, OpenKeeps

LEMMA TickKeeps ==
  ASSUME IndInv, Tick
  PROVE  IndInv'
<1>1. /\ now' = now + 1 /\ now \in Nat /\ UNCHANGED <<active, rows, feed, tx, reader, walk>>
  BY DEF Tick, IndInv, HouseInv
<1>2. \A r : TxOK(r) => TxOK(r)'
  BY <1>1 DEF TxOK, Transition
<1>3. TxInv'
  BY <1>1, <1>2 DEF IndInv, TxInv, Transition, TxOK
<1>4. \A i, r : RowOK(i, r) => RowOK(i, r)'
  BY <1>1 DEF RowOK
<1>5. RowsInv'
  BY <1>1, <1>4 DEF IndInv, RowsInv, RowOK
<1>6. KeepsPlaces
  BY <1>1 DEF KeepsPlaces
<1>7. HouseInv' /\ FeedInv'
  <2>1. HouseInv'
    BY <1>1 DEF IndInv, HouseInv
  <2>2. FeedInv'
    BY <1>1 DEF IndInv, FeedInv, FeedTellsStatus
  <2>. QED
    BY <2>1, <2>2
<1>. QED
  BY <1>1, <1>3, <1>5, <1>6, <1>7, WalkStands, ReaderStands DEF IndInv

-----------------------------------------------------------------------------
(* Changes of the ledger *)

LEMMA ExpenseShape ==
  ASSUME NEW i, NEW created, NEW in
  PROVE  LET r == Expense(i, created, in)
         IN  IsExpense(r) /\ r.id = i /\ r.created = created /\ r.kind = "expense"
BY DEF Expense, IsExpense

LEMMA PaymentShape ==
  ASSUME NEW i, NEW created, NEW in
  PROVE  LET r == Payment(i, created, in)
         IN  /\ IsPayment(r) /\ r.id = i /\ r.created = created /\ r.kind = "payment"
             /\ r.status = "recorded"
BY DEF Payment, IsPayment

LEMMA KindOf ==
  ASSUME NEW i, NEW r, RowOK(i, r)
  PROVE  /\ r.id = i /\ r.kind \in {"expense", "payment"}
         /\ r.kind = "expense" => IsExpense(r)
         /\ r.kind = "payment" => IsPayment(r) /\ r.status \in {"recorded", "disputed", "resolved"}
BY DEF RowOK, IsExpense, IsPayment

LEMMA CommitNewKeeps ==
  ASSUME IndInv, NEW t \in Txs, CommitNew(t)
  PROVE  IndInv'
<1>1. PICK i, r :
        /\ i \in Ids \ DOMAIN rows
        /\ Insert(i, r) /\ RowOK(i, r) /\ UNCHANGED <<now, active, walk>> /\ Remember
        /\ tx' = [tx EXCEPT ![t] = Idle]
        /\ \/ r.kind = "expense" /\ UNCHANGED feed
           \/ /\ r.kind = "payment" /\ r.status = "recorded"
              /\ feed' = [feed EXCEPT ![i] = <<"recorded">>]
  <2>. DEFINE e(i) == Expense(i, tx[t].begun, tx[t].in)
              p(i) == Payment(i, tx[t].begun, tx[t].in)
  <2>1. PICK i \in Ids \ DOMAIN rows :
          /\ \/ tx[t].op = "expense" /\ Insert(i, e(i)) /\ UNCHANGED feed
             \/ /\ tx[t].op = "pay" /\ Insert(i, p(i))
                /\ feed' = [feed EXCEPT ![i] = <<"recorded">>]
          /\ tx' = [tx EXCEPT ![t] = Idle] /\ Remember /\ UNCHANGED <<now, active, walk>>
    BY DEF CommitNew
  <2>2. tx[t].op \in {"expense", "pay"} => tx[t].begun \in Nat /\ tx[t].begun =< now
    BY DEF IndInv, TxInv, TxOK, Idle, Transition
  <2>3. /\ IsExpense(e(i)) /\ e(i).id = i /\ e(i).created = tx[t].begun /\ e(i).kind = "expense"
        /\ IsPayment(p(i)) /\ p(i).id = i /\ p(i).created = tx[t].begun /\ p(i).kind = "payment"
        /\ p(i).status = "recorded"
    BY ExpenseShape, PaymentShape
  <2>. HIDE DEF e, p
  <2>. QED
    BY <2>1, <2>2, <2>3 DEF RowOK
<1>2. /\ DOMAIN rows' = DOMAIN rows \cup {i} /\ rows'[i] = r
      /\ \A j \in DOMAIN rows : rows'[j] = rows[j] /\ j # i
      /\ rows' = [j \in DOMAIN rows' |-> rows'[j]]
  BY <1>1 DEF Insert
<1>3. KeepsPlaces
  BY <1>2 DEF KeepsPlaces
<1>4. RowsInv'
  <2>1. IsFiniteSet(DOMAIN rows')
    BY <1>2, FS_AddElement DEF IndInv, RowsInv
  <2>2. \A j \in DOMAIN rows' : RowOK(j, rows'[j])
    BY <1>1, <1>2 DEF IndInv, RowsInv
  <2>3. \A j \in DOMAIN rows' : RowOK(j, rows[j])'
    BY <1>1, <2>2 DEF RowOK
  <2>. QED
    BY <1>1, <1>2, <2>1, <2>3 DEF IndInv, RowsInv
<1>5. TxInv'
  <2>1. tx'[t] = Idle /\ \A s \in Txs \ {t} : tx'[s] = tx[s]
    BY <1>1 DEF IndInv, TxInv
  <2>2. tx' = [s \in Txs |-> tx'[s]]
    BY <1>1 DEF IndInv, TxInv
  <2>3. \A s \in Txs : TxOK(tx'[s])
    BY <2>1 DEF IndInv, TxInv, TxOK
  <2>4. \A s \in Txs : TxOK(tx[s])'
    BY <1>1, <1>2, <2>3 DEF TxOK, Transition
  <2>5. \A s, q \in Txs : s # q /\ Transition(tx'[s]) /\ Transition(tx'[q]) => tx'[s].id # tx'[q].id
    BY <2>1 DEF IndInv, TxInv, Transition, Idle
  <2>. QED
    BY <2>2, <2>4, <2>5 DEF TxInv, Transition
<1>6. FeedInv'
  <2>1. feed' = [j \in Ids |-> feed'[j]]
    BY <1>1 DEF IndInv, FeedInv
  <2>2. \A j \in DOMAIN rows : feed'[j] = feed[j]
    BY <1>1, <1>2 DEF IndInv, FeedInv, RowsInv
  <2>3. r.kind = "payment" => r.status = "recorded" /\ feed'[i] = <<"recorded">>
    BY <1>1 DEF IndInv, FeedInv
  <2>4. FeedTellsStatus'
    BY <1>2, <2>2, <2>3 DEF FeedTellsStatus, IndInv, FeedInv
  <2>. QED
    BY <2>1, <2>4 DEF FeedInv
<1>7. HouseInv'
  BY <1>1 DEF IndInv, HouseInv
<1>. QED
  BY <1>1, <1>3, <1>4, <1>5, <1>6, <1>7, WalkStands, ReaderStands DEF IndInv

(* A change of rows that are there, whose payments stand.                  *)
LEMMA RewriteKeeps ==
  ASSUME IndInv, UNCHANGED <<now, feed, tx, walk>>, Remember, active' \in {People, Members},
         NEW f, rows' = f, DOMAIN f = DOMAIN rows, f = [i \in DOMAIN rows |-> f[i]],
         \A i \in DOMAIN rows : RowOK(i, f[i]) /\ f[i].created = rows[i].created,
         \A i \in DOMAIN rows : IF rows[i].kind = "payment" THEN f[i] = rows[i]
                                ELSE f[i].kind = "expense"
  PROVE  IndInv'
<1>1. KeepsPlaces
  BY DEF KeepsPlaces
<1>2. RowsInv'
  <2>1. \A i \in DOMAIN rows' : RowOK(i, rows[i])'
    BY DEF RowOK
  <2>. QED
    BY <2>1 DEF IndInv, RowsInv
<1>3. TxInv'
  <2>1. \A t \in Txs : TxOK(tx[t])'
    BY DEF IndInv, TxInv, TxOK, Transition
  <2>. QED
    BY <2>1 DEF IndInv, TxInv, Transition
<1>4. FeedInv'
  BY DEF IndInv, FeedInv, FeedTellsStatus
<1>5. HouseInv'
  BY DEF IndInv, HouseInv
<1>. QED
  BY <1>1, <1>2, <1>3, <1>4, <1>5, WalkStands, ReaderStands DEF IndInv

LEMMA EditKeeps ==
  ASSUME IndInv, NEW i \in DOMAIN rows, NEW in, Edit(i, in)
  PROVE  IndInv'
<1>. DEFINE e == Expense(i, rows[i].created, in)
            f == [rows EXCEPT ![i] = e]
<1>1. /\ rows' = f /\ rows[i].kind = "expense"
      /\ UNCHANGED <<now, active, feed, tx, walk>> /\ Remember /\ active \in {People, Members}
      /\ \A j \in DOMAIN rows : RowOK(j, rows[j])
  BY DEF Edit, IndInv, HouseInv, RowsInv
<1>2. IsExpense(e) /\ e.id = i /\ e.created = rows[i].created /\ e.kind = "expense"
  BY ExpenseShape
<1>. HIDE DEF e
<1>3. /\ DOMAIN f = DOMAIN rows /\ f = [j \in DOMAIN rows |-> f[j]] /\ f[i] = e
      /\ \A j \in DOMAIN rows \ {i} : f[j] = rows[j]
  BY DEF IndInv, RowsInv
<1>4. RowOK(i, e)
  BY <1>1, <1>2 DEF RowOK
<1>. HIDE DEF f
<1>5. \A j \in DOMAIN rows : /\ RowOK(j, f[j]) /\ f[j].created = rows[j].created
                             /\ IF rows[j].kind = "payment" THEN f[j] = rows[j]
                                ELSE f[j].kind = "expense"
  BY <1>1, <1>2, <1>3, <1>4, KindOf
<1>. QED
  BY <1>1, <1>3, <1>5, RewriteKeeps

LEMMA ClaimKeeps ==
  ASSUME IndInv, NEW u, Claim(u)
  PROVE  IndInv'
<1>. DEFINE new(r) == [r EXCEPT !.splits = Moved(@, u)]
            f == [i \in DOMAIN rows |-> IF rows[i].kind = "expense" THEN new(rows[i]) ELSE rows[i]]
<1>1. /\ rows' = f /\ UNCHANGED <<now, feed, tx, walk>> /\ Remember /\ active' = Members
      /\ \A j \in DOMAIN rows : RowOK(j, rows[j])
  BY DEF Claim, IndInv, RowsInv
<1>2. ASSUME NEW j \in DOMAIN rows, rows[j].kind = "expense"
      PROVE  RowOK(j, new(rows[j])) /\ new(rows[j]).kind = "expense"
             /\ new(rows[j]).created = rows[j].created
  <2>1. IsExpense(rows[j]) /\ RowOK(j, rows[j])
    BY <1>1, <1>2, KindOf
  <2>2. /\ IsExpense(new(rows[j])) /\ new(rows[j]).id = rows[j].id
        /\ new(rows[j]).created = rows[j].created
    BY <2>1 DEF IsExpense
  <2>. HIDE DEF new
  <2>3. new(rows[j]).kind = "expense"
    BY <2>2 DEF IsExpense
  <2>. QED
    BY <2>1, <2>2, <2>3 DEF RowOK
<1>. HIDE DEF new
<1>3. DOMAIN f = DOMAIN rows /\ f = [j \in DOMAIN rows |-> f[j]]
  OBVIOUS
<1>4. \A j \in DOMAIN rows : /\ RowOK(j, f[j]) /\ f[j].created = rows[j].created
                             /\ IF rows[j].kind = "payment" THEN f[j] = rows[j]
                                ELSE f[j].kind = "expense"
  BY <1>1, <1>2, KindOf
<1>. HIDE DEF f
<1>. QED
  BY <1>1, <1>3, <1>4, RewriteKeeps

LEMMA Told ==
  /\ Append(<<"recorded">>, "disputed") = <<"recorded", "disputed">>
  /\ Append(<<"recorded", "disputed">>, "resolved") = <<"recorded", "disputed", "resolved">>
<1>. DEFINE E == {"recorded", "disputed", "resolved"}
            s == <<"recorded">>
            d == <<"recorded", "disputed">>
<1>1. s \in Seq(E) /\ Len(s) = 1 /\ s[1] = "recorded"
  OBVIOUS
<1>2. d \in Seq(E) /\ Len(d) = 2 /\ d[1] = "recorded" /\ d[2] = "disputed"
  OBVIOUS
<1>3. ASSUME NEW q \in Seq(E), NEW e \in E
      PROVE  /\ Append(q, e) \in Seq(E) /\ Len(Append(q, e)) = Len(q) + 1
             /\ \A k \in 1..Len(q) : Append(q, e)[k] = q[k]
             /\ Append(q, e)[Len(q) + 1] = e
  OBVIOUS
<1>. HIDE DEF s, d
<1>4. Append(s, "disputed") = <<"recorded", "disputed">>
  <2>. DEFINE q == Append(s, "disputed")
  <2>1. /\ q \in Seq(E) /\ Len(q) = Len(s) + 1 /\ q[Len(s) + 1] = "disputed"
        /\ \A k \in 1..Len(s) : q[k] = s[k]
    BY <1>1, <1>3
  <2>. HIDE DEF q
  <2>2. q \in Seq(E) /\ Len(q) = 2 /\ q[1] = "recorded" /\ q[2] = "disputed"
    BY <1>1, <2>1
  <2>3. q = <<"recorded", "disputed">>
    BY <2>2
  <2>. QED
    BY <2>3 DEF q
<1>5. Append(d, "resolved") = <<"recorded", "disputed", "resolved">>
  <2>. DEFINE q == Append(d, "resolved")
  <2>1. /\ q \in Seq(E) /\ Len(q) = Len(d) + 1 /\ q[Len(d) + 1] = "resolved"
        /\ \A k \in 1..Len(d) : q[k] = d[k]
    BY <1>2, <1>3
  <2>. HIDE DEF q
  <2>2. q \in Seq(E) /\ Len(q) = 3 /\ q[1] = "recorded" /\ q[2] = "disputed" /\ q[3] = "resolved"
    BY <1>2, <2>1
  <2>3. q = <<"recorded", "disputed", "resolved">>
    BY <2>2
  <2>. QED
    BY <2>3 DEF q
<1>. QED
  BY <1>4, <1>5 DEF s, d

LEMMA CommitTransitionKeeps ==
  ASSUME IndInv, NEW t \in Txs, CommitTransition(t)
  PROVE  IndInv'
<1>. DEFINE i == tx[t].id
            to == IF tx[t].op = "dispute" THEN "disputed" ELSE "resolved"
            r == [rows[i] EXCEPT !.status = to]
<1>1. /\ tx[t].op \in {"dispute", "resolve"} /\ rows[i].status \in StatusFor(tx[t].op)
      /\ rows' = [rows EXCEPT ![i].status = to]
      /\ feed' = [feed EXCEPT ![i] = Append(@, to)]
      /\ tx' = [tx EXCEPT ![t] = Idle] /\ Remember /\ UNCHANGED <<now, active, walk>>
  BY DEF CommitTransition
<1>2. i \in DOMAIN rows /\ rows[i].kind = "payment" /\ RowOK(i, rows[i]) /\ i \in Ids
  BY <1>1 DEF IndInv, TxInv, TxOK, Transition, Idle, RowsInv
<1>3. IsPayment(rows[i])
  BY <1>2, KindOf
<1>4. /\ IsPayment(r) /\ r.id = rows[i].id /\ r.created = rows[i].created /\ r.kind = "payment"
      /\ r.status = to
  BY <1>3 DEF IsPayment
<1>5. /\ DOMAIN rows' = DOMAIN rows /\ rows' = [j \in DOMAIN rows' |-> rows'[j]] /\ rows'[i] = r
      /\ \A j \in DOMAIN rows \ {i} : rows'[j] = rows[j]
  BY <1>1, <1>2 DEF IndInv, RowsInv
<1>6. /\ feed' = [j \in Ids |-> feed'[j]] /\ feed'[i] = Append(feed[i], to)
      /\ \A j \in Ids \ {i} : feed'[j] = feed[j]
  BY <1>1, <1>2 DEF IndInv, FeedInv
<1>. HIDE DEF r
<1>7. KeepsPlaces
  BY <1>4, <1>5 DEF KeepsPlaces
<1>8. RowOK(i, r)
  BY <1>2, <1>4 DEF RowOK
<1>9. RowsInv'
  <2>1. \A j \in DOMAIN rows' : RowOK(j, rows'[j])
    BY <1>5, <1>8 DEF IndInv, RowsInv
  <2>2. \A j \in DOMAIN rows' : RowOK(j, rows[j])'
    BY <1>1, <2>1 DEF RowOK
  <2>. QED
    BY <1>5, <2>2 DEF IndInv, RowsInv
<1>10. TxInv'
  <2>1. tx'[t] = Idle /\ \A s \in Txs \ {t} : tx'[s] = tx[s]
    BY <1>1 DEF IndInv, TxInv
  <2>2. tx' = [s \in Txs |-> tx'[s]]
    BY <1>1 DEF IndInv, TxInv
  <2>3. \A s \in Txs \ {t} : TxOK(tx[s]) /\ (Transition(tx[s]) => tx[s].id # i)
    BY <1>1 DEF IndInv, TxInv, Transition
  <2>4. \A s \in Txs : TxOK(tx[s])'
    <3>1. TxOK(tx[t])'
      BY <2>1 DEF TxOK
    <3>2. ASSUME NEW s \in Txs \ {t}
          PROVE  TxOK(tx[s])'
      <4>1. tx'[s] = tx[s] /\ now' = now /\ DOMAIN rows' = DOMAIN rows
        BY <1>1, <1>5, <2>1
      <4>2. TxOK(tx[s]) /\ (Transition(tx[s]) => rows'[tx[s].id] = rows[tx[s].id] \/ tx[s].id \notin DOMAIN rows)
        BY <1>5, <2>3
      <4>. QED
        BY <4>1, <4>2 DEF TxOK, Transition
    <3>. QED
      BY <2>1, <3>1, <3>2
  <2>5. \A s, q \in Txs : s # q /\ Transition(tx'[s]) /\ Transition(tx'[q]) => tx'[s].id # tx'[q].id
    BY <2>1 DEF IndInv, TxInv, Transition, Idle
  <2>. QED
    BY <2>2, <2>4, <2>5 DEF TxInv, Transition
<1>11. FeedInv'
  <2>1. \A j \in DOMAIN rows \ {i} : rows'[j] = rows[j] /\ feed'[j] = feed[j]
    BY <1>5, <1>6 DEF IndInv, RowsInv
  <2>2. CASE tx[t].op = "dispute"
    <3>1. rows[i].status = "recorded" /\ to = "disputed"
      BY <1>1, <2>2 DEF StatusFor
    <3>2. feed[i] = <<"recorded">>
      BY <1>2, <3>1 DEF IndInv, FeedInv, FeedTellsStatus
    <3>3. feed'[i] = <<"recorded", "disputed">> /\ rows'[i].status = "disputed"
      BY <1>4, <1>5, <1>6, <3>1, <3>2, Told
    <3>. QED
      BY <1>5, <1>6, <2>1, <3>3 DEF IndInv, FeedInv, FeedTellsStatus
  <2>3. CASE tx[t].op = "resolve"
    <3>1. rows[i].status = "disputed" /\ to = "resolved"
      BY <1>1, <2>3 DEF StatusFor
    <3>2. feed[i] = <<"recorded", "disputed">>
      BY <1>2, <3>1 DEF IndInv, FeedInv, FeedTellsStatus
    <3>3. feed'[i] = <<"recorded", "disputed", "resolved">> /\ rows'[i].status = "resolved"
      BY <1>4, <1>5, <1>6, <3>1, <3>2, Told
    <3>. QED
      BY <1>5, <1>6, <2>1, <3>3 DEF IndInv, FeedInv, FeedTellsStatus
  <2>. QED
    BY <1>1, <2>2, <2>3
<1>12. HouseInv'
  BY <1>1 DEF IndInv, HouseInv
<1>. QED
  BY <1>1, <1>7, <1>9, <1>10, <1>11, <1>12, WalkStands, ReaderStands DEF IndInv

-----------------------------------------------------------------------------
(* The reads *)

LEMMA ReadingLeaves ==
  ASSUME IndInv, UNCHANGED <<now, active, rows, feed, tx>>
  PROVE  HouseInv' /\ RowsInv' /\ TxInv' /\ FeedInv' /\ KeepsPlaces
<1>1. HouseInv' /\ RowsInv'
  BY DEF IndInv, HouseInv, RowsInv, RowOK
<1>2. TxInv'
  BY DEF IndInv, TxInv, TxOK, Transition
<1>3. FeedInv' /\ KeepsPlaces
  BY DEF IndInv, FeedInv, FeedTellsStatus, KeepsPlaces
<1>. QED
  BY <1>1, <1>2, <1>3

LEMMA ReadExpensesKeeps ==
  ASSUME IndInv, ReadExpenses
  PROVE  IndInv'
<1>. DEFINE n == Owed(Expenses(Current), Payments(Current))
<1>1. /\ reader' = [at |-> "reading", snap |-> Current, existed |-> {n}]
      /\ UNCHANGED <<now, active, rows, feed, tx, walk>>
  BY DEF ReadExpenses
<1>2. Balances' = n
  BY <1>1 DEF Balances, PaymentsRead, Owed, Expenses, Payments, Pairwise, Debt
<1>3. ReaderInv'
  BY <1>1, <1>2 DEF ReaderInv, BalancesOnceExisted
<1>. QED
  BY <1>1, <1>3, ReadingLeaves, WalkStands DEF IndInv

LEMMA ReadPaymentsKeeps ==
  ASSUME IndInv, ReadPayments
  PROVE  IndInv'
<1>1. reader' = NotReading /\ UNCHANGED <<now, active, rows, feed, tx, walk>>
  BY DEF ReadPayments
<1>2. ReaderInv'
  BY <1>1 DEF ReaderInv, BalancesOnceExisted, NotReading
<1>. QED
  BY <1>1, <1>2, ReadingLeaves, WalkStands DEF IndInv

LEMMA OpenPageKeeps ==
  ASSUME IndInv, OpenPage
  PROVE  IndInv'
<1>. DEFINE there == IF walk.at = "idle" THEN DOMAIN rows ELSE walk.there
<1>1. /\ walk' = [at |-> "reading", snap |-> Current, cursor |-> walk.cursor, got |-> walk.got,
                  there |-> there]
      /\ UNCHANGED <<now, active, rows, feed, tx, reader>>
  BY DEF OpenPage
<1>2. /\ Entries(Current) /\ \A r \in Current : r.kind \in {"expense", "payment"}
      /\ \A i \in DOMAIN rows : rows[i] \in Current /\ rows[i].id = i
  BY CurrentEntries DEF IndInv
<1>3. there \subseteq DOMAIN rows /\ \A i \in there : i \in walk.got \/ Ahead(i)
  BY DEF IndInv, WalkInv, Ahead, NotWalking
<1>. HIDE DEF there
<1>4. \A i \in there : \E r \in Current : r.id = i /\ r.created = rows[i].created
  BY <1>2, <1>3
<1>5. WalkInv'
  <2>1. /\ walk'.at = "reading" /\ walk'.snap = Current /\ walk'.cursor = walk.cursor
        /\ walk'.got = walk.got /\ walk'.there = there
    BY <1>1
  <2>2. Entries(walk.snap)'
    BY <1>2, <2>1 DEF Entries
  <2>. HIDE DEF Current
  <2>. QED
    BY <1>1, <1>2, <1>3, <1>4, <2>1, <2>2 DEF WalkInv, Ahead, Before
<1>. QED
  BY <1>1, <1>5, ReadingLeaves, ReaderStands DEF IndInv

(* The rows past the cursor, as the page has them. *)
LEMMA PageIs ==
  ASSUME IndInv, walk.at = "reading"
  PROVE  LET E == Past(Expenses(walk.snap), walk.cursor)
             P == Past(PagedPayments, walk.cursor)
         IN  /\ Entries(E \cup P) /\ E \cup P = Past(walk.snap, walk.cursor)
             /\ Merged = Merge(E, P) /\ Page = Newest(Merge(E, P), Limit)
<1>1. Entries(walk.snap) /\ \A r \in walk.snap : r.kind \in {"expense", "payment"}
  BY DEF IndInv, WalkInv
<1>2. Past(Expenses(walk.snap), walk.cursor) \cup Past(PagedPayments, walk.cursor)
        = Past(walk.snap, walk.cursor)
  BY <1>1 DEF Past, Expenses, Payments, PagedPayments
<1>3. Past(walk.snap, walk.cursor) \in SUBSET walk.snap
  BY DEF Past
<1>. QED
  BY <1>1, <1>2, <1>3, SubEntries DEF Merged, Merge, Page

(* No entry that was there is lost between what was shown and what is      *)
(* beyond the page.                                                        *)
LEMMA PageCovers ==
  ASSUME IndInv, walk.at = "reading", NEW i \in walk.there
  PROVE  \/ i \in Got
         \/ More /\ Before(<<rows[i].created, i>>, Key(Oldest(Page)))
<1>. DEFINE E == Past(Expenses(walk.snap), walk.cursor)
            P == Past(PagedPayments, walk.cursor)
<1>1. /\ Entries(E \cup P) /\ E \cup P = Past(walk.snap, walk.cursor)
      /\ Merged = Merge(E, P) /\ Page = Newest(Merge(E, P), Limit)
  BY PageIs
<1>2. PICK r \in walk.snap : r.id = i /\ r.created = rows[i].created
  BY DEF IndInv, WalkInv
<1>. HIDE DEF E, P
<1>3. CASE i \in walk.got
  BY <1>3 DEF Got
<1>4. CASE i \notin walk.got
  <2>1. r \in E \cup P
    <3>1. Ahead(i)
      BY <1>4 DEF IndInv, WalkInv
    <3>2. walk.cursor # <<>> => Before(Key(r), walk.cursor)
      BY <1>2, <3>1 DEF Ahead, Key
    <3>. QED
      BY <1>1, <3>2 DEF Past
  <2>2. CASE ~ More
    <3>1. Cardinality(Merge(E, P)) =< Limit
      BY <1>1, <2>2, MergeIs, SettlingAssumption DEF More
    <3>2. r \in Page
      BY <1>1, <2>1, <3>1, LastPage
    <3>. QED
      BY <1>2, <3>2 DEF Got
  <2>3. CASE More
    <3>1. /\ Page # {} /\ Page \subseteq E \cup P
          /\ \A q \in Page, s \in (E \cup P) \ Page : Newer(q, s)
      <4>1. Cardinality(Merge(E, P)) > Limit
        BY <1>1, <2>3 DEF More
      <4>. QED
        BY <1>1, <4>1, FullPage
    <3>2. Entries(Page)
      <4>1. Page \in SUBSET (E \cup P)
        BY <3>1
      <4>. QED
        BY <1>1, <4>1, SubEntries
    <3>3. Oldest(Page) \in Page
      BY <3>1, <3>2, OldestIs
    <3>4. CASE r \in Page
      BY <1>2, <3>4 DEF Got
    <3>5. CASE r \notin Page
      <4>1. Newer(Oldest(Page), r)
        BY <2>1, <3>1, <3>3, <3>5
      <4>2. /\ r.created \in Nat /\ r.id \in Nat
            /\ Oldest(Page).created \in Nat /\ Oldest(Page).id \in Nat
        BY <1>1, <2>1, <3>2, <3>3 DEF Entries
      <4>3. Before(<<rows[i].created, i>>, Key(Oldest(Page)))
        <5>. DEFINE o == Oldest(Page)
        <5>. HIDE DEF o
        <5>1. Newer(o, r) /\ r.created \in Nat /\ r.id \in Nat /\ o.created \in Nat /\ o.id \in Nat
          BY <4>1, <4>2 DEF o
        <5>2. Before(<<rows[i].created, i>>, Key(o))
          BY <1>2, <5>1 DEF Newer, Before, Key
        <5>. QED
          BY <5>2 DEF o
      <4>. QED
        BY <2>3, <4>3
    <3>. QED
      BY <3>4, <3>5
  <2>. QED
    BY <2>2, <2>3
<1>. QED
  BY <1>3, <1>4

LEMMA TurnPageKeeps ==
  ASSUME IndInv, TurnPage
  PROVE  IndInv'
<1>1. UNCHANGED <<now, active, rows, feed, tx, reader>> /\ walk.at = "reading"
  BY DEF TurnPage
<1>2. WalkInv'
  <2>1. CASE ~ More
    <3>1. walk' = NotWalking
      BY <2>1 DEF TurnPage
    <3>. QED
      BY <3>1 DEF WalkInv, NotWalking
  <2>2. CASE More
    <3>1. walk' = [at |-> "between", snap |-> {}, cursor |-> Key(Oldest(Page)), got |-> Got,
                   there |-> walk.there]
      BY <2>2 DEF TurnPage
    <3>2. \A i \in walk.there : i \in Got \/ Before(<<rows[i].created, i>>, Key(Oldest(Page)))
      BY <1>1, PageCovers
    <3>3. walk.there \subseteq DOMAIN rows
      BY DEF IndInv, WalkInv
    <3>. DEFINE g == Got
                k == Key(Oldest(Page))
    <3>. HIDE DEF g, k
    <3>4. /\ walk'.at = "between" /\ walk'.cursor = k /\ walk'.got = g /\ walk'.there = walk.there
      BY <3>1 DEF g, k
    <3>5. \A i \in walk.there : i \in g \/ Before(<<rows[i].created, i>>, k)
      BY <3>2 DEF g, k
    <3>. QED
      BY <1>1, <3>3, <3>4, <3>5 DEF WalkInv, Ahead, Before
  <2>. QED
    BY <2>1, <2>2
<1>. QED
  BY <1>1, <1>2, ReadingLeaves, ReaderStands DEF IndInv

-----------------------------------------------------------------------------
(* The start, and every step *)

LEMMA InitKeeps == Init => IndInv
<1>. SUFFICES ASSUME Init
              PROVE  IndInv
  OBVIOUS
<1>1. HouseInv
  BY DEF Init, HouseInv
<1>2. RowsInv /\ DOMAIN rows = {}
  <2>1. rows = <<>> /\ DOMAIN rows = {}
    BY DEF Init
  <2>2. rows = [i \in DOMAIN rows |-> rows[i]]
    BY <2>1
  <2>. QED
    BY <2>1, <2>2, FS_EmptySet DEF RowsInv
<1>3. TxInv
  BY DEF Init, TxInv, TxOK, Transition, Idle
<1>4. FeedInv
  BY <1>2 DEF Init, FeedInv, FeedTellsStatus
<1>5. ReaderInv
  BY DEF Init, ReaderInv, BalancesOnceExisted, NotReading
<1>6. WalkInv
  BY DEF Init, WalkInv, NotWalking
<1>. QED
  BY <1>1, <1>2, <1>3, <1>4, <1>5, <1>6 DEF IndInv

LEMMA NextKeeps == IndInv /\ [Next]_vars => IndInv'
<1>. SUFFICES ASSUME IndInv, [Next]_vars
              PROVE  IndInv'
  OBVIOUS
<1>1. CASE UNCHANGED vars
  BY <1>1, ReadingLeaves, WalkStands, ReaderStands DEF vars, IndInv
<1>2. ASSUME NEW t \in Txs, NEW in, OpenExpense(t, in) \/ OpenPayment(t, in)
      PROVE  IndInv'
  BY <1>2, OpenExpenseKeeps, OpenPaymentKeeps
<1>3. ASSUME NEW t \in Txs, NEW i \in DOMAIN rows, NEW u \in Members, OpenTransition(t, i, u)
      PROVE  IndInv'
  BY <1>3, OpenTransitionKeeps
<1>4. ASSUME NEW t \in Txs, CommitNew(t) \/ CommitTransition(t) \/ Abort(t)
      PROVE  IndInv'
  BY <1>4, CommitNewKeeps, CommitTransitionKeeps, AbortKeeps
<1>5. ASSUME NEW i \in DOMAIN rows, NEW in \in Edits, Edit(i, in)
      PROVE  IndInv'
  BY <1>5, EditKeeps
<1>6. ASSUME NEW u \in Members, Claim(u)
      PROVE  IndInv'
  BY <1>6, ClaimKeeps
<1>7. CASE Tick \/ ReadExpenses \/ ReadPayments \/ OpenPage \/ TurnPage
  BY <1>7, TickKeeps, ReadExpensesKeeps, ReadPaymentsKeeps, OpenPageKeeps, TurnPageKeeps
<1>. QED
  BY <1>1, <1>2, <1>3, <1>4, <1>5, <1>6, <1>7 DEF Next

-----------------------------------------------------------------------------
(* Every reachable state satisfies the inductive invariant: what a         *)
(* transaction of ledger.service.ts found under its locks holds until it   *)
(* commits, and a client that walks the ledger is ahead of nothing.        *)
THEOREM Inductive == Spec => []IndInv
BY InitKeeps, NextKeeps, PTL DEF Spec

(* getBalances never answers with balances that the house did not have at  *)
(* a moment of the read (ledger.service.ts getBalances).                   *)
THEOREM BalancesOfOneMoment == Spec => []BalancesOnceExisted
<1>1. IndInv => BalancesOnceExisted
  BY DEF IndInv, ReaderInv
<1>. QED
  BY <1>1, Inductive, PTL

(* Disputes and resolutions, raced or repeated, are told once each and in  *)
(* order (ledger.service.ts disputePayment, resolvePayment).               *)
THEOREM FeedInStep == Spec => []FeedTellsStatus
<1>1. IndInv => FeedTellsStatus
  BY DEF IndInv, FeedInv
<1>. QED
  BY <1>1, Inductive, PTL

(* The status guard of the update is a second lock: under the row lock the *)
(* payment stands where the check left it (ledger.service.ts               *)
(* disputePayment, resolvePayment).                                        *)
GuardHolds ==
  \A t \in Txs : Transition(tx[t]) => rows[tx[t].id].status \in StatusFor(tx[t].op)

THEOREM UpdateFindsItsRow == Spec => []GuardHolds
<1>1. IndInv => GuardHolds
  BY DEF IndInv, TxInv, TxOK, GuardHolds, Transition, Idle
<1>. QED
  BY <1>1, Inductive, PTL

(* A walk through the pages, however many, shows every entry that was      *)
(* there when it began, whatever is written, edited or claimed meanwhile   *)
(* and however many entries share a created_at (ledger.service.ts          *)
(* getLedger).                                                             *)
THEOREM WalkShowsAll == Spec => []NoEntrySkipped
<1>1. IndInv => NoEntrySkipped
  BY PageCovers DEF NoEntrySkipped, More
<1>. QED
  BY <1>1, Inductive, PTL

(* The payments the home screen offers to confirm are those whose dispute  *)
(* would be accepted, but for the last instant of the window               *)
(* (snapshot.service.ts, ledger.service.ts disputePayment).                *)
THEOREM HomeOffersDisputable == Spec => []OfferedIsDisputable
<1>1. IndInv => OfferedIsDisputable
  <2>. SUFFICES ASSUME IndInv, NEW u \in Members, NEW i \in DOMAIN rows, rows[i].kind = "payment"
                PROVE  /\ i \in Offered(u) => Disputable(i, u)
                       /\ Disputable(i, u) /\ rows[i].created + Window > now => i \in Offered(u)
    BY DEF OfferedIsDisputable
  <2>1. u \in active
    BY DEF IndInv, HouseInv, People
  <2>2. rows[i].created \in Nat /\ now \in Nat /\ Window \in Nat
    BY SettlingAssumption DEF IndInv, HouseInv, RowsInv, RowOK
  <2>. QED
    BY <2>1, <2>2 DEF Offered, Disputable, StatusFor
<1>. QED
  BY <1>1, Inductive, PTL


-----------------------------------------------------------------------------
(* Money: what an entry adds to the balances                               *)

(* An expense is divided whole among people; a payment goes from one to    *)
(* another.                                                                *)
MoneyOK(r) ==
  /\ r.cents \in Int
  /\ r.kind = "expense" => /\ r.payer \in People /\ DOMAIN r.splits \subseteq People
                           /\ \A v \in DOMAIN r.splits : r.splits[v] \in Int
                           /\ SumFunction(r.splits) = r.cents
  /\ r.kind = "payment" => r.from \in People /\ r.to \in People /\ r.from # r.to

(* What a row adds to what debtor owes creditor.                           *)
Adds(r, debtor, creditor) ==
  IF r.kind = "expense"
  THEN IF r.payer = creditor /\ debtor \in DOMAIN r.splits THEN r.splits[debtor] ELSE 0
  ELSE IF r.from = creditor /\ r.to = debtor /\ r.status # "disputed" THEN r.cents ELSE 0

Book(S) ==
  /\ IsFiniteSet(S)
  /\ \A r \in S : r.kind \in {"expense", "payment"} /\ MoneyOK(r)

LEMMA PeopleFinite == IsFiniteSet(People) /\ People \subseteq Nat /\ Placeholder \notin Members
<1>1. IsFiniteSet(Members \cup {Placeholder})
  BY MoneyAssumption, FS_AddElement
<1>. QED
  BY <1>1, SettlingAssumption DEF People

LEMMA AddsType ==
  ASSUME NEW r, r.kind \in {"expense", "payment"}, MoneyOK(r), NEW a, NEW b
  PROVE  Adds(r, a, b) \in Int
BY DEF Adds, MoneyOK

LEMMA DebtIs ==
  ASSUME NEW S, Book(S), NEW a, NEW b
  PROVE  /\ Debt(Expenses(S), Payments(S), a, b) = SumFunction([r \in S |-> Adds(r, a, b)])
         /\ Debt(Expenses(S), Payments(S), a, b) \in Int
<1>. DEFINE es == {e \in Expenses(S) : e.payer = b /\ a \in DOMAIN e.splits}
            ps == {p \in Payments(S) : p.from = b /\ p.to = a /\ p.status # "disputed"}
            f == [r \in es \cup ps |-> IF r \in es THEN r.splits[a] ELSE r.cents]
            g == [r \in S |-> Adds(r, a, b)]
            h == [r \in es \cup ps |-> r]
<1>1. /\ es \cup ps \subseteq S /\ \A r \in es \cup ps : r \in es <=> r.kind = "expense"
      /\ \A r \in S \ (es \cup ps) : Adds(r, a, b) = 0
      /\ \A r \in es \cup ps : Adds(r, a, b) = IF r \in es THEN r.splits[a] ELSE r.cents
  BY DEF Expenses, Payments, Adds, Book
<1>2. \A r \in S : Adds(r, a, b) \in Int
  BY AddsType DEF Book
<1>3. Debt(Expenses(S), Payments(S), a, b) = SumFunction(f)
  BY DEF Debt
<1>. HIDE DEF es, ps
<1>4. /\ DOMAIN f = es \cup ps /\ DOMAIN g = S /\ IsFiniteSet(S) /\ IsFiniteSet(es \cup ps)
      /\ \A r \in es \cup ps : h[r] = r /\ f[r] = Adds(r, a, b)
      /\ \A r \in S : g[r] = Adds(r, a, b)
  BY <1>1, FS_Subset DEF Book
<1>. HIDE DEF f, g, h
<1>5. SumFunction(f) = SumFunction(g)
  BY <1>1, <1>2, <1>4, SumImage
<1>6. SumFunction(g) \in Int
  BY <1>2, <1>4, SumType
<1>. QED
  BY <1>3, <1>5, <1>6 DEF g

LEMMA WorthIs ==
  ASSUME NEW r, NEW u
  PROVE  /\ r.kind = "expense" =>
              Worth(r, u) = (IF r.payer = u THEN r.cents ELSE 0)
                              - (IF u \in DOMAIN r.splits THEN r.splits[u] ELSE 0)
         /\ r.kind = "payment" =>
              Worth(r, u) = IF r.status # "disputed"
                            THEN (IF r.from = u THEN r.cents ELSE 0)
                                   - (IF r.to = u THEN r.cents ELSE 0)
                            ELSE 0
BY DEF Worth

(* What the others owe somebody for a row, less what it makes them owe.    *)
Toward(r, u) == [v \in People \ {u} |-> Adds(r, v, u) - Adds(r, u, v)]

LEMMA TowardPaid ==
  ASSUME NEW r, r.kind = "expense", MoneyOK(r), NEW u \in People, r.payer = u
  PROVE  SumFunction(Toward(r, u)) = Worth(r, u)
<1>. DEFINE V == People \ {u}
            f == r.splits
            D == DOMAIN f
            g == Toward(r, u)
            rest == [v \in D \ {u} |-> f[v]]
            h == [v \in D \ {u} |-> v]
<1>1. IsFiniteSet(V) /\ IsFiniteSet(D) /\ IsFiniteSet(D \ {u}) /\ D \subseteq People
  BY PeopleFinite, FS_Subset DEF MoneyOK
<1>2. \A v \in D : f[v] \in Int
  BY DEF MoneyOK
<1>3. \A v \in V : Adds(r, v, u) = (IF v \in D THEN f[v] ELSE 0) /\ Adds(r, u, v) = 0
  BY DEF Adds
<1>4. DOMAIN g = V /\ \A v \in V : g[v] = IF v \in D THEN f[v] ELSE 0
  <2>1. \A v \in V : g[v] = Adds(r, v, u) - Adds(r, u, v)
    BY DEF Toward
  <2>2. \A v \in V : g[v] = IF v \in D THEN f[v] ELSE 0
    BY <1>2, <1>3, <2>1
  <2>. QED
    BY <2>2 DEF Toward
<1>5. /\ DOMAIN rest = D \ {u} /\ DOMAIN h = D \ {u}
      /\ \A v \in D \ {u} : h[v] = v /\ rest[v] = f[v]
  OBVIOUS
<1>6. Without(f, u) = rest
  BY DEF Without
<1>7. SumFunction(f) = (IF u \in D THEN f[u] ELSE 0) + SumFunction(rest)
  <2>1. CASE u \in D
    BY <1>1, <1>2, <1>6, <2>1, SumWithout
  <2>2. CASE u \notin D
    <3>1. DOMAIN rest = D /\ \A v \in D : f[v] = rest[v]
      BY <1>5, <2>2
    <3>2. SumFunction(f) = SumFunction(rest) /\ SumFunction(f) \in Int
      <4>. HIDE DEF rest
      <4>. QED
        BY <1>1, <1>2, <3>1, SumAgree, SumType
    <3>. QED
      BY <2>2, <3>2
  <2>. QED
    BY <2>1, <2>2
<1>. HIDE DEF g, rest, h
<1>8. SumFunction(rest) = SumFunction(g)
  <2>1. \A v \in D \ {u} : rest[v] \in Int /\ h[v] \in V /\ g[h[v]] = rest[v]
    BY <1>1, <1>2, <1>4, <1>5
  <2>2. \A v \in V : g[v] = 0 \/ \E x \in D \ {u} : h[x] = v
    BY <1>4, <1>5
  <2>. QED
    BY <1>1, <1>4, <1>5, <2>1, <2>2, SumImage
<1>9. SumFunction(rest) \in Int
  BY <1>1, <1>2, <1>5, SumType
<1>10. /\ Worth(r, u) = r.cents - (IF u \in D THEN f[u] ELSE 0)
       /\ SumFunction(f) = r.cents /\ r.cents \in Int
  BY WorthIs DEF MoneyOK
<1>11. \A a, b, c \in Int : a = b + c => c = a - b
  OBVIOUS
<1>12. (IF u \in D THEN f[u] ELSE 0) \in Int
  BY <1>2
<1>13. SumFunction(g) = r.cents - (IF u \in D THEN f[u] ELSE 0)
  BY <1>7, <1>8, <1>9, <1>10, <1>11, <1>12
<1>. QED
  BY <1>10, <1>13 DEF g

LEMMA TowardIs ==
  ASSUME NEW r, r.kind \in {"expense", "payment"}, MoneyOK(r), NEW u \in People
  PROVE  SumFunction(Toward(r, u)) = Worth(r, u)
<1>. DEFINE V == People \ {u}
            g == Toward(r, u)
<1>1. IsFiniteSet(V) /\ DOMAIN g = V /\ \A v \in V : g[v] = Adds(r, v, u) - Adds(r, u, v)
  BY PeopleFinite, FS_Subset DEF Toward
<1>2. CASE r.kind = "expense" /\ r.payer # u
  <2>. DEFINE w == r.payer
              x == IF u \in DOMAIN r.splits THEN r.splits[u] ELSE 0
  <2>1. w \in V /\ x \in Int
    BY <1>2 DEF MoneyOK
  <2>2. \A v \in V : Adds(r, v, u) = 0 /\ Adds(r, u, v) = IF v = w THEN x ELSE 0
    BY <1>2 DEF Adds
  <2>3. Worth(r, u) = 0 - x
    BY <1>2, WorthIs
  <2>. HIDE DEF g, w, x
  <2>4. g[w] = 0 - x /\ g[w] \in Int /\ \A v \in V : v # w => g[v] = 0
    BY <1>1, <2>1, <2>2
  <2>5. SumFunction(g) = g[w]
    BY <1>1, <2>1, <2>4, SumSingle
  <2>. QED
    BY <2>3, <2>4, <2>5 DEF g
<1>3. CASE r.kind = "payment"
  <2>. DEFINE x == IF r.status # "disputed" THEN r.cents ELSE 0
  <2>1. r.from \in People /\ r.to \in People /\ r.from # r.to /\ x \in Int
    BY <1>3 DEF MoneyOK
  <2>2. \A a, b : Adds(r, a, b) = IF r.from = b /\ r.to = a THEN x ELSE 0
    BY <1>3 DEF Adds
  <2>3. Worth(r, u) = (IF r.from = u THEN x ELSE 0) - (IF r.to = u THEN x ELSE 0)
    BY <1>3, WorthIs
  <2>. HIDE DEF g, x
  <2>4. CASE r.from = u
    <3>1. /\ r.to \in V /\ g[r.to] = x /\ g[r.to] \in Int
          /\ \A v \in V : v # r.to => g[v] = 0
      BY <1>1, <2>1, <2>2, <2>4
    <3>2. SumFunction(g) = g[r.to]
      BY <1>1, <3>1, SumSingle
    <3>. QED
      BY <2>1, <2>3, <2>4, <3>1, <3>2 DEF g
  <2>5. CASE r.to = u
    <3>1. /\ r.from \in V /\ g[r.from] = 0 - x /\ g[r.from] \in Int
          /\ \A v \in V : v # r.from => g[v] = 0
      BY <1>1, <2>1, <2>2, <2>5
    <3>2. SumFunction(g) = g[r.from]
      BY <1>1, <3>1, SumSingle
    <3>. QED
      BY <2>1, <2>3, <2>5, <3>1, <3>2 DEF g
  <2>6. CASE r.from # u /\ r.to # u
    <3>1. \A v \in V : g[v] = 0
      BY <1>1, <2>2, <2>6
    <3>2. SumFunction(g) = 0
      BY <1>1, <3>1, SumZero
    <3>. QED
      BY <2>3, <2>6, <3>2 DEF g
  <2>. QED
    BY <2>4, <2>5, <2>6
<1>4. CASE r.kind = "expense" /\ r.payer = u
  BY <1>4, TowardPaid
<1>. QED
  BY <1>2, <1>3, <1>4


(* Setting off pair by pair keeps everybody's total.                       *)
Balance(S, u) ==
  [v \in People \ {u} |-> Debt(Expenses(S), Payments(S), v, u)
                            - Debt(Expenses(S), Payments(S), u, v)]

LEMMA OwedIs ==
  ASSUME NEW S, NEW q
  PROVE  q \in Owed(Expenses(S), Payments(S)) <=>
           \E v, w \in People :
             /\ v # w /\ q.cents > 0
             /\ q = [from |-> v, to |-> w,
                     cents |-> Debt(Expenses(S), Payments(S), v, w)
                                 - Debt(Expenses(S), Payments(S), w, v)]
<1>. DEFINE owes(v, w) == [from |-> v, to |-> w,
                           cents |-> Debt(Expenses(S), Payments(S), v, w)
                                       - Debt(Expenses(S), Payments(S), w, v)]
            Q == {owes(d[1], d[2]) : d \in {d \in People \X People : d[1] # d[2]}}
<1>1. q \in Owed(Expenses(S), Payments(S)) <=> q \in Q /\ q.cents > 0
  BY DEF Owed, Pairwise
<1>2. q \in Q <=> \E v, w \in People : v # w /\ q = owes(v, w)
  <2>. HIDE DEF owes
  <2>1. ASSUME q \in Q
        PROVE  \E v, w \in People : v # w /\ q = owes(v, w)
    <3>1. PICK d \in People \X People : d[1] # d[2] /\ q = owes(d[1], d[2])
      BY <2>1
    <3>. QED
      BY <3>1
  <2>2. ASSUME NEW v \in People, NEW w \in People, v # w, q = owes(v, w)
        PROVE  q \in Q
    <3>1. /\ <<v, w>> \in {d \in People \X People : d[1] # d[2]}
          /\ q = owes(<<v, w>>[1], <<v, w>>[2])
      BY <2>2
    <3>. QED
      BY <3>1
  <2>. QED
    BY <2>1, <2>2
<1>. QED
  BY <1>1, <1>2

LEMMA NetIs ==
  ASSUME NEW S, Book(S), NEW u \in People
  PROVE  Net(Owed(Expenses(S), Payments(S)), u) = SumFunction(Balance(S, u))
<1>. DEFINE owed == Owed(Expenses(S), Payments(S))
            V == People \ {u}
            d == Balance(S, u)
            In == {q \in owed : q.to = u}
            Out == {q \in owed : q.from = u}
            fin == [q \in In |-> q.cents]
            fout == [q \in Out |-> q.cents]
            gin == [v \in V |-> IF d[v] > 0 THEN d[v] ELSE 0]
            gout == [v \in V |-> IF d[v] < 0 THEN 0 - d[v] ELSE 0]
            from == [q \in In |-> q.from]
            to == [q \in Out |-> q.to]
            debt(v, w) == Debt(Expenses(S), Payments(S), v, w)
<1>1. \A v, w : debt(v, w) \in Int
  BY DebtIs
<1>2. \A q : q \in owed <=> \E v, w \in People :
                              /\ v # w /\ q.cents > 0
                              /\ q = [from |-> v, to |-> w, cents |-> debt(v, w) - debt(w, v)]
  BY OwedIs
<1>3. DOMAIN d = V /\ \A v \in V : d[v] = debt(v, u) - debt(u, v)
  BY DEF Balance
<1>4. Net(owed, u) = SumFunction(fin) - SumFunction(fout)
  BY DEF Net
<1>. HIDE DEF owed, d, debt
<1>5. \A v \in V : d[v] \in Int /\ 0 - d[v] = debt(u, v) - debt(v, u)
  BY <1>1, <1>3
<1>6. /\ \A q \in In : /\ q.from \in V /\ q.cents = d[q.from] /\ q.cents > 0
                       /\ q = [from |-> q.from, to |-> u, cents |-> d[q.from]]
      /\ \A v \in V : d[v] > 0 => [from |-> v, to |-> u, cents |-> d[v]] \in In
  <2>1. ASSUME NEW q \in In
        PROVE  /\ q.from \in V /\ q.cents = d[q.from] /\ q.cents > 0
               /\ q = [from |-> q.from, to |-> u, cents |-> d[q.from]]
    <3>1. PICK v \in People, w \in People :
            /\ v # w /\ q.cents > 0
            /\ q = [from |-> v, to |-> w, cents |-> debt(v, w) - debt(w, v)]
      BY <1>2
    <3>2. w = u /\ v \in V /\ q.from = v
      BY <3>1
    <3>. QED
      BY <1>3, <3>1, <3>2
  <2>2. ASSUME NEW v \in V, d[v] > 0
        PROVE  [from |-> v, to |-> u, cents |-> d[v]] \in In
    <3>. DEFINE q == [from |-> v, to |-> u, cents |-> d[v]]
    <3>1. q.cents > 0 /\ q.to = u /\ q = [from |-> v, to |-> u, cents |-> debt(v, u) - debt(u, v)]
      BY <1>3, <2>2
    <3>2. v \in People /\ v # u
      OBVIOUS
    <3>. HIDE DEF q
    <3>3. q \in owed
      BY <1>2, <3>1, <3>2
    <3>. QED
      BY <3>1, <3>3 DEF q
  <2>. QED
    BY <2>1, <2>2
<1>7. /\ \A q \in Out : /\ q.to \in V /\ q.cents = 0 - d[q.to] /\ q.cents > 0
                        /\ q = [from |-> u, to |-> q.to, cents |-> 0 - d[q.to]]
      /\ \A v \in V : 0 - d[v] > 0 => [from |-> u, to |-> v, cents |-> 0 - d[v]] \in Out
  <2>1. ASSUME NEW q \in Out
        PROVE  /\ q.to \in V /\ q.cents = 0 - d[q.to] /\ q.cents > 0
               /\ q = [from |-> u, to |-> q.to, cents |-> 0 - d[q.to]]
    <3>1. PICK v \in People, w \in People :
            /\ v # w /\ q.cents > 0
            /\ q = [from |-> v, to |-> w, cents |-> debt(v, w) - debt(w, v)]
      BY <1>2
    <3>2. v = u /\ w \in V /\ q.to = w
      BY <3>1
    <3>. QED
      BY <1>5, <3>1, <3>2
  <2>2. ASSUME NEW v \in V, 0 - d[v] > 0
        PROVE  [from |-> u, to |-> v, cents |-> 0 - d[v]] \in Out
    <3>. DEFINE q == [from |-> u, to |-> v, cents |-> 0 - d[v]]
    <3>1. q.cents > 0 /\ q.from = u /\ q = [from |-> u, to |-> v, cents |-> debt(u, v) - debt(v, u)]
      BY <1>5, <2>2
    <3>2. v \in People /\ v # u
      OBVIOUS
    <3>. HIDE DEF q
    <3>3. q \in owed
      BY <1>2, <3>1, <3>2
    <3>. QED
      BY <3>1, <3>3 DEF q
  <2>. QED
    BY <2>1, <2>2
<1>8. IsFiniteSet(V)
  BY PeopleFinite, FS_Subset
<1>9. IsFiniteSet(In) /\ IsFiniteSet(Out)
  <2>. DEFINE R == {[from |-> v, to |-> u, cents |-> d[v]] : v \in V}
              T == {[from |-> u, to |-> v, cents |-> 0 - d[v]] : v \in V}
  <2>1. IsFiniteSet(R) /\ IsFiniteSet(T)
    <3>1. [v \in V |-> [from |-> v, to |-> u, cents |-> d[v]]] \in Surjection(V, R)
      BY DEF Surjection
    <3>2. [v \in V |-> [from |-> u, to |-> v, cents |-> 0 - d[v]]] \in Surjection(V, T)
      BY DEF Surjection
    <3>. QED
      BY <1>8, <3>1, <3>2, FS_Surjection
  <2>2. In \subseteq R /\ Out \subseteq T
    BY <1>6, <1>7
  <2>. HIDE DEF In, Out, R, T
  <2>. QED
    BY <2>1, <2>2, FS_Subset
<1>10. SumFunction(fin) = SumFunction(gin)
  <2>1. /\ DOMAIN fin = In /\ DOMAIN gin = V
        /\ \A q \in In : fin[q] = q.cents /\ from[q] = q.from
        /\ \A v \in V : gin[v] = IF d[v] > 0 THEN d[v] ELSE 0
    OBVIOUS
  <2>2. \A q \in In : fin[q] \in Int /\ from[q] \in V /\ gin[from[q]] = fin[q]
    BY <1>5, <1>6, <2>1
  <2>3. ASSUME NEW p \in In, NEW q \in In, from[p] = from[q]
        PROVE  p = q
    BY <1>6, <2>1, <2>3
  <2>4. ASSUME NEW v \in V
        PROVE  gin[v] = 0 \/ \E q \in In : from[q] = v
    <3>. DEFINE q == [from |-> v, to |-> u, cents |-> d[v]]
    <3>1. CASE d[v] > 0
      <4>1. q \in In /\ q.from = v
        BY <1>6, <3>1
      <4>. HIDE DEF q
      <4>. QED
        BY <2>1, <4>1
    <3>. QED
      BY <2>1, <3>1
  <2>. HIDE DEF fin, gin, from, In
  <2>. QED
    BY <1>8, <1>9, <2>1, <2>2, <2>3, <2>4, SumImage
<1>11. SumFunction(fout) = SumFunction(gout)
  <2>1. /\ DOMAIN fout = Out /\ DOMAIN gout = V
        /\ \A q \in Out : fout[q] = q.cents /\ to[q] = q.to
        /\ \A v \in V : gout[v] = IF d[v] < 0 THEN 0 - d[v] ELSE 0
    OBVIOUS
  <2>2. \A q \in Out : fout[q] \in Int /\ to[q] \in V /\ gout[to[q]] = fout[q]
    BY <1>5, <1>7, <2>1
  <2>3. ASSUME NEW p \in Out, NEW q \in Out, to[p] = to[q]
        PROVE  p = q
    BY <1>7, <2>1, <2>3
  <2>4. ASSUME NEW v \in V
        PROVE  gout[v] = 0 \/ \E q \in Out : to[q] = v
    <3>. DEFINE q == [from |-> u, to |-> v, cents |-> 0 - d[v]]
    <3>1. CASE d[v] < 0
      <4>1. 0 - d[v] > 0
        BY <1>5, <3>1
      <4>2. q \in Out /\ q.to = v
        BY <1>7, <4>1
      <4>. HIDE DEF q
      <4>. QED
        BY <2>1, <4>2
    <3>. QED
      BY <2>1, <3>1
  <2>. HIDE DEF fout, gout, to, Out
  <2>. QED
    BY <1>8, <1>9, <2>1, <2>2, <2>3, <2>4, SumImage
<1>12. SumFunction(gin) = SumFunction(gout) + SumFunction(d)
  <2>1. /\ DOMAIN gin = V /\ DOMAIN gout = V
        /\ \A v \in V : gout[v] \in Int /\ d[v] \in Int /\ gin[v] = gout[v] + d[v]
    BY <1>5
  <2>. HIDE DEF gin, gout
  <2>. QED
    BY <1>3, <1>8, <2>1, SumAdd
<1>13. SumFunction(gout) \in Int /\ SumFunction(d) \in Int
  <2>1. DOMAIN gout = V /\ \A v \in V : gout[v] \in Int
    BY <1>5
  <2>. HIDE DEF gout
  <2>. QED
    BY <1>3, <1>5, <1>8, <2>1, SumType
<1>14. Net(owed, u) = SumFunction(d)
  <2>. HIDE DEF fin, fout, gin, gout
  <2>. QED
    BY <1>4, <1>10, <1>11, <1>12, <1>13
<1>. QED
  BY <1>14 DEF owed, d

(* So what the house owes somebody is what the rows are worth to them.     *)
LEMMA NetIsWorth ==
  ASSUME NEW S, Book(S), NEW u \in People
  PROVE  Net(Owed(Expenses(S), Payments(S)), u) = SumFunction([r \in S |-> Worth(r, u)])
<1>. DEFINE V == People \ {u}
            m == [p \in V \X S |-> Adds(p[2], p[1], u) - Adds(p[2], u, p[1])]
            d == Balance(S, u)
<1>1. \A r \in S : \A a, b : Adds(r, a, b) \in Int
  BY AddsType DEF Book
<1>2. \A v \in V, r \in S : m[<<v, r>>] = Adds(r, v, u) - Adds(r, u, v) /\ m[<<v, r>>] \in Int
  BY <1>1
<1>. HIDE DEF m
<1>3. IsFiniteSet(V) /\ IsFiniteSet(S)
  BY PeopleFinite, FS_Subset DEF Book
<1>4. ASSUME NEW v \in V
      PROVE  d[v] = SumFunction(Row(m, S, v))
  <2>. DEFINE f == [r \in S |-> Adds(r, u, v)]
              g == Row(m, S, v)
              h == [r \in S |-> Adds(r, v, u)]
              x == Debt(Expenses(S), Payments(S), v, u)
              y == Debt(Expenses(S), Payments(S), u, v)
  <2>1. d[v] = x - y /\ x = SumFunction(h) /\ y = SumFunction(f) /\ x \in Int /\ y \in Int
    BY DebtIs DEF Balance
  <2>2. /\ DOMAIN f = S /\ DOMAIN g = S /\ DOMAIN h = S
        /\ \A r \in S : f[r] = Adds(r, u, v) /\ h[r] = Adds(r, v, u) /\ g[r] = m[<<v, r>>]
    BY DEF Row
  <2>. HIDE DEF f, g, h, x, y, d
  <2>3. \A r \in S : f[r] \in Int /\ g[r] \in Int /\ h[r] = f[r] + g[r]
    <3>. SUFFICES ASSUME NEW r \in S
                  PROVE  f[r] \in Int /\ g[r] \in Int /\ h[r] = f[r] + g[r]
      OBVIOUS
    <3>1. Adds(r, u, v) \in Int /\ Adds(r, v, u) \in Int
      BY <1>1
    <3>2. m[<<v, r>>] = Adds(r, v, u) - Adds(r, u, v)
      BY <1>2
    <3>3. f[r] = Adds(r, u, v) /\ h[r] = Adds(r, v, u) /\ g[r] = m[<<v, r>>]
      BY <2>2
    <3>. QED
      BY <3>1, <3>2, <3>3
  <2>4. SumFunction(h) = SumFunction(f) + SumFunction(g) /\ SumFunction(g) \in Int
    BY <1>3, <2>2, <2>3, SumAdd, SumType
  <2>5. \A a, b, c \in Int : a = b + c => a - b = c
    OBVIOUS
  <2>6. d[v] = SumFunction(g)
    BY <2>1, <2>4, <2>5
  <2>. QED
    BY <2>6 DEF g
<1>5. ASSUME NEW r \in S
      PROVE  SumFunction(Column(m, V, r)) = Worth(r, u)
  <2>1. Column(m, V, r) = Toward(r, u)
    BY <1>2 DEF Column, Toward
  <2>. QED
    BY <2>1, TowardIs DEF Book
<1>6. SumFunction(Rows(m, V, S)) = SumFunction(Columns(m, V, S))
  BY <1>2, <1>3, SumExchange
<1>7. Columns(m, V, S) = [r \in S |-> Worth(r, u)]
  BY <1>5 DEF Columns
<1>8. Rows(m, V, S) = d
  BY <1>4 DEF Rows, Balance
<1>. QED
  BY <1>6, <1>7, <1>8, NetIs


-----------------------------------------------------------------------------
(* Every expense is divided whole                                          *)

LEMMA RecipientIn ==
  ASSUME NEW S, S \subseteq Nat, S # {}, NEW payer
  PROVE  RemainderRecipient(S, payer) \in S
<1>1. \E u \in S : \A v \in S : u =< v
  BY FirstFailure
<1>. QED
  BY <1>1 DEF RemainderRecipient

LEMMA RemainderWhole ==
  ASSUME NEW f, IsFiniteSet(DOMAIN f), DOMAIN f \subseteq Nat, DOMAIN f # {},
         \A u \in DOMAIN f : f[u] \in Int, NEW total \in Int, NEW payer
  PROVE  LET g == WithRemainder(f, total, payer)
         IN  /\ DOMAIN g = DOMAIN f /\ \A u \in DOMAIN g : g[u] \in Int
             /\ SumFunction(g) = total
<1>. DEFINE r == RemainderRecipient(DOMAIN f, payer)
<1>1. r \in DOMAIN f
  BY RecipientIn
<1>2. WithRemainder(f, total, payer) = [f EXCEPT ![r] = @ + total - SumFunction(f)]
  BY DEF WithRemainder
<1>. HIDE DEF r
<1>. QED
  BY <1>1, <1>2, SumRemainder

(* An expense that was resolved: among people, and its numbers whole.      *)
Divisible(in) ==
  /\ Accepts(in) /\ DOMAIN in.given \subseteq People /\ in.payer \in People
  /\ in.total \in Int /\ \A u \in DOMAIN in.given : in.given[u] \in Int

LEMMA SplitsWhole ==
  ASSUME NEW in, Divisible(in)
  PROVE  LET f == ComputeSplits(in)
         IN  /\ DOMAIN f \subseteq People /\ \A u \in DOMAIN f : f[u] \in Int
             /\ SumFunction(f) = in.total
<1>. DEFINE S == DOMAIN in.given
<1>1. /\ IsFiniteSet(S) /\ S \subseteq Nat /\ S # {} /\ S \subseteq People /\ in.total \in Int
      /\ \A u \in S : in.given[u] \in Int
  BY PeopleFinite, FS_Subset DEF Divisible, Accepts
<1>2. CASE in.mode = "equal"
  <2>. DEFINE f == [u \in S |-> in.total \div Cardinality(S)]
  <2>1. Cardinality(S) \in Nat \ {0}
    BY <1>1, FS_CardinalityType, FS_EmptySet
  <2>2. DOMAIN f = S /\ \A u \in DOMAIN f : f[u] \in Int
    BY <1>1, <2>1
  <2>3. ComputeSplits(in) = WithRemainder(f, in.total, in.payer)
    BY <1>2 DEF ComputeSplits
  <2>. HIDE DEF f
  <2>. QED
    BY <1>1, <2>2, <2>3, RemainderWhole
<1>3. CASE in.mode = "exact"
  BY <1>1, <1>3 DEF ComputeSplits, Divisible, Accepts
<1>4. CASE in.mode \notin {"equal", "exact"}
  <2>. DEFINE f == [u \in S |-> (in.total * in.given[u]) \div Whole]
  <2>1. DOMAIN f = S /\ \A u \in DOMAIN f : f[u] \in Int
    <3>1. \A a, b \in Int : a * b \in Int /\ a \div Whole \in Int
      BY WholeAssumption
    <3>. QED
      BY <1>1, <3>1
  <2>2. ComputeSplits(in) = WithRemainder(f, in.total, in.payer)
    BY <1>4 DEF ComputeSplits, SplitByWeights
  <2>. HIDE DEF f
  <2>. QED
    BY <1>1, <2>1, <2>2, RemainderWhole
<1>. QED
  BY <1>2, <1>3, <1>4

LEMMA ResolvedDivisible ==
  ASSUME HouseInv, NEW in, Resolved(in)
  PROVE  Divisible(in)
BY MoneyAssumption DEF Resolved, Accepted, Divisible, HouseInv, People

LEMMA ExpenseMoney ==
  ASSUME NEW i, NEW created, NEW in, Divisible(in)
  PROVE  MoneyOK(Expense(i, created, in))
BY SplitsWhole DEF Divisible, MoneyOK, Expense

(* A claim moves a share, and the total stays.                             *)
LEMMA MovedWhole ==
  ASSUME NEW u \in Members, NEW f, DOMAIN f \subseteq People, \A v \in DOMAIN f : f[v] \in Int
  PROVE  LET g == Moved(f, u)
         IN  /\ DOMAIN g \subseteq People /\ \A v \in DOMAIN g : g[v] \in Int
             /\ SumFunction(g) = SumFunction(f)
<1>. DEFINE p == Placeholder
            D == DOMAIN f
            g == Moved(f, u)
            share == IF u \in D THEN f[u] ELSE 0
            E == D \cup {p, u}
            a == [v \in E |-> IF v \in D THEN f[v] ELSE 0]
            b == [v \in E |-> IF v = p THEN 0 ELSE IF v = u THEN f[p] + share
                              ELSE f[v]]
            c == [v \in E |-> IF v = u THEN share + f[p] ELSE a[v]]
            id == [v \in E |-> v]
<1>1. CASE p \notin D
  BY <1>1 DEF Moved
<1>2. CASE p \in D
  <2>1. IsFiniteSet(D) /\ IsFiniteSet(E) /\ u # p /\ E \subseteq People
    <3>1. IsFiniteSet(People) /\ E \subseteq People /\ u # p
      BY PeopleFinite DEF People
    <3>. QED
      BY <3>1, FS_Subset
  <2>2. f[p] \in Int /\ share \in Int
    BY <1>2
  <2>3. /\ DOMAIN g = (D \ {p}) \cup {u} /\ g[u] = f[p] + share
        /\ \A v \in D \ {p, u} : g[v] = f[v]
    BY <1>2 DEF Moved
  <2>4. /\ DOMAIN a = E /\ DOMAIN b = E /\ DOMAIN c = E /\ DOMAIN id = E
        /\ a[u] = share /\ a[p] = f[p] /\ b[u] = f[p] + share /\ b[p] = 0
        /\ c[u] = share + f[p] /\ c[p] = f[p]
        /\ \A v \in E \ {p, u} : a[v] = f[v] /\ b[v] = f[v] /\ c[v] = f[v]
        /\ \A v \in E : id[v] = v /\ (v \in D => a[v] = f[v]) /\ (v \notin D => a[v] = 0)
    BY <1>2, <2>1
  <2>. HIDE DEF g, share, a, b, c, id
  <2>5. /\ \A v \in E : a[v] \in Int /\ b[v] \in Int /\ c[v] \in Int
        /\ \A v \in DOMAIN g : g[v] \in Int
    BY <2>2, <2>3, <2>4
  <2>6. SumFunction(f) = SumFunction(a)
    <3>1. \A v \in D : id[v] \in E /\ a[id[v]] = f[v]
      BY <2>4
    <3>2. \A v, w \in D : id[v] = id[w] => v = w
      BY <2>4
    <3>3. \A v \in E : a[v] = 0 \/ \E w \in D : id[w] = v
      BY <2>4
    <3>. QED
      BY <2>1, <2>4, <3>1, <3>2, <3>3, SumImage
  <2>7. SumFunction(g) = SumFunction(b)
    <3>1. \A v \in DOMAIN g : id[v] \in E /\ b[id[v]] = g[v]
      BY <1>2, <2>3, <2>4
    <3>2. \A v, w \in DOMAIN g : id[v] = id[w] => v = w
      BY <2>3, <2>4
    <3>3. \A v \in E : b[v] = 0 \/ \E w \in DOMAIN g : id[w] = v
      BY <2>3, <2>4
    <3>4. IsFiniteSet(DOMAIN g)
      BY <2>1, <2>3, FS_Subset, <1>2
    <3>. QED
      BY <2>1, <2>4, <2>5, <3>1, <3>2, <3>3, <3>4, SumImage
  <2>8. SumFunction(c) = SumFunction(a) + (c[u] - a[u])
    <3>1. \A v \in E : v # u => c[v] = a[v]
      BY <2>4
    <3>. QED
      BY <2>1, <2>4, <2>5, <3>1, SumChanged
  <2>9. SumFunction(b) = SumFunction(c) + (b[p] - c[p])
    <3>1. \A v \in E : v # p => b[v] = c[v]
      BY <2>2, <2>4
    <3>. QED
      BY <2>1, <2>4, <2>5, <3>1, SumChanged
  <2>10. SumFunction(a) \in Int
    BY <2>1, <2>4, <2>5, SumType
  <2>11. SumFunction(g) = SumFunction(f)
    <3>1. \A x, y, z \in Int : (x + ((y + z) - y)) + (0 - z) = x
      OBVIOUS
    <3>. QED
      BY <2>2, <2>4, <2>6, <2>7, <2>8, <2>9, <2>10, <3>1
  <2>. QED
    BY <2>1, <2>3, <2>5, <2>11 DEF g
<1>. QED
  BY <1>1, <1>2


-----------------------------------------------------------------------------
(* And stays so: what is in the ledger, and what is about to be.           *)
TxMoney(r) ==
  /\ r.op = "expense" => Divisible(r.in)
  /\ r.op = "pay" => /\ r.in.from \in People /\ r.in.to \in People /\ r.in.from # r.in.to
                     /\ r.in.cents \in Int

MoneyInv ==
  /\ \A i \in DOMAIN rows : MoneyOK(rows[i])
  /\ \A t \in Txs : TxMoney(tx[t])

LEMMA OpenMoney ==
  ASSUME IndInv, MoneyInv, NEW t \in Txs, NEW r, TxMoney(r), Open(t, r)
  PROVE  MoneyInv'
<1>1. UNCHANGED rows /\ tx'[t] = r /\ \A s \in Txs \ {t} : tx'[s] = tx[s]
  BY DEF Open, IndInv, TxInv
<1>2. \A s \in Txs : TxMoney(tx'[s])
  BY <1>1 DEF MoneyInv
<1>. QED
  BY <1>1, <1>2 DEF MoneyInv

(* A transaction that is over is about to write nothing.                   *)
LEMMA IdleMoney == TxMoney(Idle)
BY DEF TxMoney, Idle

LEMMA CommitNewMoney ==
  ASSUME IndInv, MoneyInv, NEW t \in Txs, CommitNew(t)
  PROVE  MoneyInv'
<1>. DEFINE e(i) == Expense(i, tx[t].begun, tx[t].in)
            p(i) == Payment(i, tx[t].begun, tx[t].in)
<1>1. PICK i \in Ids \ DOMAIN rows :
        /\ \/ tx[t].op = "expense" /\ Insert(i, e(i))
           \/ tx[t].op = "pay" /\ Insert(i, p(i))
        /\ tx' = [tx EXCEPT ![t] = Idle]
  BY DEF CommitNew
<1>2. tx[t].op = "expense" => MoneyOK(e(i))
  BY ExpenseMoney DEF MoneyInv, TxMoney
<1>3. tx[t].op = "pay" => MoneyOK(p(i))
  BY DEF MoneyInv, TxMoney, MoneyOK, Payment
<1>. HIDE DEF e, p
<1>4. PICK r : Insert(i, r) /\ MoneyOK(r)
  BY <1>1, <1>2, <1>3
<1>5. \A j \in DOMAIN rows' : MoneyOK(rows'[j])
  BY <1>4 DEF Insert, MoneyInv
<1>6. \A s \in Txs : TxMoney(tx'[s])
  BY <1>1, IdleMoney DEF MoneyInv, IndInv, TxInv
<1>. QED
  BY <1>5, <1>6 DEF MoneyInv

LEMMA EditMoney ==
  ASSUME IndInv, MoneyInv, NEW i \in DOMAIN rows, NEW in, Edit(i, in)
  PROVE  MoneyInv'
<1>. DEFINE e == Expense(i, rows[i].created, in)
<1>1. rows' = [rows EXCEPT ![i] = e] /\ UNCHANGED tx /\ Resolved(in)
  BY DEF Edit
<1>2. MoneyOK(e)
  BY <1>1, ResolvedDivisible, ExpenseMoney DEF IndInv
<1>. HIDE DEF e
<1>3. \A j \in DOMAIN rows' : MoneyOK(rows'[j])
  BY <1>1, <1>2 DEF MoneyInv
<1>. QED
  BY <1>1, <1>3 DEF MoneyInv

LEMMA ClaimMoney ==
  ASSUME IndInv, MoneyInv, NEW u \in Members, Claim(u)
  PROVE  MoneyInv'
<1>. DEFINE new(r) == [r EXCEPT !.splits = Moved(@, u)]
<1>1. /\ rows' = [i \in DOMAIN rows |-> IF rows[i].kind = "expense" THEN new(rows[i])
                                        ELSE rows[i]]
      /\ UNCHANGED tx
  BY DEF Claim
<1>2. ASSUME NEW i \in DOMAIN rows, rows[i].kind = "expense"
      PROVE  MoneyOK(new(rows[i]))
  <2>. DEFINE r == rows[i]
              g == Moved(r.splits, u)
  <2>1. IsExpense(r) /\ MoneyOK(r)
    BY <1>2, KindOf DEF IndInv, RowsInv, MoneyInv
  <2>2. /\ DOMAIN g \subseteq People /\ \A v \in DOMAIN g : g[v] \in Int
        /\ SumFunction(g) = SumFunction(r.splits)
    BY <1>2, <2>1, MovedWhole DEF MoneyOK
  <2>3. /\ new(r).kind = "expense" /\ new(r).payer = r.payer /\ new(r).cents = r.cents
        /\ new(r).splits = g
    BY <2>1 DEF IsExpense
  <2>. HIDE DEF new, g
  <2>4. MoneyOK(new(r))
    BY <1>2, <2>1, <2>2, <2>3 DEF MoneyOK
  <2>. QED
    BY <2>4
<1>. HIDE DEF new
<1>3. \A i \in DOMAIN rows' : MoneyOK(rows'[i])
  BY <1>1, <1>2 DEF MoneyInv
<1>. QED
  BY <1>1, <1>3 DEF MoneyInv

LEMMA CommitTransitionMoney ==
  ASSUME IndInv, MoneyInv, NEW t \in Txs, CommitTransition(t)
  PROVE  MoneyInv'
<1>. DEFINE i == tx[t].id
<1>1. /\ \E to : rows' = [rows EXCEPT ![i].status = to]
      /\ tx' = [tx EXCEPT ![t] = Idle] /\ tx[t].op \in {"dispute", "resolve"}
  BY DEF CommitTransition
<1>2. PICK to : rows' = [rows EXCEPT ![i].status = to]
  BY <1>1
<1>3. /\ i \in DOMAIN rows /\ rows[i].kind = "payment" /\ IsPayment(rows[i])
      /\ MoneyOK(rows[i])
  BY <1>1, KindOf DEF IndInv, TxInv, TxOK, Idle, Transition, RowsInv, MoneyInv
<1>. HIDE DEF i
<1>4. /\ rows'[i].kind = "payment" /\ rows'[i].from = rows[i].from /\ rows'[i].to = rows[i].to
      /\ rows'[i].cents = rows[i].cents
      /\ DOMAIN rows' = DOMAIN rows /\ \A j \in DOMAIN rows \ {i} : rows'[j] = rows[j]
  BY <1>2, <1>3 DEF IsPayment
<1>5. MoneyOK(rows'[i])
  BY <1>3, <1>4 DEF MoneyOK
<1>6. \A j \in DOMAIN rows' : MoneyOK(rows'[j])
  BY <1>4, <1>5 DEF MoneyInv
<1>7. \A s \in Txs : TxMoney(tx'[s])
  BY <1>1, IdleMoney DEF MoneyInv, IndInv, TxInv
<1>. QED
  BY <1>6, <1>7 DEF MoneyInv

LEMMA NextMoney == IndInv /\ MoneyInv /\ [Next]_vars => MoneyInv'
<1>. SUFFICES ASSUME IndInv, MoneyInv, [Next]_vars
              PROVE  MoneyInv'
  OBVIOUS
<1>1. ASSUME NEW t \in Txs, NEW in \in Inputs, OpenExpense(t, in)
      PROVE  MoneyInv'
  <2>. DEFINE r == [op |-> "expense", begun |-> now, in |-> in]
  <2>1. Open(t, r) /\ Divisible(in)
    BY <1>1, ResolvedDivisible DEF OpenExpense, IndInv
  <2>2. TxMoney(r)
    BY <2>1 DEF TxMoney
  <2>. HIDE DEF r
  <2>. QED
    BY <2>1, <2>2, OpenMoney
<1>2. ASSUME NEW t \in Txs, NEW in \in Sent, OpenPayment(t, in)
      PROVE  MoneyInv'
  <2>. DEFINE r == [op |-> "pay", begun |-> now, in |-> in]
  <2>1. Open(t, r) /\ in.from # in.to /\ in \in [from : Members, to : People, cents : Nat \ {0}]
    BY <1>2, SettlingAssumption DEF OpenPayment
  <2>2. TxMoney(r)
    BY <2>1 DEF TxMoney, People
  <2>. HIDE DEF r
  <2>. QED
    BY <2>1, <2>2, OpenMoney
<1>3. ASSUME NEW t \in Txs, NEW i \in DOMAIN rows, NEW u \in Members, OpenTransition(t, i, u)
      PROVE  MoneyInv'
  <2>1. PICK op \in {"dispute", "resolve"} : Open(t, [op |-> op, id |-> i])
    BY <1>3 DEF OpenTransition
  <2>2. TxMoney([op |-> op, id |-> i])
    BY DEF TxMoney
  <2>. QED
    BY <2>1, <2>2, OpenMoney
<1>4. ASSUME NEW t \in Txs, Abort(t)
      PROVE  MoneyInv'
  BY <1>4, IdleMoney, OpenMoney DEF Abort
<1>5. ASSUME Tick \/ ReadExpenses \/ ReadPayments \/ OpenPage \/ TurnPage \/ UNCHANGED vars
      PROVE  MoneyInv'
  <2>1. UNCHANGED <<rows, tx>>
    BY <1>5 DEF Tick, ReadExpenses, ReadPayments, OpenPage, TurnPage, vars
  <2>. QED
    BY <2>1 DEF MoneyInv
<1>. QED
  BY <1>1, <1>2, <1>3, <1>4, <1>5, CommitNewMoney, CommitTransitionMoney, EditMoney, ClaimMoney
  DEF Next

(* Every expense of the ledger is divided whole, however it was entered,   *)
(* edited or claimed; every payment is between two.                        *)
LEMMA MoneyInvariance == Spec => [](IndInv /\ MoneyInv)
<1>1. Init => MoneyInv
  BY IdleMoney DEF Init, MoneyInv
<1>. QED
  BY <1>1, InitKeeps, NextKeeps, NextMoney, PTL DEF Spec

(* Setting off pair by pair moves nobody's total by a cent, for any modes, *)
(* amounts, disputes and claims: what the house owes somebody is what they *)
(* paid and sent less their shares and what they were sent                 *)
(* (packages/domain/src/money/balances.ts computeBalances).                *)
THEOREM NetsAreStandings == Spec => []NetIsStanding
<1>1. IndInv /\ MoneyInv => NetIsStanding
  <2>. SUFFICES ASSUME IndInv, MoneyInv, NEW u \in People
                PROVE  Net(Owed(Expenses(Current), Payments(Current)), u) = Standing(u)
    BY DEF NetIsStanding
  <2>1. /\ Entries(Current) /\ Book(Current)
        /\ \A i \in DOMAIN rows : rows[i] \in Current /\ rows[i].id = i
    BY CurrentEntries DEF IndInv, MoneyInv, Book, Entries, Current
  <2>. DEFINE f == [i \in DOMAIN rows |-> Worth(rows[i], u)]
              g == [r \in Current |-> Worth(r, u)]
  <2>2. /\ DOMAIN f = DOMAIN rows /\ DOMAIN g = Current
        /\ IsFiniteSet(DOMAIN f) /\ IsFiniteSet(DOMAIN g)
    BY <2>1 DEF IndInv, RowsInv, Entries
  <2>3. \A i \in DOMAIN f : f[i] \in Int /\ rows[i] \in DOMAIN g /\ g[rows[i]] = f[i]
    <3>1. ASSUME NEW r \in Current
          PROVE  Worth(r, u) \in Int
      <4>1. IsFiniteSet(People \ {u})
        BY PeopleFinite, FS_Subset
      <4>2. SumFunction(Toward(r, u)) \in Int
        <5>. DEFINE h == Toward(r, u)
        <5>1. DOMAIN h = People \ {u} /\ \A v \in People \ {u} : h[v] \in Int
          BY <2>1, AddsType DEF Toward, Book
        <5>. HIDE DEF h
        <5>2. SumFunction(h) \in Int
          BY <4>1, <5>1, SumType
        <5>. QED
          BY <5>2 DEF h
      <4>. QED
        BY <2>1, <4>2, TowardIs DEF Book
    <3>. QED
      BY <2>1, <3>1
  <2>4. \A i, j \in DOMAIN f : rows[i] = rows[j] => i = j
    BY <2>1
  <2>5. \A r \in DOMAIN g : \E i \in DOMAIN f : rows[i] = r
    BY DEF Current
  <2>. HIDE DEF f, g
  <2>6. SumFunction(f) = SumFunction(g)
    BY <2>2, <2>3, <2>4, <2>5, SumImage
  <2>. QED
    BY <2>1, <2>6, NetIsWorth DEF f, g, Standing
<1>. QED
  BY <1>1, MoneyInvariance, PTL
=============================================================================
