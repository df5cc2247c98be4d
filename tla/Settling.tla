------------------------------ MODULE Settling -------------------------------
(***************************************************************************)
(* Settling up in one house: recordPayment, disputePayment, resolvePayment *)
(* beside the creation and the edit of expenses, and the two reads that    *)
(* show the ledger: getBalances and the pages of getLedger                 *)
(* (apps/api/src/ledger), with the action items of the HOME snapshot       *)
(* (apps/api/src/houses/snapshot.service.ts).                              *)
(*                                                                         *)
(* A transaction is opened, with the locks it takes and the checks it      *)
(* makes under them, and later committed.  A read spans two statements on  *)
(* one snapshot.  HouseLedger has the statements of an edit and a claim.   *)
(* People are numbers; time is in fractions of the dispute window.         *)
(***************************************************************************)
EXTENDS SplitMath

CONSTANTS
  Members,      \* people of account, all active
  Placeholder,  \* a roommate added by name
  Inputs,       \* the expenses people enter ...
  Edits,        \* ... and what they change them to
  Sent,         \* the payments they record
  Ids,          \* ids of entries, in no order of time
  Txs,          \* transactions that write
  Window,       \* DISPUTE_WINDOW_MS
  Limit,        \* entries to a page
  MaxClock,     \* bound on the clock
  MaxChanges    \* bound on the changes of balances during a read

People == Members \cup {Placeholder}

ASSUME SettlingAssumption ==
  /\ Members \subseteq Nat /\ Placeholder \in Nat \ Members /\ Ids \subseteq Nat
  /\ Sent \subseteq [from : Members, to : People, cents : Nat \ {0}] /\ Limit \in Nat \ {0}
  /\ Window \in Nat /\ MaxClock \in Nat /\ MaxChanges \in Nat
ASSUME MoneyAssumption ==
  /\ IsFiniteSet(Members)
  /\ \A in \in Inputs \cup Edits :
       in.total \in Int /\ \A u \in DOMAIN in.given : in.given[u] \in Int

VARIABLES
  now,      \* the clock
  active,   \* the active members
  rows,     \* id -> the committed expense or payment
  feed,     \* id -> the events logged of a payment
  tx,       \* what each transaction is about to write
  reader,   \* a client that asks for the balances ...
  walk      \* ... or walks through the ledger's pages

vars == <<now, active, rows, feed, tx, reader, walk>>

Idle    == [op |-> "idle"]
Current == {rows[i] : i \in DOMAIN rows}

Expenses(S) == {r \in S : r.kind = "expense"}
Payments(S) == {r \in S : r.kind = "payment"}

(* computeBalances *)
Owed(expenses, payments) == Pairwise(expenses, payments, People)

NotReading == [at |-> "idle", snap |-> {}, existed |-> {}]
NotWalking == [at |-> "idle", snap |-> {}, cursor |-> <<>>, got |-> {}, there |-> {}]

Init ==
  /\ now = 0 /\ active = People
  /\ rows = <<>> /\ feed = [i \in Ids |-> <<>>]
  /\ tx = [t \in Txs |-> Idle]
  /\ reader = NotReading
  /\ walk = NotWalking

-----------------------------------------------------------------------------
(* Writers *)

Open(t, r) == tx' = [tx EXCEPT ![t] = r] /\ UNCHANGED <<now, active, rows, feed, reader, walk>>

(* FOR UPDATE on a payment. *)
Locked(i) == \E t \in Txs : tx[t].op \in {"dispute", "resolve"} /\ tx[t].id = i

Accepted == {in \in Inputs \cup Edits : Accepts(in)}

(* resolveSplits: those involved are active members, and the payer not a   *)
(* placeholder; their rows stay locked FOR SHARE.                          *)
Resolved(in) ==
  /\ DOMAIN in.given \cup {in.payer} \subseteq active /\ in.payer # Placeholder
  /\ in \in Accepted

(* createExpense.  created_at is when the transaction began. *)
OpenExpense(t, in) ==
  /\ tx[t] = Idle /\ Resolved(in)
  /\ Open(t, [op |-> "expense", begun |-> now, in |-> in])

(* recordPayment: not to oneself, and to an active member who is no        *)
(* placeholder (lockActingMember).                                         *)
OpenPayment(t, in) ==
  /\ tx[t] = Idle /\ in.from # in.to /\ in.to \in active /\ in.to # Placeholder
  /\ Open(t, [op |-> "pay", begun |-> now, in |-> in])

(* What disputePayment and resolvePayment find a payment to be. *)
StatusAlsoResolved(op) == IF op = "dispute" THEN {"recorded", "resolved"} ELSE {"disputed"}

StatusFor(op) == IF op = "dispute" THEN {"recorded"} ELSE {"disputed"}

(* disputePayment: by the recipient, within the window. *)
Disputable(i, u) ==
  /\ rows[i].to = u /\ u \in active
  /\ rows[i].status \in StatusFor("dispute") /\ now - rows[i].created =< Window

(* resolvePayment: by the recipient, at any time. *)
Resolvable(i, u) == rows[i].to = u /\ u \in active /\ rows[i].status \in StatusFor("resolve")

OpenTransition(t, i, u) ==
  /\ tx[t] = Idle /\ ~ Locked(i) /\ rows[i].kind = "payment"
  /\ \/ Disputable(i, u) /\ Open(t, [op |-> "dispute", id |-> i])
     \/ Resolvable(i, u) /\ Open(t, [op |-> "resolve", id |-> i])

(* The balances of this moment, remembered while a read is under way: one  *)
(* sees no more than MaxChanges.                                           *)
Remember ==
  IF reader.at = "idle" THEN UNCHANGED reader
  ELSE /\ Cardinality(reader.existed) =< MaxChanges
       /\ reader' = [reader EXCEPT !.existed =
                       @ \cup {Owed(Expenses(Current'), Payments(Current'))}]

Expense(i, created, in) ==
  [id |-> i, created |-> created, kind |-> "expense", payer |-> in.payer,
   cents |-> in.total, splits |-> ComputeSplits(in)]

Payment(i, created, in) ==
  [id |-> i, created |-> created, kind |-> "payment", from |-> in.from, to |-> in.to,
   cents |-> in.cents, status |-> "recorded"]

Insert(i, r) == rows' = [j \in DOMAIN rows \cup {i} |-> IF j = i THEN r ELSE rows[j]]

CommitNew(t) ==
  \E i \in Ids \ DOMAIN rows :
    /\ \/ tx[t].op = "expense" /\ Insert(i, Expense(i, tx[t].begun, tx[t].in)) /\ UNCHANGED feed
       \/ /\ tx[t].op = "pay" /\ Insert(i, Payment(i, tx[t].begun, tx[t].in))
          /\ feed' = [feed EXCEPT ![i] = <<"recorded">>]
    /\ tx' = [tx EXCEPT ![t] = Idle]
    /\ Remember
    /\ UNCHANGED <<now, active, walk>>

(* editExpense, in one step: a full respec of an expense, whose place in  *)
(* the ledger stays.                                                       *)
Edit(i, in) ==
  /\ rows[i].kind = "expense" /\ Resolved(in)
  /\ rows' = [rows EXCEPT ![i] = Expense(i, rows[i].created, in)]
  /\ Remember
  /\ UNCHANGED <<now, active, feed, tx, walk>>

(* The update is guarded by the status once more. *)
CommitTransition(t) ==
  LET i  == tx[t].id
      to == IF tx[t].op = "dispute" THEN "disputed" ELSE "resolved"
  IN  /\ tx[t].op \in {"dispute", "resolve"} /\ rows[i].status \in StatusFor(tx[t].op)
      /\ rows' = [rows EXCEPT ![i].status = to]
      /\ feed' = [feed EXCEPT ![i] = Append(@, to)]
      /\ tx' = [tx EXCEPT ![t] = Idle]
      /\ Remember
      /\ UNCHANGED <<now, active, walk>>

Abort(t) == tx[t] # Idle /\ Open(t, Idle)

(* claimHistory's statements on the splits, in one step: the placeholder's *)
(* share becomes the claimer's, or is added to theirs.  It waits for the   *)
(* postings that hold the placeholder's row.                               *)
Moved(f, u) ==
  IF Placeholder \in DOMAIN f
  THEN [v \in (DOMAIN f \ {Placeholder}) \cup {u} |->
          IF v # u THEN f[v] ELSE f[Placeholder] + (IF u \in DOMAIN f THEN f[u] ELSE 0)]
  ELSE f

Claim(u) ==
  /\ Placeholder \in active
  /\ \A t \in Txs : tx[t].op = "expense" => Placeholder \notin DOMAIN tx[t].in.given
  /\ active' = Members
  /\ rows' = [i \in DOMAIN rows |-> IF rows[i].kind = "expense"
                                    THEN [rows[i] EXCEPT !.splits = Moved(@, u)] ELSE rows[i]]
  /\ Remember
  /\ UNCHANGED <<now, feed, tx, walk>>

(* Time passes, not within a read. *)
Tick ==
  /\ now < MaxClock /\ reader.at = "idle" /\ walk.at # "reading"
  /\ now' = now + 1
  /\ UNCHANGED <<active, rows, feed, tx, reader, walk>>

-----------------------------------------------------------------------------
(* getBalances: the expenses with their splits, and then the payments, in  *)
(* one repeatable-read snapshot.                                           *)
ReadExpenses ==
  /\ reader.at = "idle" /\ walk.at = "idle"
  /\ reader' = [at |-> "reading", snap |-> Current,
                existed |-> {Owed(Expenses(Current), Payments(Current))}]
  /\ UNCHANGED <<now, active, rows, feed, tx, walk>>

PaymentsReadCommitted == Payments(Current)
PaymentsRead == Payments(reader.snap)

Balances == Owed(Expenses(reader.snap), PaymentsRead)

ReadPayments ==
  /\ reader.at = "reading"
  /\ reader' = NotReading
  /\ UNCHANGED <<now, active, rows, feed, tx, walk>>

-----------------------------------------------------------------------------
(* getLedger: newest first, by (created_at, id) *)

Key(r) == <<r.created, r.id>>

BeforeByTime(k, l) == k[1] < l[1]

(* The keyset: strictly older than the cursor. *)
Before(k, l) == k[1] < l[1] \/ (k[1] = l[1] /\ k[2] < l[2])

Past(S, cursor) == {r \in S : cursor # <<>> => Before(Key(r), cursor)}

Newer(r, s) == r.created > s.created \/ (r.created = s.created /\ r.id > s.id)

(* ORDER BY ... LIMIT n, and the sort and slice of the merged rows. *)
Newest(S, n) == {r \in S : Cardinality({s \in S : Newer(s, r)}) < n}

(* A page begins: its snapshot, and the expenses. *)
OpenPage ==
  /\ walk.at \in {"idle", "between"} /\ reader.at = "idle"
  /\ walk' = [at |-> "reading", snap |-> Current, cursor |-> walk.cursor, got |-> walk.got,
              there |-> IF walk.at = "idle" THEN DOMAIN rows ELSE walk.there]
  /\ UNCHANGED <<now, active, rows, feed, tx, reader>>

(* The payments, and the merge. *)
PagedPayments == Payments(walk.snap)

Merged == Newest(Past(Expenses(walk.snap), walk.cursor), Limit + 1)
            \cup Newest(Past(PagedPayments, walk.cursor), Limit + 1)
Page   == Newest(Merged, Limit)
More   == Cardinality(Merged) > Limit
Got    == walk.got \cup {r.id : r \in Page}
Oldest(S) == CHOOSE r \in S : \A s \in S \ {r} : Newer(s, r)

(* The page is answered, with a cursor if one row more was found.          *)
TurnPage ==
  /\ walk.at = "reading"
  /\ walk' = IF More THEN [at |-> "between", snap |-> {}, cursor |-> Key(Oldest(Page)),
                           got |-> Got, there |-> walk.there]
             ELSE NotWalking
  /\ UNCHANGED <<now, active, rows, feed, tx, reader>>

Next ==
  \/ \E t \in Txs :
       \/ \E in \in Inputs : OpenExpense(t, in)
       \/ \E in \in Sent : OpenPayment(t, in)
       \/ \E i \in DOMAIN rows, u \in Members : OpenTransition(t, i, u)
       \/ CommitNew(t) \/ CommitTransition(t) \/ Abort(t)
  \/ \E i \in DOMAIN rows, in \in Edits : Edit(i, in)
  \/ \E u \in Members : Claim(u)
  \/ Tick \/ ReadExpenses \/ ReadPayments \/ OpenPage \/ TurnPage

Spec == Init /\ [][Next]_vars

-----------------------------------------------------------------------------
(* Balances are those of one moment: a payment or an edit that commits     *)
(* between the two statements of a read produces none that never existed.  *)
BalancesOnceExisted == reader.at = "reading" => Balances \in reader.existed

(* What a row is worth to somebody, straight and without pairs: what they  *)
(* paid for or sent, less their share or what they were sent.  A disputed  *)
(* payment never happened.                                                 *)
Worth(r, u) ==
  LET when(b, c) == IF b THEN c ELSE 0
  IN  CASE r.kind = "expense" -> when(r.payer = u, r.cents)
                                   - (IF u \in DOMAIN r.splits THEN r.splits[u] ELSE 0)
        [] r.kind = "payment" -> when(r.status # "disputed", when(r.from = u, r.cents)
                                                             - when(r.to = u, r.cents))

Standing(u) == SumFunction([i \in DOMAIN rows |-> Worth(rows[i], u)])

(* Setting off pair by pair moves nobody's total by a cent, whatever the   *)
(* modes, disputes and claims.                                             *)
NetIsStanding ==
  LET owed == Owed(Expenses(Current), Payments(Current))
  IN  \A u \in People : Net(owed, u) = Standing(u)

(* The feed tells of each transition once and in order, so concurrent      *)
(* disputes and resolutions never double-fire, and it says where a payment *)
(* stands.                                                                 *)
FeedTellsStatus ==
  \A i \in DOMAIN rows : rows[i].kind = "payment" =>
    feed[i] = CASE rows[i].status = "recorded" -> <<"recorded">>
                [] rows[i].status = "disputed" -> <<"recorded", "disputed">>
                [] rows[i].status = "resolved" -> <<"recorded", "disputed", "resolved">>

(* And it returns every entry that was there when it began: entries with   *)
(* one created_at on both sides of a page's end, too.                      *)
NoEntrySkipped == walk.at = "reading" /\ ~ More => walk.there \subseteq Got

(* The HOME snapshot's confirm_payment items, windowStart and all. *)
OfferedForOneMore(u) ==
  {i \in DOMAIN rows : /\ rows[i].kind = "payment" /\ rows[i].to = u
                       /\ rows[i].status = "recorded" /\ rows[i].created > now - Window - 2}

Offered(u) ==
  {i \in DOMAIN rows : /\ rows[i].kind = "payment" /\ rows[i].to = u
                       /\ rows[i].status = "recorded" /\ rows[i].created > now - Window}

(* A payment the home screen asks somebody to confirm is one whose dispute *)
(* would be accepted; and every one that is not in its last instant is     *)
(* asked for.                                                              *)
OfferedIsDisputable ==
  \A u \in Members, i \in DOMAIN rows : rows[i].kind = "payment" =>
    /\ i \in Offered(u) => Disputable(i, u)
    /\ Disputable(i, u) /\ rows[i].created + Window > now => i \in Offered(u)
=============================================================================
