---------------------------- MODULE HouseLedger ----------------------------
(***************************************************************************)
(* The write transactions that meet on one house's membership and splits:  *)
(* createExpense and editExpense (apps/api/src/ledger/ledger.service.ts),  *)
(* the worker's postOne (apps/worker/src/bills/post-due-bills.ts), all     *)
(* through the posting core (packages/ledger/src/posting.ts), and the      *)
(* placeholder claim of acceptInvite and claimHistory                      *)
(* (apps/api/src/houses/invites.service.ts).                               *)
(*                                                                         *)
(* The database runs them at READ COMMITTED: every statement sees what was *)
(* committed when it started; a locking read that had to wait looks at the *)
(* rows it chose once more, but finds no row it had not chosen.  A step    *)
(* below is one statement, or several no other transaction can tell apart; *)
(* a transaction's writes appear at its commit, and the row locks it holds *)
(* are read off where it stands.                                           *)
(*                                                                         *)
(* The house has no rooms, and one person pays for everything: the payer   *)
(* cannot be a placeholder, so a claim touches no other row of money.      *)
(***************************************************************************)
EXTENDS Integers, FiniteSets, Sequences, SequencesExt

CONSTANTS
  Owner,         \* an active member, the payer of every expense and bill
  Joiners,       \* people who may hold a claim invite
  Placeholders,  \* roommates added by name, who have no account
  Txs,           \* transactions
  First,         \* the expense that is there from the start
  None,          \* nobody, nothing
  Total          \* cents of every expense

People   == {Owner} \cup Joiners \cup Placeholders
Expenses == Txs \cup {First}

ASSUME DistinctAssumption ==
  /\ Owner \notin Joiners \cup Placeholders
  /\ Joiners \cap Placeholders = {}
  /\ First \notin Txs
  /\ None \notin People \cup Expenses
ASSUME FiniteAssumption == IsFiniteSet(People)
ASSUME TotalAssumption == Total \in Nat \ {0}

VARIABLES
  member,     \* person -> membership: absent, active, left
  claimedBy,  \* placeholder -> who claimed it
  splits,     \* expense -> participant -> share; the empty function before the insert
  revisions,  \* expense -> the split states its revisions recorded
  tx          \* transaction -> where it stands and what it has read

vars == <<member, claimedBy, splits, revisions, tx>>

Splits == UNION {[S -> 0..Total] : S \in SUBSET People}
NoSplits == <<>>
Exists(e) == DOMAIN splits[e] # {}

Kinds  == {"create", "bill", "edit", "claim"}
Stages == {"new", "opened", "snapped", "read", "locked", "folding", "folded", "writing",
           "committed", "aborted"}

TypeOK ==
  /\ member \in [People -> {"absent", "active", "left"}]
  /\ claimedBy \in [Placeholders -> Joiners \cup {None}]
  /\ splits \in [Expenses -> Splits]
  /\ revisions \in [Expenses -> Seq(Splits)]
  /\ \A t \in Txs :
       /\ tx[t].at \in Stages /\ tx[t].kind \in Kinds
       /\ tx[t].expense \in Expenses
       /\ tx[t].want \subseteq People /\ tx[t].rows \subseteq People
       /\ tx[t].who \in Joiners \cup {None} /\ tx[t].whom \in Placeholders \cup {None}
       /\ \A e \in DOMAIN tx[t].before : e \in Expenses /\ tx[t].before[e] \in Splits
       /\ \A e \in DOMAIN tx[t].after : e \in Expenses /\ tx[t].after[e] \in Splits

-----------------------------------------------------------------------------
(* Splits *)

(* computeSplits, mode equal: the floor each, and the leftover cents to    *)
(* the payer, or without the payer to one of the participants.             *)
RemainderRecipient(S) == IF Owner \in S THEN Owner ELSE CHOOSE u \in S : TRUE

EqualSplits(S) ==
  LET base == Total \div Cardinality(S)
  IN  [u \in S |-> IF u = RemainderRecipient(S) THEN Total - base * (Cardinality(S) - 1) ELSE base]

(* The three split statements of claimHistory: fold the placeholder's      *)
(* share into the claimer's row where there is one, else re-identify it.   *)
ReidentifyOnly(f, p, c) ==
  [u \in (DOMAIN f \ {p}) \cup {c} |-> IF u = c THEN f[p] ELSE f[u]]

Reidentify(f, p, c) ==
  [u \in (DOMAIN f \ {p}) \cup {c} |->
     (IF u \in DOMAIN f THEN f[u] ELSE 0) + (IF u = c THEN f[p] ELSE 0)]

Sum(f) == FoldFunction(+, 0, f)

-----------------------------------------------------------------------------
(* Transactions and the locks they hold *)

Request(kind, e, S, c, p) ==
  [at |-> "new", kind |-> kind, expense |-> e, want |-> S, rows |-> {},
   who |-> c, whom |-> p, before |-> <<>>, after |-> <<>>]

(* What a request carries: an expense is split among any people it names,  *)
(* a bill among whoever it finds, and a claimer is a person of account.    *)
Creating(t, S) == Request("create", t, S, None, None)
Billing(t)     == Request("bill", t, {}, None, None)
Editing(S)     == Request("edit", First, S, None, None)
Claim(c, p)    == Request("claim", First, {}, c, p)

Named == (SUBSET People) \ {{}}

RequestsOf(t) ==
  {Creating(t, S) : S \in Named} \cup {Billing(t)} \cup {Editing(S) : S \in Named}
    \cup UNION {{Claim(c, p) : c \in Joiners} : p \in Placeholders}

Init ==
  /\ \E J \in SUBSET Joiners :
       /\ member = [u \in People |-> IF u \in Joiners \ J THEN "absent" ELSE "active"]
       /\ splits = [e \in Expenses |-> IF e = First THEN EqualSplits(People \ (Joiners \ J))
                                       ELSE NoSplits]
  /\ claimedBy = [p \in Placeholders |-> None]
  /\ revisions = [e \in Expenses |-> <<>>]
  /\ tx \in {f \in [Txs -> UNION {RequestsOf(t) : t \in Txs}] : \A t \in Txs : f[t] \in RequestsOf(t)}

Open(t) == tx[t].at \notin {"new", "committed", "aborted"}

(* FOR SHARE on the membership rows a posting resolved against. *)
SharesMember(t, u) == tx[t].kind # "claim" /\ tx[t].at \in {"locked", "writing"} /\ u \in tx[t].rows

(* FOR UPDATE on the placeholder's membership row. *)
LocksMember(t, u) == tx[t].kind = "claim" /\ Open(t) /\ u = tx[t].whom

(* FOR UPDATE on the expense an edit replaces. *)
LocksExpense(t, e) == tx[t].kind = "edit" /\ Open(t) /\ e = tx[t].expense

(* FOR KEY SHARE on an expense, taken by the foreign key of a revision. *)
KeysExpense(t, e) ==
  tx[t].kind = "claim" /\ tx[t].at \in {"folded", "writing"} /\ e \in DOMAIN tx[t].before

(* Row locks on the split rows a transaction has changed. *)
LocksSplits(t, e) == tx[t].at = "writing" /\ e \in DOMAIN tx[t].after

Others(t) == Txs \ {t}

Move(t, r) == tx' = [tx EXCEPT ![t] = r]

-----------------------------------------------------------------------------
(* The posting core *)

(* Whose rows a posting reads: those involved, the whole house for a bill; *)
(* and whom it charges.                                                    *)
Scope(t) == IF tx[t].kind = "bill" THEN People ELSE tx[t].want \cup {Owner}

Charged(t, members) == IF tx[t].kind = "bill" THEN members ELSE tx[t].want

(* lockActiveMembers starts: the rows it will lock are the active ones of  *)
(* its scope, as committed now.                                            *)
ReadMembers(t) ==
  /\ \/ tx[t].kind \in {"create", "bill"} /\ tx[t].at = "new"
     \/ tx[t].kind = "edit" /\ tx[t].at = "snapped"
  /\ Move(t, [tx[t] EXCEPT !.at = "read", !.rows = {u \in Scope(t) : member[u] = "active"}])
  /\ UNCHANGED <<member, claimedBy, splits, revisions>>

(* ... and returns: it waits for claims of these rows, drops those no      *)
(* longer active, and resolveSplits answers for the rest: every person of  *)
(* the request must be among them.                                         *)
LockMembersUnchecked(t) ==
  /\ tx[t].at = "read"
  /\ LET S == Charged(t, tx[t].rows) \cap tx[t].rows
     IN  IF S = {} THEN Move(t, [tx[t] EXCEPT !.at = "aborted"])
         ELSE Move(t, [tx[t] EXCEPT !.at = "locked", !.after = [e \in {tx[t].expense} |-> EqualSplits(S)]])
  /\ UNCHANGED <<member, claimedBy, splits, revisions>>

LockMembers(t) ==
  LET rows == {u \in tx[t].rows : member[u] = "active"}
      S    == Charged(t, rows)
  IN  /\ tx[t].at = "read"
      /\ \A s \in Others(t), u \in tx[t].rows : ~ LocksMember(s, u)
      /\ IF S \cup {Owner} \subseteq rows
         THEN Move(t, [tx[t] EXCEPT !.at = "locked", !.rows = rows,
                         !.after = [e \in {tx[t].expense} |-> EqualSplits(S)]])
         ELSE Move(t, [tx[t] EXCEPT !.at = "aborted"])
      /\ UNCHANGED <<member, claimedBy, splits, revisions>>

(* insertExpense, and the commit. *)
CommitPosting(t) ==
  /\ tx[t].kind \in {"create", "bill"} /\ tx[t].at = "locked"
  /\ splits' = [splits EXCEPT ![t] = tx[t].after[t]]
  /\ Move(t, [tx[t] EXCEPT !.at = "committed"])
  /\ UNCHANGED <<member, claimedBy, revisions>>

-----------------------------------------------------------------------------
(* editExpense *)

(* The expense row FOR UPDATE; the editor is an active member. *)
OpenEdit(t) ==
  LET e == tx[t].expense
  IN  /\ tx[t].kind = "edit" /\ tx[t].at = "new"
      /\ \A s \in Others(t) : ~ LocksExpense(s, e) /\ ~ KeysExpense(s, e)
      /\ Move(t, [tx[t] EXCEPT !.at = "opened"])
      /\ UNCHANGED <<member, claimedBy, splits, revisions>>

(* previousSplits, read and put in a revision. *)
SnapSplits(t) ==
  LET e == tx[t].expense
  IN  /\ tx[t].kind = "edit" /\ tx[t].at = "opened"
      /\ Move(t, [tx[t] EXCEPT !.at = "snapped", !.before = [x \in {e} |-> splits[x]]])
      /\ UNCHANGED <<member, claimedBy, splits, revisions>>

(* The delete of the old split rows waits for a claim that has changed     *)
(* them; the new ones are inserted.                                        *)
ReplaceSplits(t) ==
  LET e == tx[t].expense
  IN  /\ tx[t].kind = "edit" /\ tx[t].at = "locked"
      /\ \A s \in Others(t) : ~ LocksSplits(s, e)
      /\ Move(t, [tx[t] EXCEPT !.at = "writing"])
      /\ UNCHANGED <<member, claimedBy, splits, revisions>>

CommitEdit(t) ==
  LET e == tx[t].expense
  IN  /\ tx[t].kind = "edit" /\ tx[t].at = "writing"
      /\ splits' = [splits EXCEPT ![e] = tx[t].after[e]]
      /\ revisions' = [revisions EXCEPT ![e] = Append(@, tx[t].before[e])]
      /\ Move(t, [tx[t] EXCEPT !.at = "committed"])
      /\ UNCHANGED <<member, claimedBy>>

-----------------------------------------------------------------------------
(* acceptInvite with a placeholder, and claimHistory *)

(* The placeholder's row FOR UPDATE, and the unclaimed check. *)
LockPlaceholderStaysOpen(t) ==
  LET p == tx[t].whom
  IN  /\ tx[t].kind = "claim" /\ tx[t].at = "new"
      /\ \A s \in Others(t) : ~ SharesMember(s, p) /\ ~ LocksMember(s, p)
      /\ Move(t, [tx[t] EXCEPT !.at = IF claimedBy[p] = None /\ member[p] = "active"
                                      THEN "opened" ELSE "refused"])
      /\ UNCHANGED <<member, claimedBy, splits, revisions>>

LockPlaceholder(t) ==
  LET p == tx[t].whom
  IN  /\ tx[t].kind = "claim" /\ tx[t].at = "new"
      /\ \A s \in Others(t) : ~ SharesMember(s, p) /\ ~ LocksMember(s, p)
      /\ Move(t, [tx[t] EXCEPT !.at = IF claimedBy[p] = None /\ member[p] = "active"
                                      THEN "opened" ELSE "aborted"])
      /\ UNCHANGED <<member, claimedBy, splits, revisions>>

Folds(e, p, c) == {p, c} \subseteq DOMAIN splits[e]

(* The expenses where the share folds into the claimer's, and their splits *)
(* as the revisions will record them.                                      *)
ReadFolds(t) ==
  LET folds == {e \in Expenses : Folds(e, tx[t].whom, tx[t].who)}
  IN  /\ tx[t].kind = "claim" /\ tx[t].at = "opened"
      /\ Move(t, [tx[t] EXCEPT !.at = "folding", !.before = [e \in folds |-> splits[e]]])
      /\ UNCHANGED <<member, claimedBy, splits, revisions>>

(* The insert of the revisions waits for an edit of their expenses. *)
InsertRevisions(t) ==
  /\ tx[t].kind = "claim" /\ tx[t].at = "folding"
  /\ \A s \in Others(t), e \in DOMAIN tx[t].before : ~ LocksExpense(s, e)
  /\ Move(t, [tx[t] EXCEPT !.at = "folded"])
  /\ UNCHANGED <<member, claimedBy, splits, revisions>>

MoveSplitsUnlocked(t) ==
  LET p  == tx[t].whom
      es == {e \in Expenses : p \in DOMAIN splits[e]}
  IN  /\ tx[t].kind = "claim" /\ tx[t].at = "folded"
      /\ Move(t, [tx[t] EXCEPT !.at = "writing",
                    !.after = [e \in es |-> Reidentify(splits[e], p, tx[t].who)]])
      /\ UNCHANGED <<member, claimedBy, splits, revisions>>

(* The three split statements, each waiting for an edit that has replaced  *)
(* the rows.                                                               *)
MoveSplits(t) ==
  LET p  == tx[t].whom
      es == {e \in Expenses : p \in DOMAIN splits[e]}
  IN  /\ tx[t].kind = "claim" /\ tx[t].at = "folded"
      /\ \A s \in Others(t), e \in es : ~ LocksSplits(s, e)
      /\ Move(t, [tx[t] EXCEPT !.at = "writing",
                    !.after = [e \in es |-> Reidentify(splits[e], p, tx[t].who)]])
      /\ UNCHANGED <<member, claimedBy, splits, revisions>>

CommitClaim(t) ==
  LET p == tx[t].whom
      c == tx[t].who
  IN  /\ tx[t].kind = "claim" /\ tx[t].at = "writing"
      /\ member' = [member EXCEPT ![p] = "left", ![c] = "active"]
      /\ claimedBy' = [claimedBy EXCEPT ![p] = c]
      /\ splits' = [e \in Expenses |-> IF e \in DOMAIN tx[t].after THEN tx[t].after[e]
                                       ELSE splits[e]]
      /\ revisions' = [e \in Expenses |-> IF e \in DOMAIN tx[t].before
                                          THEN Append(revisions[e], tx[t].before[e])
                                          ELSE revisions[e]]
      /\ Move(t, [tx[t] EXCEPT !.at = "committed"])

-----------------------------------------------------------------------------
(* A transaction fails: its process dies, or the database aborts it. *)
Abort(t) ==
  /\ Open(t)
  /\ Move(t, [tx[t] EXCEPT !.at = "aborted"])
  /\ UNCHANGED <<member, claimedBy, splits, revisions>>

(* Who a transaction waits for: s holds a lock t needs next. *)
WaitsFor(t, s) ==
  \/ tx[t].at = "read" /\ \E u \in tx[t].rows : LocksMember(s, u)
  \/ tx[t].kind = "edit" /\ tx[t].at = "locked" /\ LocksSplits(s, tx[t].expense)
  \/ tx[t].kind = "claim" /\ tx[t].at = "folding"
       /\ \E e \in DOMAIN tx[t].before : LocksExpense(s, e)
  \/ tx[t].kind = "claim" /\ tx[t].at = "folded"
       /\ \E e \in Expenses : tx[t].whom \in DOMAIN splits[e] /\ LocksSplits(s, e)

(* Postgres finds two transactions waiting for each other and aborts one. *)
DeadlockVictim(t) ==
  /\ \E s \in Others(t) : WaitsFor(t, s) /\ WaitsFor(s, t)
  /\ Abort(t)

Advance(t) == \/ ReadMembers(t) \/ LockMembers(t) \/ CommitPosting(t)
              \/ OpenEdit(t) \/ SnapSplits(t) \/ ReplaceSplits(t) \/ CommitEdit(t)
              \/ LockPlaceholder(t) \/ ReadFolds(t) \/ InsertRevisions(t)
              \/ MoveSplits(t) \/ CommitClaim(t)

Next == \E t \in Txs : Advance(t) \/ Abort(t) \/ DeadlockVictim(t)

Spec == Init /\ [][Next]_vars

(* The database keeps running a transaction that can go on, and breaks     *)
(* deadlocks.                                                              *)
FairSpec == Spec /\ \A t \in Txs : WF_vars(Advance(t)) /\ WF_vars(DeadlockVictim(t))

-----------------------------------------------------------------------------
(* The shares of every expense add up to its amount, through every edit,   *)
(* claim and fold (HOMI_V3.md 5.4, invariant 2).                           *)
SharesAddUp == \A e \in Expenses : Exists(e) => Sum(splits[e]) = Total

(* Once claimed, a placeholder owes nothing anywhere: no expense written   *)
(* or edited around the claim leaves it a share (H11).                     *)
ClaimedOwesNothing ==
  \A e \in Expenses : \A u \in DOMAIN splits[e] : member[u] = "active"

(* The transactions implement AtomicLedger: each takes effect at its       *)
(* commit, on the members and the shares as they are then, although it has *)
(* read both in earlier statements.                                        *)
Asked == [t \in Txs |-> [kind |-> tx[t].kind, want |-> tx[t].want,
                         who |-> tx[t].who, whom |-> tx[t].whom]]

Outcome == [t \in Txs |-> IF tx[t].at = "committed" THEN "done"
                          ELSE IF tx[t].at = "aborted" THEN "none" ELSE "open"]

Atomic == INSTANCE AtomicLedger WITH asked <- Asked, outcome <- Outcome

ImplementsAtomicLedger == Atomic!Spec

(* Every request is answered: waits on locks end, deadlocks included.      *)
EveryTxEnds == \A t \in Txs : Open(t) ~> ~ Open(t)

(* What posting.ts and post-due-bills.ts say: a posting serializes with a  *)
(* claim.  A bill of the whole house, posted before the claim, charges the *)
(* placeholder and is swept into it; posted after it, it charges the       *)
(* claimer.                                                                *)
BillChargesClaimerOrPlaceholder ==
  \A t \in Txs : tx[t].kind = "bill" /\ tx[t].at = "committed" =>
    \A p \in Placeholders : \E u \in {p, claimedBy[p]} : u \in DOMAIN splits[t]

(* What editExpense says: the edit "first snapshots the entire previous    *)
(* state - expense fields AND splits - into expense_revisions".            *)
RevisionIsPrevious ==
  [][\A e \in Expenses : revisions'[e] # revisions[e] => Last(revisions'[e]) = splits[e]]_vars
=============================================================================
