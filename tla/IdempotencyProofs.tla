------------------------- MODULE IdempotencyProofs -------------------------
(***************************************************************************)
(* Theorems about Idempotency, for every set of keys, bodies and attempts, *)
(* every retention and every bound on the clock; and, resting on them,     *)
(* about the forms of MoneyForm, which extends it.                         *)
(***************************************************************************)
EXTENDS MoneyForm, TLAPS

(* What a used attempt carries, and that it ends within its lifetime. *)
LifetimeInv ==
  \A a \in Attempts : Used(a) =>
    /\ arg[a] \in Pairs
    /\ sent[a] =< now
    /\ InFlight(a) => now =< sent[a] + RequestLifetime

(* Attempts under one key are sent within one retry horizon. *)
HorizonInv ==
  \A a, b \in Attempts : Used(a) /\ Used(b) /\ arg[a].key = arg[b].key
                           => sent[b] =< sent[a] + RetryHorizon

(* A transaction begins after its request was sent. *)
BeganInv ==
  \A a \in Attempts :
    pc[a] \in {"store", "commit", "recheck"} => sent[a] =< began[a]

(* A committed write belongs to a finished attempt and is that attempt's. *)
LedgerInv ==
  \A e \in ledger : /\ pc[e.entry] = "done"
                    /\ arg[e.entry].key = e.key
                    /\ arg[e.entry].body = e.body
                    /\ sent[e.entry] =< began[e.entry]

(* A stored row names a committed write and dates from its transaction. *)
RowInv ==
  \A r \in rows : /\ [key |-> r.key, body |-> r.body, entry |-> r.entry] \in ledger
                  /\ r.day = began[r.entry]

(* A write without a row is older than the retention. *)
RetainedInv ==
  \A e \in ledger : \/ now > began[e.entry] + RetentionDays
                    \/ \E r \in rows : r.entry = e.entry

(* The primary key: an attempt about to commit holds its key alone, and    *)
(* one that lost the key finds the row it lost to.                         *)
KeyInv ==
  \A a \in Attempts :
    /\ pc[a] = "commit" => /\ ~ Stored(arg[a].key)
                           /\ \A b \in Attempts : pc[b] = "commit" /\ arg[b].key = arg[a].key
                                                    => a = b
    /\ pc[a] = "recheck" => Stored(arg[a].key)

(* A running pass deletes nothing younger than the retention. *)
PassInv == pass.running => pass.cutoff =< now - RetentionDays

(* An attempt has an answer exactly when it is done. *)
ReplyInv == \A a \in Attempts : reply[a].kind = "none" <=> pc[a] # "done"

IndInv == /\ TypeOK
          /\ LifetimeInv /\ HorizonInv /\ BeganInv
          /\ LedgerInv /\ RowInv /\ RetainedInv
          /\ KeyInv /\ PassInv /\ ReplyInv
          /\ AtMostOncePerKey /\ RepliesTruthful /\ LoserFindsWinner

-----------------------------------------------------------------------------
(* A replay answers from the one row stored under the key. *)
LEMMA ReplayFound ==
  ASSUME NEW p, Stored(p.key)
  PROVE  \E r \in rows : /\ r.key = p.key
                         /\ Replay(p) = IF r.body = p.body THEN Answer("ok", r.entry)
                                                           ELSE Answer("conflict", NoOne)
BY DEF Stored, Replay

(* What a replay from a sound table says is true and well typed. *)
LEMMA ReplayTruthful ==
  ASSUME IndInv, NEW p \in Pairs, Stored(p.key)
  PROVE  /\ Replay(p) \in [kind : {"ok", "conflict"}, entry : Attempts \cup {NoOne}]
         /\ Replay(p).kind = "ok" =>
              [key |-> p.key, body |-> p.body, entry |-> Replay(p).entry] \in ledger
         /\ Replay(p).kind = "conflict" =>
              \E e \in ledger : e.key = p.key /\ e.body # p.body
<1>1. PICK r \in rows : /\ r.key = p.key
                        /\ Replay(p) = IF r.body = p.body THEN Answer("ok", r.entry)
                                                          ELSE Answer("conflict", NoOne)
  BY ReplayFound
<1>2. /\ [key |-> r.key, body |-> r.body, entry |-> r.entry] \in ledger
      /\ r.entry \in Attempts
  BY DEF IndInv, RowInv, TypeOK
<1>3. CASE r.body = p.body
  BY <1>1, <1>2, <1>3 DEF Answer
<1>4. CASE r.body # p.body
  BY <1>1, <1>2, <1>4 DEF Answer
<1>. QED
  BY <1>3, <1>4

(* An attempt that is still alive meets no write under its key that is     *)
(* past the retention: this is where the assumption on the periods is      *)
(* used.                                                                   *)
LEMMA AliveWithinRetention ==
  ASSUME IndInv, NEW a \in Attempts, InFlight(a), Used(a),
         NEW e \in ledger, e.key = arg[a].key
  PROVE  now =< began[e.entry] + RetentionDays
<1>1. e.entry \in Attempts /\ Used(e.entry) /\ arg[e.entry].key = arg[a].key
  BY DEF IndInv, TypeOK, LedgerInv, Used
<1>2. sent[a] =< sent[e.entry] + RetryHorizon
  BY <1>1 DEF IndInv, HorizonInv
<1>3. now =< sent[a] + RequestLifetime
  BY DEF IndInv, LifetimeInv
<1>4. sent[e.entry] =< began[e.entry]
  BY DEF IndInv, LedgerInv
<1>. QED
  BY <1>1, <1>2, <1>3, <1>4, PeriodsAssumption, RetentionAssumption DEF IndInv, TypeOK

LEMMA SendKeeps ==
  ASSUME IndInv, NEW a \in Attempts, NEW p \in Pairs, Send(a, p)
  PROVE  IndInv'
<1>1. TypeOK'
  BY DEF IndInv, Send, TypeOK, Stages, Kinds, Answer
<1>2. LifetimeInv'
  BY PeriodsAssumption DEF IndInv, Send, TypeOK, LifetimeInv, Used, InFlight
<1>3. HorizonInv'
  BY PeriodsAssumption DEF IndInv, Send, TypeOK, HorizonInv, Used, LifetimeInv
<1>4. BeganInv'
  BY DEF IndInv, Send, TypeOK, BeganInv
<1>5. LedgerInv'
  BY DEF IndInv, Send, TypeOK, LedgerInv
<1>6. RowInv'
  BY DEF IndInv, Send, TypeOK, RowInv
<1>7. RetainedInv'
  BY DEF IndInv, Send, TypeOK, RetainedInv
<1>8. KeyInv'
  BY DEF IndInv, Send, TypeOK, KeyInv, Stored
<1>9. PassInv'
  BY DEF IndInv, Send, PassInv
<1>10. ReplyInv'
  BY DEF IndInv, Send, TypeOK, ReplyInv, Answer
<1>11. AtMostOncePerKey'
  BY DEF IndInv, Send, AtMostOncePerKey
<1>12. RepliesTruthful'
  BY DEF IndInv, Send, TypeOK, RepliesTruthful, Answer, ReplyInv
<1>13. LoserFindsWinner'
  BY DEF IndInv, Send, TypeOK, LoserFindsWinner, Answer
<1>. QED
  BY <1>1, <1>2, <1>3, <1>4, <1>5, <1>6, <1>7, <1>8, <1>9, <1>10, <1>11, <1>12, <1>13 DEF IndInv

LEMMA ExecuteKeeps ==
  ASSUME IndInv, NEW a \in Attempts, Execute(a)
  PROVE  IndInv'
<1>1. TypeOK'
  BY DEF IndInv, Execute, Goto, TypeOK, Stages, Kinds, Answer
<1>2. LifetimeInv'
  BY DEF IndInv, Execute, Goto, TypeOK, LifetimeInv, Used, InFlight
<1>3. HorizonInv'
  BY DEF IndInv, Execute, Goto, TypeOK, HorizonInv, Used
<1>4. BeganInv'
  BY DEF IndInv, Execute, Goto, TypeOK, BeganInv, LifetimeInv, Used
<1>5. LedgerInv'
  BY DEF IndInv, Execute, Goto, TypeOK, LedgerInv
<1>6. RowInv'
  BY DEF IndInv, Execute, Goto, TypeOK, RowInv, LedgerInv
<1>7. RetainedInv'
  BY DEF IndInv, Execute, Goto, TypeOK, RetainedInv, LedgerInv
<1>8. KeyInv'
  BY DEF IndInv, Execute, Goto, TypeOK, KeyInv, Stored
<1>9. PassInv'
  BY DEF IndInv, Execute, Goto, PassInv
<1>10. ReplyInv'
  BY DEF IndInv, Execute, Goto, TypeOK, ReplyInv, Answer
<1>11. AtMostOncePerKey'
  BY DEF IndInv, Execute, Goto, AtMostOncePerKey
<1>12. RepliesTruthful'
  BY DEF IndInv, Execute, Goto, TypeOK, RepliesTruthful, Answer
<1>13. LoserFindsWinner'
  BY DEF IndInv, Execute, Goto, TypeOK, LoserFindsWinner, Answer
<1>. QED
  BY <1>1, <1>2, <1>3, <1>4, <1>5, <1>6, <1>7, <1>8, <1>9, <1>10, <1>11, <1>12, <1>13 DEF IndInv

LEMMA StoreKeeps ==
  ASSUME IndInv, NEW a \in Attempts, Store(a)
  PROVE  IndInv'
<1>1. TypeOK'
  BY DEF IndInv, Store, Goto, KeyHeld, TypeOK, Stages, Kinds, Answer
<1>2. LifetimeInv'
  BY DEF IndInv, Store, Goto, KeyHeld, TypeOK, LifetimeInv, Used, InFlight
<1>3. HorizonInv'
  BY DEF IndInv, Store, Goto, KeyHeld, TypeOK, HorizonInv, Used
<1>4. BeganInv'
  BY DEF IndInv, Store, Goto, KeyHeld, TypeOK, BeganInv
<1>5. LedgerInv'
  BY DEF IndInv, Store, Goto, KeyHeld, TypeOK, LedgerInv
<1>6. RowInv'
  BY DEF IndInv, Store, Goto, KeyHeld, TypeOK, RowInv
<1>7. RetainedInv'
  BY DEF IndInv, Store, Goto, KeyHeld, TypeOK, RetainedInv
<1>8. KeyInv'
  BY DEF IndInv, Store, Goto, KeyHeld, TypeOK, KeyInv, Stored
<1>9. PassInv'
  BY DEF IndInv, Store, Goto, KeyHeld, PassInv
<1>10. ReplyInv'
  BY DEF IndInv, Store, Goto, KeyHeld, TypeOK, ReplyInv, Answer
<1>11. AtMostOncePerKey'
  BY DEF IndInv, Store, Goto, KeyHeld, AtMostOncePerKey
<1>12. RepliesTruthful'
  BY DEF IndInv, Store, Goto, KeyHeld, TypeOK, RepliesTruthful, Answer
<1>13. LoserFindsWinner'
  BY DEF IndInv, Store, Goto, KeyHeld, TypeOK, LoserFindsWinner, Answer
<1>. QED
  BY <1>1, <1>2, <1>3, <1>4, <1>5, <1>6, <1>7, <1>8, <1>9, <1>10, <1>11, <1>12, <1>13 DEF IndInv

(* An attempt that ends without a write: rejected, or dead. *)
LEMMA GiveUpKeeps ==
  ASSUME IndInv, NEW a \in Attempts, NEW kind \in {"rejected", "lost"},
         pc[a] \notin {"unused", "done"}, Finish(a, Answer(kind, NoOne)),
         UNCHANGED <<began, rows, ledger>>
  PROVE  IndInv'
<1>1. TypeOK'
  BY DEF IndInv, Finish, TypeOK, Stages, Kinds, Answer
<1>2. LifetimeInv'
  BY DEF IndInv, Finish, TypeOK, LifetimeInv, Used, InFlight
<1>3. HorizonInv'
  BY DEF IndInv, Finish, TypeOK, HorizonInv, Used
<1>4. BeganInv'
  BY DEF IndInv, Finish, TypeOK, BeganInv
<1>5. LedgerInv'
  BY DEF IndInv, Finish, TypeOK, LedgerInv
<1>6. RowInv'
  BY DEF IndInv, Finish, TypeOK, RowInv
<1>7. RetainedInv'
  BY DEF IndInv, Finish, TypeOK, RetainedInv
<1>8. KeyInv'
  BY DEF IndInv, Finish, TypeOK, KeyInv, Stored
<1>9. PassInv'
  BY DEF IndInv, Finish, PassInv
<1>10. ReplyInv'
  BY DEF IndInv, Finish, TypeOK, ReplyInv, Answer
<1>11. AtMostOncePerKey'
  BY DEF IndInv, Finish, AtMostOncePerKey
<1>12. RepliesTruthful'
  BY DEF IndInv, Finish, TypeOK, RepliesTruthful, Answer
<1>13. LoserFindsWinner'
  BY DEF IndInv, Finish, TypeOK, LoserFindsWinner, Answer
<1>. QED
  BY <1>1, <1>2, <1>3, <1>4, <1>5, <1>6, <1>7, <1>8, <1>9, <1>10, <1>11, <1>12, <1>13 DEF IndInv

(* An attempt answered from the table. *)
LEMMA ReplayKeeps ==
  ASSUME IndInv, NEW a \in Attempts, pc[a] \in {"sent", "recheck"}, Stored(arg[a].key),
         Finish(a, Replay(arg[a])), UNCHANGED <<began, rows, ledger>>
  PROVE  IndInv'
<1>0. /\ Replay(arg[a]) \in [kind : {"ok", "conflict"}, entry : Attempts \cup {NoOne}]
      /\ Replay(arg[a]).kind = "ok" =>
           [key |-> arg[a].key, body |-> arg[a].body, entry |-> Replay(arg[a]).entry] \in ledger
      /\ Replay(arg[a]).kind = "conflict" =>
           \E e \in ledger : e.key = arg[a].key /\ e.body # arg[a].body
  BY ReplayTruthful DEF IndInv, LifetimeInv, Used
<1>1. TypeOK'
  BY <1>0 DEF IndInv, Finish, TypeOK, Stages, Kinds, Answer
<1>2. LifetimeInv'
  BY DEF IndInv, Finish, TypeOK, LifetimeInv, Used, InFlight
<1>3. HorizonInv'
  BY DEF IndInv, Finish, TypeOK, HorizonInv, Used
<1>4. BeganInv'
  BY DEF IndInv, Finish, TypeOK, BeganInv
<1>5. LedgerInv'
  BY DEF IndInv, Finish, TypeOK, LedgerInv
<1>6. RowInv'
  BY DEF IndInv, Finish, TypeOK, RowInv
<1>7. RetainedInv'
  BY DEF IndInv, Finish, TypeOK, RetainedInv
<1>8. KeyInv'
  BY DEF IndInv, Finish, TypeOK, KeyInv, Stored
<1>9. PassInv'
  BY DEF IndInv, Finish, PassInv
<1>10. ReplyInv'
  BY <1>0 DEF IndInv, Finish, TypeOK, ReplyInv, Answer
<1>11. AtMostOncePerKey'
  BY DEF IndInv, Finish, AtMostOncePerKey
<1>12. RepliesTruthful'
  BY <1>0 DEF IndInv, Finish, TypeOK, RepliesTruthful, Answer
<1>13. LoserFindsWinner'
  BY <1>0 DEF IndInv, Finish, TypeOK, LoserFindsWinner, Answer
<1>. QED
  BY <1>1, <1>2, <1>3, <1>4, <1>5, <1>6, <1>7, <1>8, <1>9, <1>10, <1>11, <1>12, <1>13 DEF IndInv

(* An attempt that finds no row goes on to execute. *)
LEMMA MissKeeps ==
  ASSUME IndInv, NEW a \in Attempts, pc[a] = "sent", Goto(a, "execute"),
         UNCHANGED began
  PROVE  IndInv'
<1>1. TypeOK'
  BY DEF IndInv, Goto, TypeOK, Stages, Kinds, Answer
<1>2. LifetimeInv'
  BY DEF IndInv, Goto, TypeOK, LifetimeInv, Used, InFlight
<1>3. HorizonInv'
  BY DEF IndInv, Goto, TypeOK, HorizonInv, Used
<1>4. BeganInv'
  BY DEF IndInv, Goto, TypeOK, BeganInv
<1>5. LedgerInv'
  BY DEF IndInv, Goto, TypeOK, LedgerInv
<1>6. RowInv'
  BY DEF IndInv, Goto, TypeOK, RowInv
<1>7. RetainedInv'
  BY DEF IndInv, Goto, TypeOK, RetainedInv
<1>8. KeyInv'
  BY DEF IndInv, Goto, TypeOK, KeyInv, Stored
<1>9. PassInv'
  BY DEF IndInv, Goto, PassInv
<1>10. ReplyInv'
  BY DEF IndInv, Goto, TypeOK, ReplyInv, Answer
<1>11. AtMostOncePerKey'
  BY DEF IndInv, Goto, AtMostOncePerKey
<1>12. RepliesTruthful'
  BY DEF IndInv, Goto, TypeOK, RepliesTruthful, Answer
<1>13. LoserFindsWinner'
  BY DEF IndInv, Goto, TypeOK, LoserFindsWinner, Answer
<1>. QED
  BY <1>1, <1>2, <1>3, <1>4, <1>5, <1>6, <1>7, <1>8, <1>9, <1>10, <1>11, <1>12, <1>13 DEF IndInv

(* The write: no other write stands under the key, or its row would. *)
LEMMA CommitKeeps ==
  ASSUME IndInv, NEW a \in Attempts, Commit(a)
  PROVE  IndInv'
<1>1. TypeOK'
  BY DEF IndInv, Commit, Finish, TypeOK, Stages, Kinds, Answer, LifetimeInv, Used,
     Pairs, Written, RowOf
<1>2. LifetimeInv'
  BY DEF IndInv, Commit, Finish, TypeOK, LifetimeInv, Used, InFlight
<1>3. HorizonInv'
  BY DEF IndInv, Commit, Finish, TypeOK, HorizonInv, Used
<1>4. BeganInv'
  BY DEF IndInv, Commit, Finish, TypeOK, BeganInv
<1>5. LedgerInv'
  BY DEF IndInv, Commit, Finish, TypeOK, LedgerInv, LifetimeInv, BeganInv, Written
<1>6. RowInv'
  <2>1. ASSUME NEW r \in rows
        PROVE  /\ [key |-> r.key, body |-> r.body, entry |-> r.entry] \in ledger'
               /\ r.day = began'[r.entry]
    BY DEF IndInv, Commit, RowInv
  <2>2. /\ [key |-> RowOf(a).key, body |-> RowOf(a).body, entry |-> RowOf(a).entry] \in ledger'
        /\ RowOf(a).day = began'[RowOf(a).entry]
    BY DEF Commit, Written, RowOf
  <2>. QED
    BY <2>1, <2>2 DEF Commit, RowInv
<1>7. RetainedInv'
  <2>1. RowOf(a) \in rows'
    BY DEF Commit
  <2>2. RowOf(a).entry = Written(a).entry
    BY DEF Written, RowOf
  <2>. QED
    BY <2>1, <2>2 DEF IndInv, Commit, Finish, RetainedInv
<1>8. KeyInv'
  BY DEF IndInv, Commit, Finish, TypeOK, KeyInv, Stored, RowOf
<1>9. PassInv'
  BY DEF IndInv, Commit, Finish, PassInv
<1>10. ReplyInv'
  BY DEF IndInv, Commit, Finish, TypeOK, ReplyInv, Answer
<1>11. AtMostOncePerKey'
  <2>1. SUFFICES ASSUME NEW e \in ledger, e.key = arg[a].key
                 PROVE  FALSE
    BY DEF IndInv, Commit, Finish, Written, AtMostOncePerKey
  <2>2. now =< began[e.entry] + RetentionDays
    BY <2>1, AliveWithinRetention DEF Commit, InFlight, Used
  <2>3. PICK r \in rows : r.entry = e.entry
    BY <2>2, PeriodsAssumption DEF IndInv, TypeOK, RetainedInv
  <2>4. r.key = e.key
    BY <2>3 DEF IndInv, TypeOK, RowInv, LedgerInv
  <2>. QED
    BY <2>1, <2>4 DEF IndInv, KeyInv, Commit, Stored
<1>12. RepliesTruthful'
  BY DEF IndInv, Commit, Finish, TypeOK, RepliesTruthful, Answer, Written
<1>13. LoserFindsWinner'
  BY DEF IndInv, Commit, Finish, TypeOK, LoserFindsWinner, Answer
<1>. QED
  BY <1>1, <1>2, <1>3, <1>4, <1>5, <1>6, <1>7, <1>8, <1>9, <1>10, <1>11, <1>12, <1>13 DEF IndInv

LEMMA StartPruneKeeps ==
  ASSUME IndInv, StartPrune
  PROVE  IndInv'
<1>1. TypeOK'
  BY PeriodsAssumption DEF IndInv, StartPrune, TypeOK, Stages, Kinds, Answer
<1>2. LifetimeInv'
  BY DEF IndInv, StartPrune, TypeOK, LifetimeInv, Used, InFlight
<1>3. HorizonInv'
  BY DEF IndInv, StartPrune, TypeOK, HorizonInv, Used
<1>4. BeganInv'
  BY DEF IndInv, StartPrune, TypeOK, BeganInv
<1>5. LedgerInv'
  BY DEF IndInv, StartPrune, TypeOK, LedgerInv
<1>6. RowInv'
  BY DEF IndInv, StartPrune, TypeOK, RowInv
<1>7. RetainedInv'
  BY DEF IndInv, StartPrune, TypeOK, RetainedInv
<1>8. KeyInv'
  BY DEF IndInv, StartPrune, TypeOK, KeyInv, Stored
<1>9. PassInv'
  BY PeriodsAssumption DEF IndInv, StartPrune, PassInv, TypeOK
<1>10. ReplyInv'
  BY DEF IndInv, StartPrune, TypeOK, ReplyInv, Answer
<1>11. AtMostOncePerKey'
  BY DEF IndInv, StartPrune, AtMostOncePerKey
<1>12. RepliesTruthful'
  BY DEF IndInv, StartPrune, TypeOK, RepliesTruthful, Answer
<1>13. LoserFindsWinner'
  BY DEF IndInv, StartPrune, TypeOK, LoserFindsWinner, Answer
<1>. QED
  BY <1>1, <1>2, <1>3, <1>4, <1>5, <1>6, <1>7, <1>8, <1>9, <1>10, <1>11, <1>12, <1>13 DEF IndInv

LEMMA PruneFailsKeeps ==
  ASSUME IndInv, PruneFails
  PROVE  IndInv'
<1>1. TypeOK'
  BY DEF IndInv, PruneFails, TypeOK, Stages, Kinds, Answer
<1>2. LifetimeInv'
  BY DEF IndInv, PruneFails, TypeOK, LifetimeInv, Used, InFlight
<1>3. HorizonInv'
  BY DEF IndInv, PruneFails, TypeOK, HorizonInv, Used
<1>4. BeganInv'
  BY DEF IndInv, PruneFails, TypeOK, BeganInv
<1>5. LedgerInv'
  BY DEF IndInv, PruneFails, TypeOK, LedgerInv
<1>6. RowInv'
  BY DEF IndInv, PruneFails, TypeOK, RowInv
<1>7. RetainedInv'
  BY DEF IndInv, PruneFails, TypeOK, RetainedInv
<1>8. KeyInv'
  BY DEF IndInv, PruneFails, TypeOK, KeyInv, Stored
<1>9. PassInv'
  BY DEF IndInv, PruneFails, PassInv, TypeOK
<1>10. ReplyInv'
  BY DEF IndInv, PruneFails, TypeOK, ReplyInv, Answer
<1>11. AtMostOncePerKey'
  BY DEF IndInv, PruneFails, AtMostOncePerKey
<1>12. RepliesTruthful'
  BY DEF IndInv, PruneFails, TypeOK, RepliesTruthful, Answer
<1>13. LoserFindsWinner'
  BY DEF IndInv, PruneFails, TypeOK, LoserFindsWinner, Answer
<1>. QED
  BY <1>1, <1>2, <1>3, <1>4, <1>5, <1>6, <1>7, <1>8, <1>9, <1>10, <1>11, <1>12, <1>13 DEF IndInv

LEMMA TickKeeps ==
  ASSUME IndInv, Tick
  PROVE  IndInv'
<1>1. TypeOK'
  BY DEF IndInv, Tick, TypeOK, Stages, Kinds, Answer
<1>2. LifetimeInv'
  BY PeriodsAssumption DEF IndInv, Tick, TypeOK, LifetimeInv, Used, InFlight
<1>3. HorizonInv'
  BY DEF IndInv, Tick, TypeOK, HorizonInv, Used
<1>4. BeganInv'
  BY DEF IndInv, Tick, TypeOK, BeganInv
<1>5. LedgerInv'
  BY DEF IndInv, Tick, TypeOK, LedgerInv
<1>6. RowInv'
  BY DEF IndInv, Tick, TypeOK, RowInv
<1>7. RetainedInv'
  BY PeriodsAssumption DEF IndInv, Tick, TypeOK, RetainedInv
<1>8. KeyInv'
  BY DEF IndInv, Tick, TypeOK, KeyInv, Stored
<1>9. PassInv'
  BY PeriodsAssumption DEF IndInv, Tick, PassInv, TypeOK
<1>10. ReplyInv'
  BY DEF IndInv, Tick, TypeOK, ReplyInv, Answer
<1>11. AtMostOncePerKey'
  BY DEF IndInv, Tick, AtMostOncePerKey
<1>12. RepliesTruthful'
  BY DEF IndInv, Tick, TypeOK, RepliesTruthful, Answer
<1>13. LoserFindsWinner'
  BY DEF IndInv, Tick, TypeOK, LoserFindsWinner, Answer
<1>. QED
  BY <1>1, <1>2, <1>3, <1>4, <1>5, <1>6, <1>7, <1>8, <1>9, <1>10, <1>11, <1>12, <1>13 DEF IndInv

(* A batch deletes only rows past the retention, which no live attempt     *)
(* needs any more.                                                         *)
LEMMA PruneBatchKeeps ==
  ASSUME IndInv, PruneBatch
  PROVE  IndInv'
<1>0. /\ rows' \subseteq rows
      /\ pass'.running \in BOOLEAN /\ pass' = [pass EXCEPT !.running = pass'.running]
      /\ \A r \in rows : r.day >= now - RetentionDays => r \in rows'
  <2>1. PICK S \in SUBSET Expired : /\ rows' = rows \ S
                                    /\ pass' = [pass EXCEPT !.running = Cardinality(S) = Batch]
    BY DEF PruneBatch
  <2>2. pass.cutoff =< now - RetentionDays
    BY DEF IndInv, PassInv, PruneBatch
  <2>3. \A r \in S : r.day < now - RetentionDays
    BY <2>2, PeriodsAssumption DEF Expired, IndInv, TypeOK
  <2>. QED
    BY <2>1, <2>3, PeriodsAssumption DEF IndInv, TypeOK
<1>1. TypeOK'
  BY DEF IndInv, PruneBatch, TypeOK, Stages, Kinds, Answer
<1>2. LifetimeInv'
  BY DEF IndInv, PruneBatch, TypeOK, LifetimeInv, Used, InFlight
<1>3. HorizonInv'
  BY DEF IndInv, PruneBatch, TypeOK, HorizonInv, Used
<1>4. BeganInv'
  BY DEF IndInv, PruneBatch, TypeOK, BeganInv
<1>5. LedgerInv'
  BY DEF IndInv, PruneBatch, TypeOK, LedgerInv
<1>6. RowInv'
  BY <1>0 DEF IndInv, PruneBatch, TypeOK, RowInv
<1>7. RetainedInv'
  <2>1. SUFFICES ASSUME NEW e \in ledger, now =< began[e.entry] + RetentionDays
                 PROVE  \E r \in rows' : r.entry = e.entry
    BY PeriodsAssumption DEF IndInv, TypeOK, RetainedInv, PruneBatch
  <2>2. PICK r \in rows : r.entry = e.entry
    BY <2>1, PeriodsAssumption DEF IndInv, TypeOK, RetainedInv
  <2>3. r.day = began[e.entry] /\ r.day \in Nat
    BY <2>2 DEF IndInv, RowInv, TypeOK
  <2>. QED
    BY <1>0, <2>1, <2>2, <2>3, PeriodsAssumption DEF IndInv, TypeOK
<1>8. KeyInv'
  <2>1. ASSUME NEW b \in Attempts, pc[b] = "recheck"
        PROVE  \E r \in rows' : r.key = arg[b].key
    <3>1. PICK r \in rows : r.key = arg[b].key
      BY <2>1 DEF IndInv, KeyInv, Stored
    <3>2. PICK e \in ledger : e.key = r.key /\ e.entry = r.entry
      BY DEF IndInv, RowInv
    <3>3. now =< began[r.entry] + RetentionDays
      BY <2>1, <3>1, <3>2, AliveWithinRetention DEF InFlight, Used
    <3>4. r.day = began[r.entry] /\ r.day \in Nat
      BY DEF IndInv, RowInv, TypeOK
    <3>. QED
      BY <1>0, <3>1, <3>3, <3>4, PeriodsAssumption DEF IndInv, TypeOK
  <2>. QED
    BY <1>0, <2>1 DEF IndInv, KeyInv, PruneBatch, Stored
<1>9. PassInv'
  BY DEF IndInv, PruneBatch, PassInv
<1>10. ReplyInv'
  BY DEF IndInv, PruneBatch, TypeOK, ReplyInv, Answer
<1>11. AtMostOncePerKey'
  BY DEF IndInv, PruneBatch, AtMostOncePerKey
<1>12. RepliesTruthful'
  BY DEF IndInv, PruneBatch, TypeOK, RepliesTruthful, Answer
<1>13. LoserFindsWinner'
  BY DEF IndInv, PruneBatch, TypeOK, LoserFindsWinner, Answer
<1>. QED
  BY <1>1, <1>2, <1>3, <1>4, <1>5, <1>6, <1>7, <1>8, <1>9, <1>10, <1>11, <1>12, <1>13 DEF IndInv

-----------------------------------------------------------------------------
LEMMA NextKeeps == IndInv /\ [Next]_vars => IndInv'
<1>. SUFFICES ASSUME IndInv, [Next]_vars PROVE IndInv'
  OBVIOUS
<1>1. ASSUME NEW a \in Attempts, Lookup(a) PROVE IndInv'
  BY <1>1, ReplayKeeps, MissKeeps DEF Lookup
<1>2. ASSUME NEW a \in Attempts, Reject(a) \/ Die(a) PROVE IndInv'
  BY <1>2, GiveUpKeeps DEF Reject, Die, InFlight
<1>3. ASSUME NEW a \in Attempts, Recheck(a) PROVE IndInv'
  BY <1>3, ReplayKeeps DEF Recheck, IndInv, KeyInv
<1>4. CASE UNCHANGED vars
  BY <1>4 DEF vars, IndInv, TypeOK, LifetimeInv, HorizonInv, BeganInv, LedgerInv, RowInv,
       RetainedInv, KeyInv, PassInv, ReplyInv, AtMostOncePerKey, RepliesTruthful,
       LoserFindsWinner, Used, InFlight, Stored
<1>. QED
  BY <1>1, <1>2, <1>3, <1>4, SendKeeps, ExecuteKeeps, StoreKeeps, CommitKeeps,
     StartPruneKeeps, PruneBatchKeeps, PruneFailsKeeps, TickKeeps DEF Next, Handle

LEMMA InitIndInv == Init => IndInv
BY PeriodsAssumption DEF Init, IndInv, TypeOK, Stages, Kinds, Answer, LifetimeInv, HorizonInv,
   BeganInv, LedgerInv, RowInv, RetainedInv, KeyInv, PassInv, ReplyInv, AtMostOncePerKey,
   RepliesTruthful, LoserFindsWinner, Used, InFlight

LEMMA Invariance == Spec => []IndInv
BY InitIndInv, NextKeeps, PTL DEF Spec

(* Every attempt is at a stage of withIdempotency and the tables are well  *)
(* formed, for every instance.                                             *)
THEOREM TypeCorrect == Spec => []TypeOK
<1>1. IndInv => TypeOK
  BY DEF IndInv
<1>. QED
  BY <1>1, Invariance, PTL

(* H1 for every number of racing, retried and late requests: a key carries *)
(* at most one committed write.                                            *)
THEOREM AtMostOnce == Spec => []AtMostOncePerKey
<1>1. IndInv => AtMostOncePerKey
  BY DEF IndInv
<1>. QED
  BY <1>1, Invariance, PTL

(* No caller is told of a write that is not the one it asked for, and no   *)
(* 409 is sent but for a key that carries another write.                   *)
THEOREM Truthful == Spec => []RepliesTruthful
<1>1. IndInv => RepliesTruthful
  BY DEF IndInv
<1>. QED
  BY <1>1, Invariance, PTL

(* The loser of the race for the primary key always finds the stored       *)
(* response, whatever the prune does meanwhile.                            *)
THEOREM NoLoserFails == Spec => []LoserFindsWinner
<1>1. IndInv => LoserFindsWinner
  BY DEF IndInv
<1>. QED
  BY <1>1, Invariance, PTL

(* The response commits with its write, and stays as long as the           *)
(* retention says.                                                         *)
THEOREM RowsSound == Spec => []RowsMatchLedger
<1>1. IndInv => RowsMatchLedger
  <2>. SUFFICES ASSUME IndInv PROVE RowsMatchLedger
    OBVIOUS
  <2>1. ASSUME NEW e \in ledger, now =< began[e.entry] + RetentionDays
        PROVE  \E r \in rows : r.entry = e.entry
    BY <2>1, PeriodsAssumption DEF IndInv, TypeOK, RetainedInv
  <2>. QED
    BY <2>1 DEF IndInv, RowInv, RowsMatchLedger
<1>. QED
  BY <1>1, Invariance, PTL

-----------------------------------------------------------------------------
(* Refinement: each step of the wrapper is a step of ExactlyOnce or none.  *)

LEMMA SendAsks ==
  ASSUME IndInv, NEW a \in Attempts, NEW p \in Pairs, Send(a, p)
  PROVE  Abstract!Ask(a, p)
<1>1. Asked[a] = {} /\ Asked' = [Asked EXCEPT ![a] = {p}]
  BY DEF IndInv, TypeOK, Send, Asked, Used
<1>2. UNCHANGED <<Posted, Verdict>>
  BY DEF Send, Posted, Verdict
<1>. QED
  BY <1>1, <1>2 DEF Abstract!Ask

(* Any step that answers an attempt gives the verdict its answer maps to. *)
LEMMA FinishTells ==
  ASSUME IndInv, NEW a \in Attempts, InFlight(a), Used(a),
         NEW kind \in Kinds \ {"none"}, NEW entry, Finish(a, Answer(kind, entry))
  PROVE  Abstract!Tell(a, IF kind \in {"ok", "conflict"} THEN kind ELSE "noanswer")
<1>1. UNCHANGED Asked
  BY DEF IndInv, TypeOK, Finish, Asked, Used
<1>2. Verdict[a] = "open"
  BY DEF IndInv, ReplyInv, Verdict, InFlight
<1>3. Verdict' = [Verdict EXCEPT ![a] = IF kind \in {"ok", "conflict"} THEN kind ELSE "noanswer"]
  BY DEF IndInv, TypeOK, Finish, Verdict, Answer
<1>. QED
  BY <1>1, <1>2, <1>3 DEF Abstract!Tell

LEMMA UnansweredGivesUp ==
  ASSUME IndInv, NEW a \in Attempts, InFlight(a), Used(a),
         NEW kind \in {"rejected", "failed", "lost"}, Finish(a, Answer(kind, NoOne)),
         UNCHANGED ledger
  PROVE  Abstract!GiveUp(a)
<1>1. Abstract!Tell(a, "noanswer")
  BY FinishTells DEF Kinds
<1>. QED
  BY <1>1 DEF Abstract!GiveUp, Posted

LEMMA ReplayAnswers ==
  ASSUME IndInv, NEW a \in Attempts, InFlight(a), Used(a), Stored(arg[a].key),
         Finish(a, Replay(arg[a])), UNCHANGED ledger
  PROVE  Abstract!Replay(a, arg[a]) \/ Abstract!Refuse(a, arg[a])
<1>1. arg[a] \in Pairs /\ arg[a] \in Asked[a]
  BY DEF IndInv, LifetimeInv, Asked
<1>2. PICK r \in rows : /\ r.key = arg[a].key
                        /\ Replay(arg[a]) = IF r.body = arg[a].body THEN Answer("ok", r.entry)
                                            ELSE Answer("conflict", NoOne)
  BY ReplayFound
<1>3. [key |-> r.key, body |-> r.body] \in Posted
  <2>1. PICK e \in ledger : e.key = r.key /\ e.body = r.body
    BY DEF IndInv, RowInv
  <2>. QED
    BY <2>1 DEF Posted
<1>4. UNCHANGED Posted
  BY DEF Posted
<1>5. CASE r.body = arg[a].body
  <2>1. Abstract!Tell(a, "ok")
    BY <1>2, <1>5, FinishTells DEF Kinds
  <2>2. arg[a] \in Posted
    BY <1>1, <1>2, <1>3, <1>5 DEF Pairs
  <2>. QED
    BY <1>1, <1>4, <2>1, <2>2 DEF Abstract!Replay
<1>6. CASE r.body # arg[a].body
  <2>1. Abstract!Tell(a, "conflict")
    BY <1>2, <1>6, FinishTells DEF Kinds
  <2>. QED
    BY <1>1, <1>2, <1>3, <1>4, <1>6, <2>1 DEF Abstract!Refuse
<1>. QED
  BY <1>5, <1>6

LEMMA CommitPosts ==
  ASSUME IndInv, IndInv', NEW a \in Attempts, Commit(a)
  PROVE  Abstract!Post(a, arg[a])
<1>1. arg[a] \in Pairs /\ arg[a] \in Asked[a]
  BY DEF IndInv, LifetimeInv, Asked, Commit, Used
<1>2. arg[a] = [key |-> arg[a].key, body |-> arg[a].body]
  BY <1>1 DEF Pairs
<1>3. Posted' = Posted \cup {arg[a]}
  <2>1. [key |-> Written(a).key, body |-> Written(a).body] = arg[a]
    BY <1>2 DEF Written
  <2>2. ledger' = ledger \cup {Written(a)}
    BY DEF Commit
  <2>. QED
    BY <2>1, <2>2 DEF Posted
<1>4. ASSUME NEW e \in ledger, e.key = arg[a].key PROVE FALSE
  <2>1. Written(a) \in ledger' /\ e \in ledger' /\ Written(a).key = e.key
    BY <1>4 DEF Commit, Written
  <2>2. e = Written(a)
    BY <2>1 DEF IndInv, AtMostOncePerKey
  <2>3. e.entry = a
    BY <2>2 DEF Written
  <2>. QED
    BY <2>3 DEF IndInv, LedgerInv, Commit
<1>5. \A q \in Posted : q.key # arg[a].key
  BY <1>4 DEF Posted
<1>6. Abstract!Tell(a, "ok")
  BY FinishTells DEF Commit, InFlight, Used, Kinds
<1>. QED
  BY <1>1, <1>3, <1>5, <1>6 DEF Abstract!Post

LEMMA StepRefines ==
  IndInv /\ IndInv' /\ [Next]_vars => [Abstract!Next]_(Abstract!vars)
<1>. SUFFICES ASSUME IndInv, IndInv', [Next]_vars PROVE [Abstract!Next]_(Abstract!vars)
  OBVIOUS
<1>1. ASSUME NEW a \in Attempts, NEW p \in Pairs, Send(a, p) PROVE Abstract!Next
  BY <1>1, SendAsks DEF Abstract!Next, Abstract!Pairs, Pairs
<1>2. ASSUME NEW a \in Attempts, Lookup(a) \/ Recheck(a), Stored(arg[a].key)
      PROVE  Abstract!Next
  <2>1. Abstract!Replay(a, arg[a]) \/ Abstract!Refuse(a, arg[a])
    BY <1>2, ReplayAnswers DEF Lookup, Recheck, InFlight, Used
  <2>2. arg[a] \in Pairs
    BY <1>2 DEF IndInv, LifetimeInv, Lookup, Recheck, Used
  <2>. QED
    BY <2>1, <2>2 DEF Abstract!Next, Abstract!Pairs, Pairs
<1>3. ASSUME NEW a \in Attempts, Recheck(a) PROVE Stored(arg[a].key)
  BY <1>3 DEF IndInv, KeyInv, Recheck
<1>4. ASSUME NEW a \in Attempts, Commit(a) PROVE Abstract!Next
  <2>1. Abstract!Post(a, arg[a])
    BY <1>4, CommitPosts
  <2>2. arg[a] \in Pairs
    BY <1>4 DEF IndInv, LifetimeInv, Commit, Used
  <2>. QED
    BY <2>1, <2>2 DEF Abstract!Next, Abstract!Pairs, Pairs
<1>5. ASSUME NEW a \in Attempts, Reject(a) \/ Die(a) PROVE Abstract!Next
  BY <1>5, UnansweredGivesUp DEF Abstract!Next, Reject, Die, InFlight, Used
<1>6. ASSUME NEW a \in Attempts, NEW stage \in Stages \ {"unused"}, Used(a), Goto(a, stage)
      PROVE  UNCHANGED Abstract!vars
  <2>1. UNCHANGED Asked
    BY <1>6 DEF IndInv, TypeOK, Goto, Asked, Used
  <2>2. UNCHANGED <<Posted, Verdict>>
    BY <1>6 DEF Goto, Posted, Verdict
  <2>. QED
    BY <2>1, <2>2 DEF Abstract!vars
<1>7. ASSUME NEW a \in Attempts,
             (Lookup(a) /\ ~ Stored(arg[a].key)) \/ Execute(a) \/ Store(a)
      PROVE  UNCHANGED Abstract!vars
  BY <1>6, <1>7 DEF Lookup, Execute, Store, Used, Stages
<1>8. ASSUME UNCHANGED <<pc, arg, reply, ledger>> PROVE UNCHANGED Abstract!vars
  BY <1>8 DEF Abstract!vars, Asked, Posted, Verdict, Used
<1>9. CASE StartPrune \/ PruneBatch \/ PruneFails \/ Tick \/ UNCHANGED vars
  BY <1>8, <1>9 DEF StartPrune, PruneBatch, PruneFails, Tick, vars
<1>. QED
  BY <1>1, <1>2, <1>3, <1>4, <1>5, <1>7, <1>9 DEF Next, Handle

(* Every behaviour of the wrapper, its table and its prune is a behaviour  *)
(* of ExactlyOnce.                                                         *)
THEOREM Refinement == Spec => ImplementsExactlyOnce
<1>1. Init => Abstract!Init
  BY DEF Init, Abstract!Init, Asked, Posted, Verdict, Used, Answer
<1>. QED
  BY <1>1, Invariance, StepRefines, PTL DEF ImplementsExactlyOnce, Abstract!Spec, Spec


-----------------------------------------------------------------------------
(* The form                                                                *)

FormTypes ==
  /\ visit \in Nat /\ intent \in Nat
  /\ serves \in [Attempts -> [visit : Nat, intent : Nat]]
  /\ \A a \in Attempts : serves[a].visit =< visit /\ serves[a].intent =< intent

(* A key is used in one visit, for one body. *)
KeyVisit ==
  \A a, b \in Attempts : Used(a) /\ Used(b) /\ arg[a].key = arg[b].key
    => arg[a] = arg[b] /\ serves[a].visit = serves[b].visit

(* The attempts of one intent carry one key. *)
IntentKey ==
  \A a, b \in Attempts : Used(a) /\ Used(b) /\ serves[a] = serves[b] => arg[a] = arg[b]

(* The pending key is this visit's, and that of what was submitted of this *)
(* intent.                                                                 *)
PendingInv ==
  /\ pending.body # NoOne => pending \in Pairs
  /\ \A a \in Attempts : Used(a) =>
       /\ pending.body # NoOne /\ arg[a].key = pending.key
            => arg[a] = pending /\ serves[a].visit = visit
       /\ serves[a] = [visit |-> visit, intent |-> intent]
            => arg[a] = pending /\ pending.body = form /\ form # NoOne

FormInv == FormTypes /\ KeyVisit /\ IntentKey /\ PendingInv

(* Neither the API nor the clock touches what was sent. *)
LEMMA ServerStands ==
  ASSUME IndInv, Server
  PROVE  UNCHANGED <<arg, phone>> /\ \A a \in Attempts : Used(a)' = Used(a)
<1>1. UNCHANGED phone
  BY DEF Server
<1>2. CASE \E a \in Attempts : Handle(a) \/ Die(a)
  <2>1. PICK a \in Attempts : Handle(a) \/ Die(a)
    BY <1>2
  <2>2. /\ UNCHANGED arg /\ pc[a] # "unused"
        /\ \E stage \in Stages \ {"unused"} : pc' = [pc EXCEPT ![a] = stage]
    BY <2>1 DEF Handle, Die, Lookup, Execute, Reject, Store, Commit, Recheck, Goto, Finish,
                InFlight, Stages
  <2>3. pc \in [Attempts -> Stages]
    BY DEF IndInv, TypeOK
  <2>. QED
    BY <1>1, <2>2, <2>3 DEF Used
<1>3. CASE StartPrune \/ PruneBatch \/ PruneFails \/ Tick
  BY <1>1, <1>3 DEF StartPrune, PruneBatch, PruneFails, Tick, Used
<1>. QED
  BY <1>2, <1>3 DEF Server

LEMMA FormStands ==
  ASSUME FormInv, UNCHANGED <<arg, form, pending, visit, intent, serves>>,
         \A a \in Attempts : Used(a)' = Used(a)
  PROVE  FormInv'
BY DEF FormInv, FormTypes, KeyVisit, IntentKey, PendingInv

(* No key of this phone is refused: none was used for another body. *)
LEMMA NeverConflict ==
  ASSUME IndInv, FormInv, NEW a \in Attempts
  PROVE  reply[a].kind # "conflict"
<1>. SUFFICES ASSUME reply[a].kind = "conflict"
              PROVE  FALSE
  OBVIOUS
<1>1. PICK e \in ledger : e.key = arg[a].key /\ e.body # arg[a].body
  BY DEF IndInv, RepliesTruthful
<1>2. e.entry \in Attempts /\ Used(e.entry) /\ arg[e.entry].key = e.key /\ arg[e.entry].body = e.body
  BY DEF IndInv, TypeOK, LedgerInv, Used
<1>3. Used(a)
  BY DEF IndInv, ReplyInv, Used
<1>. QED
  BY <1>1, <1>2, <1>3 DEF FormInv, KeyVisit

LEMMA TypeKeeps ==
  ASSUME FormInv, NEW b, Type(b)
  PROVE  FormInv'
<1>1. /\ intent' = intent + 1 /\ UNCHANGED <<pc, arg, pending, visit, serves>>
  BY DEF Type, vars
<1>2. \A a \in Attempts : Used(a)' = Used(a)
  BY <1>1 DEF Used
<1>3. \A a \in Attempts : serves[a] # [visit |-> visit, intent |-> intent + 1]
  BY DEF FormInv, FormTypes
<1>4. FormTypes'
  BY <1>1 DEF FormInv, FormTypes
<1>5. KeyVisit' /\ IntentKey' /\ PendingInv'
  BY <1>1, <1>2, <1>3 DEF FormInv, KeyVisit, IntentKey, PendingInv
<1>. QED
  BY <1>4, <1>5 DEF FormInv

(* The visit ends, and its key with it. *)
LEMMA LeaveKeeps ==
  ASSUME FormInv, UNCHANGED <<pc, arg, intent, serves>>, pending' = NoArg, visit' = visit + 1
  PROVE  FormInv'
<1>1. \A a \in Attempts : Used(a)' = Used(a)
  BY DEF Used
<1>2. \A a \in Attempts : serves[a] # [visit |-> visit + 1, intent |-> intent]
  BY DEF FormInv, FormTypes
<1>3. FormTypes'
  BY DEF FormInv, FormTypes
<1>4. KeyVisit' /\ IntentKey' /\ PendingInv'
  BY <1>1, <1>2 DEF FormInv, KeyVisit, IntentKey, PendingInv, NoArg
<1>. QED
  BY <1>3, <1>4 DEF FormInv

LEMMA SubmitKeeps ==
  ASSUME IndInv, FormInv, NEW a \in Attempts, Submit(a)
  PROVE  FormInv'
<1>. DEFINE here == [visit |-> visit, intent |-> intent]
<1>1. PICK p \in Pairs : Bind(p) /\ Send(a, p) /\ pending' = p
  BY DEF Submit
<1>2. /\ form # NoOne /\ serves' = [serves EXCEPT ![a] = here]
      /\ UNCHANGED <<form, visit, intent>>
  BY DEF Submit
<1>3. /\ ~ Used(a) /\ Used(a)' /\ arg'[a] = p
      /\ \A b \in Attempts \ {a} : Used(b)' = Used(b) /\ arg'[b] = arg[b]
  BY <1>1 DEF IndInv, TypeOK, Send, Used
<1>4. /\ serves'[a] = here /\ \A b \in Attempts \ {a} : serves'[b] = serves[b]
      /\ serves' \in [Attempts -> [visit : Nat, intent : Nat]]
      /\ here.visit = visit /\ here.intent = intent
  BY <1>2 DEF FormInv, FormTypes
<1>. HIDE DEF here
<1>5. FormTypes'
  BY <1>2, <1>4 DEF FormInv, FormTypes
<1>6. p.body = form /\ (\/ pending.body = form /\ p = pending
                        \/ pending.body # form /\ \A b \in Attempts : Used(b) => arg[b].key # p.key)
  <2>1. CASE pending.body = form
    <3>1. pending \in Pairs /\ p.key = pending.key /\ p.body = form
      BY <1>1, <1>2, <2>1 DEF Bind, FormInv, PendingInv
    <3>. QED
      BY <2>1, <3>1 DEF Pairs
  <2>2. CASE pending.body # form
    BY <1>1, <2>2 DEF Bind, Fresh
  <2>. QED
    BY <2>1, <2>2
<1>7. ASSUME NEW b \in Attempts, Used(b)
      PROVE  /\ arg[b].key = p.key => arg[b] = p /\ serves[b].visit = visit
             /\ serves[b] = here => arg[b] = p
  BY <1>2, <1>6, <1>7 DEF FormInv, PendingInv, here
<1>8. KeyVisit'
  <2>. SUFFICES ASSUME NEW b \in Attempts, NEW c \in Attempts, Used(b)', Used(c)',
                       arg'[b].key = arg'[c].key
                PROVE  arg'[b] = arg'[c] /\ serves'[b].visit = serves'[c].visit
    BY DEF KeyVisit
  <2>. QED
    BY <1>3, <1>4, <1>7 DEF FormInv, KeyVisit
<1>9. IntentKey'
  <2>. SUFFICES ASSUME NEW b \in Attempts, NEW c \in Attempts, Used(b)', Used(c)',
                       serves'[b] = serves'[c]
                PROVE  arg'[b] = arg'[c]
    BY DEF IntentKey
  <2>. QED
    BY <1>3, <1>4, <1>7 DEF FormInv, IntentKey
<1>10. PendingInv'
  <2>1. ASSUME NEW b \in Attempts, Used(b)'
        PROVE  /\ arg'[b].key = p.key => arg'[b] = p /\ serves'[b].visit = visit
               /\ serves'[b] = here => arg'[b] = p
    BY <1>3, <1>4, <1>7, <2>1
  <2>. QED
    BY <1>1, <1>2, <1>6, <2>1 DEF PendingInv, here
<1>. QED
  BY <1>5, <1>8, <1>9, <1>10 DEF FormInv

LEMMA FormNextKeeps == IndInv /\ FormInv /\ [FormNext]_all => FormInv'
<1>. SUFFICES ASSUME IndInv, FormInv, [FormNext]_all
              PROVE  FormInv'
  OBVIOUS
<1>1. CASE \E b \in Bodies : Type(b)
  BY <1>1, TypeKeeps
<1>2. CASE \E a \in Attempts : Submit(a)
  BY <1>2, SubmitKeeps
<1>3. CASE Leave \/ Kill \/ \E a \in Attempts : Confirmed(a) \/ StrayConfirmation(a)
  <2>1. UNCHANGED <<pc, arg, intent, serves>> /\ pending' = NoArg /\ visit' = visit + 1
    BY <1>3 DEF Leave, Kill, Confirmed, StrayConfirmation, Remount, vars, history
  <2>. QED
    BY <2>1, LeaveKeeps
<1>4. CASE ConnectionLost \/ \E a \in Attempts : Failed(a)
  <2>1. UNCHANGED <<pc, arg, form, pending, visit, intent, serves>>
    BY <1>4, NeverConflict DEF ConnectionLost, Failed, vars, history
  <2>. QED
    BY <2>1, FormStands DEF Used
<1>5. CASE Server
  <2>1. UNCHANGED <<arg, form, pending, visit, intent, serves>>
        /\ \A a \in Attempts : Used(a)' = Used(a)
    BY <1>5, ServerStands DEF phone, history
  <2>. QED
    BY <2>1, FormStands
<1>6. CASE UNCHANGED all
  <2>1. UNCHANGED <<pc, arg, form, pending, visit, intent, serves>>
    BY <1>6 DEF all, vars, phone, history
  <2>. QED
    BY <2>1, FormStands DEF Used
<1>. QED
  BY <1>1, <1>2, <1>3, <1>4, <1>5, <1>6 DEF FormNext

LEMMA FormInitHolds == FormInit => FormInv
<1>. SUFFICES ASSUME FormInit
              PROVE  FormInv
  OBVIOUS
<1>1. (\A a \in Attempts : ~ Used(a)) /\ pending.body = NoOne
  BY DEF FormInit, Init, Used, NoArg
<1>2. FormTypes
  BY DEF FormInit, FormTypes
<1>. QED
  BY <1>1, <1>2 DEF FormInv, KeyVisit, IntentKey, PendingInv

(* The steps of the forms are steps of Idempotency, by the way MoneyForm   *)
(* is put together: its requests are Send's, and so within RetryHorizon,   *)
(* which no form enforces.  The invariants above hold behind the forms     *)
(* under that assumption.                                                  *)
LEMMA FormsAreClients == FormSpec => Spec
<1>1. FormInit => Init
  BY DEF FormInit
<1>2. [FormNext]_all => [Next]_vars
  <2>. SUFFICES ASSUME [FormNext]_all
                PROVE  [Next]_vars
    OBVIOUS
  <2>1. ASSUME NEW a \in Attempts, Submit(a)
        PROVE  Next
    BY <2>1 DEF Submit, Next
  <2>2. ASSUME NEW a \in Attempts, Confirmed(a) \/ Failed(a) \/ StrayConfirmation(a)
        PROVE  UNCHANGED vars
    BY <2>2 DEF Confirmed, Failed, StrayConfirmation, Remount
  <2>3. CASE ConnectionLost \/ Leave \/ Kill \/ \E b \in Bodies : Type(b)
    BY <2>3 DEF ConnectionLost, Leave, Kill, Type, Remount
  <2>4. CASE Server
    BY <2>4 DEF Server, Next
  <2>5. CASE UNCHANGED all
    BY <2>5 DEF all
  <2>. QED
    BY <2>1, <2>2, <2>3, <2>4, <2>5 DEF FormNext
<1>. QED
  BY <1>1, <1>2, PTL DEF FormSpec, Spec

LEMMA FormInvariance == FormSpec => [](IndInv /\ FormInv)
<1>1. FormSpec => []IndInv
  BY FormsAreClients, Invariance, PTL
<1>. QED
  BY <1>1, FormInitHolds, FormNextKeeps, PTL DEF FormSpec

(* However often the button is tapped, whatever is lost, answered late or  *)
(* answered to a form already left: one intent makes one entry.            *)
THEOREM TappedAgainOnce == FormSpec => []OncePerIntent
<1>1. IndInv /\ FormInv => OncePerIntent
  <2>. SUFFICES ASSUME IndInv, FormInv, NEW e \in ledger, NEW f \in ledger,
                       serves[e.entry] = serves[f.entry]
                PROVE  e = f
    BY DEF OncePerIntent
  <2>1. /\ e.entry \in Attempts /\ Used(e.entry) /\ arg[e.entry].key = e.key
        /\ f.entry \in Attempts /\ Used(f.entry) /\ arg[f.entry].key = f.key
    BY DEF IndInv, TypeOK, LedgerInv, Used
  <2>2. e.key = f.key
    BY <2>1 DEF FormInv, IntentKey
  <2>. QED
    BY <2>2 DEF IndInv, AtMostOncePerKey
<1>. QED
  BY <1>1, FormInvariance, PTL

(* And the same thing entered on another form is never answered with the   *)
(* first one's response.                                                   *)
THEOREM EnteredAgainAnew == FormSpec => []FreshFormPostsAnew
<1>1. IndInv /\ FormInv => FreshFormPostsAnew
  <2>. SUFFICES ASSUME IndInv, FormInv, NEW a \in Attempts, NEW b \in Attempts,
                       reply[a].kind = "ok", reply[b].kind = "ok",
                       reply[a].entry = reply[b].entry
                PROVE  serves[a].visit = serves[b].visit
    BY DEF FreshFormPostsAnew
  <2>1. Used(a) /\ Used(b)
    BY DEF IndInv, ReplyInv, Used
  <2>2. /\ [key |-> arg[a].key, body |-> arg[a].body, entry |-> reply[a].entry] \in ledger
        /\ [key |-> arg[b].key, body |-> arg[b].body, entry |-> reply[b].entry] \in ledger
    BY DEF IndInv, RepliesTruthful
  <2>3. arg[reply[a].entry].key = arg[a].key /\ arg[reply[b].entry].key = arg[b].key
    BY <2>2 DEF IndInv, LedgerInv
  <2>. QED
    BY <2>1, <2>3 DEF FormInv, KeyVisit
<1>. QED
  BY <1>1, FormInvariance, PTL
=============================================================================
