---------------------------- MODULE Idempotency ----------------------------
(***************************************************************************)
(* withIdempotency (apps/api/src/lib/idempotency.ts): the wrapper every    *)
(* money mutation of the API runs in, together with the idempotency_keys   *)
(* table it keeps and the worker's hourly prune of that table.             *)
(*                                                                         *)
(* One attempt is one HTTP request handled by some API instance.  Each     *)
(* step of it is one statement or one transaction boundary; between two    *)
(* steps any other attempt, the prune and the clock may run, and the       *)
(* handling process may die.  A committed write is named by the attempt    *)
(* that made it.                                                           *)
(***************************************************************************)
EXTENDS Integers, FiniteSets

CONSTANTS
  Keys,             \* (key, user_id, endpoint) triples
  Bodies,           \* request scopes up to their sha-256 hash
  Attempts,         \* requests that may ever be sent
  NoOne,            \* neither an attempt nor a key nor a body
  RetentionDays,    \* age past which the prune deletes a key
  RetryHorizon,     \* days after its first use in which a client still retries a key
  RequestLifetime,  \* days a request can live in network, API and database
  Batch,            \* rows one delete statement of the prune takes
  MaxDay            \* bound on the clock

ASSUME NoOneAssumption == NoOne \notin Attempts

ASSUME PeriodsAssumption ==
  /\ RetentionDays \in Nat \ {0}      \* pruneIdempotencyKeys throws below 1
  /\ RetryHorizon \in Nat
  /\ RequestLifetime \in Nat
  /\ Batch \in Nat \ {0}
  /\ MaxDay \in Nat

(* The retention outlives every late request.  The code says it in words:  *)
(* "30 days is generous - client retries live in minutes".                 *)
ASSUME RetentionAssumption == RetryHorizon + RequestLifetime =< RetentionDays

VARIABLES
  pc,       \* attempt -> where its handler stands
  arg,      \* attempt -> the [key, body] it carries
  sent,     \* attempt -> the day it was sent
  began,    \* attempt -> the day its transaction began (now() in Postgres)
  reply,    \* attempt -> the answer it got
  rows,     \* committed rows of idempotency_keys
  ledger,   \* committed writes
  now,      \* the day
  pass      \* the prune: is a pass running, and the cutoff it fixed at its start

vars == <<pc, arg, sent, began, reply, rows, ledger, now, pass>>

Pairs  == [key : Keys, body : Bodies]
NoArg  == [key |-> NoOne, body |-> NoOne]
Stages == {"unused", "sent", "execute", "store", "commit", "recheck", "done"}
Kinds  == {"none", "ok", "conflict", "rejected", "failed", "lost"}

Used(a)     == pc[a] # "unused"
InFlight(a) == pc[a] \notin {"unused", "done"}

Answer(kind, entry) == [kind |-> kind, entry |-> entry]

TypeOK ==
  /\ pc \in [Attempts -> Stages]
  /\ arg \in [Attempts -> Pairs \cup {NoArg}]
  /\ sent \in [Attempts -> Nat]
  /\ began \in [Attempts -> Nat]
  /\ reply \in [Attempts -> [kind : Kinds, entry : Attempts \cup {NoOne}]]
  /\ rows \subseteq [key : Keys, body : Bodies, entry : Attempts, day : Nat]
  /\ ledger \subseteq [key : Keys, body : Bodies, entry : Attempts]
  /\ now \in Nat
  /\ pass \in [running : BOOLEAN, cutoff : Int]

Init ==
  /\ pc = [a \in Attempts |-> "unused"]
  /\ arg = [a \in Attempts |-> NoArg]
  /\ sent = [a \in Attempts |-> 0]
  /\ began = [a \in Attempts |-> 0]
  /\ reply = [a \in Attempts |-> Answer("none", NoOne)]
  /\ rows = {}
  /\ ledger = {}
  /\ now = 0
  /\ pass = [running |-> FALSE, cutoff |-> 0]

-----------------------------------------------------------------------------
(* The request *)

(* A client issues a request under a key of its choice, within the retry   *)
(* horizon of the key's first use.                                         *)
Send(a, p) ==
  /\ pc[a] = "unused"
  /\ \A b \in Attempts : Used(b) /\ arg[b].key = p.key => now =< sent[b] + RetryHorizon
  /\ pc' = [pc EXCEPT ![a] = "sent"]
  /\ arg' = [arg EXCEPT ![a] = p]
  /\ sent' = [sent EXCEPT ![a] = now]
  /\ UNCHANGED <<began, reply, rows, ledger, now, pass>>

Finish(a, answer) ==
  /\ pc' = [pc EXCEPT ![a] = "done"]
  /\ reply' = [reply EXCEPT ![a] = answer]
  /\ UNCHANGED <<arg, sent, now, pass>>

Goto(a, stage) ==
  /\ pc' = [pc EXCEPT ![a] = stage]
  /\ UNCHANGED <<arg, sent, reply, rows, ledger, now, pass>>

(* findStoredResponse: the row under the key, if there is one, answers     *)
(* with the write it stored or, for another request body, with a 409.      *)
Stored(key) == \E r \in rows : r.key = key

ReplayUnhashed(p) == Answer("ok", (CHOOSE r \in rows : r.key = p.key).entry)

Replay(p) ==
  LET row == CHOOSE r \in rows : r.key = p.key
  IN  IF row.body = p.body THEN Answer("ok", row.entry) ELSE Answer("conflict", NoOne)

Lookup(a) ==
  /\ pc[a] = "sent"
  /\ \/ /\ Stored(arg[a].key)
        /\ Finish(a, Replay(arg[a]))
        /\ UNCHANGED <<began, rows, ledger>>
     \/ /\ ~ Stored(arg[a].key)
        /\ Goto(a, "execute")
        /\ UNCHANGED began

(* execute: a transaction begins and the mutation's own reads and writes   *)
(* run in it, invisible until it commits, ...                              *)
Execute(a) ==
  /\ pc[a] = "execute"
  /\ Goto(a, "store")
  /\ began' = [began EXCEPT ![a] = now]

(* ... or a domain rejection, which rolls it back and stores nothing.      *)
Reject(a) ==
  /\ pc[a] = "execute"
  /\ Finish(a, Answer("rejected", NoOne))
  /\ UNCHANGED <<began, rows, ledger>>

(* store: the insert waits while another transaction holds an uncommitted  *)
(* row under the same primary key, and violates the key once a committed   *)
(* row is there; the transaction is then rolled back.                      *)
KeyHeld(key) == \E b \in Attempts : pc[b] = "commit" /\ arg[b].key = key

StoreWithoutPrimaryKey(a) ==
  /\ pc[a] = "store"
  /\ Goto(a, "commit")
  /\ UNCHANGED began

StoreWaitsForever(a) ==
  /\ pc[a] = "store"
  /\ ~ KeyHeld(arg[a].key)
  /\ ~ Stored(arg[a].key)
  /\ Goto(a, "commit")
  /\ UNCHANGED began

Store(a) ==
  /\ pc[a] = "store"
  /\ ~ KeyHeld(arg[a].key)
  /\ Goto(a, IF Stored(arg[a].key) THEN "recheck" ELSE "commit")
  /\ UNCHANGED began

Written(a) == [key |-> arg[a].key, body |-> arg[a].body, entry |-> a]
RowOf(a)   == [key |-> arg[a].key, body |-> arg[a].body, entry |-> a, day |-> began[a]]

CommitWithoutRow(a) ==
  /\ pc[a] = "commit"
  /\ Finish(a, Answer("ok", a))
  /\ ledger' = ledger \cup {Written(a)}
  /\ UNCHANGED <<began, rows>>

Commit(a) ==
  /\ pc[a] = "commit"
  /\ Finish(a, Answer("ok", a))
  /\ ledger' = ledger \cup {Written(a)}
  /\ rows' = rows \cup {RowOf(a)}
  /\ UNCHANGED began

(* After losing the race: the winner's response is replayed, and the       *)
(* violation is rethrown (a 500) if no row is found.                       *)
Recheck(a) ==
  /\ pc[a] = "recheck"
  /\ Finish(a, IF Stored(arg[a].key) THEN Replay(arg[a]) ELSE Answer("failed", NoOne))
  /\ UNCHANGED <<began, rows, ledger>>

(* The process, its connection or the network fails before the commit: an  *)
(* open transaction is rolled back and the caller hears nothing.           *)
Die(a) ==
  /\ InFlight(a)
  /\ Finish(a, Answer("lost", NoOne))
  /\ UNCHANGED <<began, rows, ledger>>

-----------------------------------------------------------------------------
(* pruneIdempotencyKeys: a pass fixes its cutoff when it starts and then   *)
(* deletes expired rows a batch at a time until a batch comes back short.  *)
(* The timer starts one whether or not the last has ended: the younger     *)
(* pass stands for both, since all that the older may delete it may.       *)

Expired == {r \in rows : r.day < pass.cutoff}

StartPruneEarly ==
  /\ pass' = [running |-> TRUE, cutoff |-> now - RetentionDays + 1]
  /\ UNCHANGED <<pc, arg, sent, began, reply, rows, ledger, now>>

StartPrune ==
  /\ pass' = [running |-> TRUE, cutoff |-> now - RetentionDays]
  /\ UNCHANGED <<pc, arg, sent, began, reply, rows, ledger, now>>

PruneFullBatchesOnly ==
  /\ pass.running
  /\ \E S \in SUBSET Expired :
       /\ Cardinality(S) = IF Cardinality(Expired) < Batch THEN 0 ELSE Batch
       /\ rows' = rows \ S
       /\ pass' = [pass EXCEPT !.running = Cardinality(S) = Batch]
  /\ UNCHANGED <<pc, arg, sent, began, reply, ledger, now>>

PruneBatch ==
  /\ pass.running
  /\ \E S \in SUBSET Expired :
       /\ Cardinality(S) = IF Cardinality(Expired) < Batch THEN Cardinality(Expired) ELSE Batch
       /\ rows' = rows \ S
       /\ pass' = [pass EXCEPT !.running = Cardinality(S) = Batch]
  /\ UNCHANGED <<pc, arg, sent, began, reply, ledger, now>>

(* The worker dies, or the statement fails: the pass is abandoned.         *)
PruneFails ==
  /\ pass.running
  /\ pass' = [pass EXCEPT !.running = FALSE]
  /\ UNCHANGED <<pc, arg, sent, began, reply, rows, ledger, now>>

(* A day goes by, and no request outlives its lifetime.                    *)
Tick ==
  /\ now < MaxDay
  /\ \A a \in Attempts : InFlight(a) => now < sent[a] + RequestLifetime
  /\ now' = now + 1
  /\ UNCHANGED <<pc, arg, sent, began, reply, rows, ledger, pass>>

-----------------------------------------------------------------------------
Handle(a) == Lookup(a) \/ Execute(a) \/ Reject(a) \/ Store(a) \/ Commit(a) \/ Recheck(a)

Next ==
  \/ \E a \in Attempts : Handle(a) \/ Die(a) \/ \E p \in Pairs : Send(a, p)
  \/ StartPrune \/ PruneBatch \/ PruneFails \/ Tick

Spec == Init /\ [][Next]_vars

(* The event loop and Postgres keep running a handler that can run, and    *)
(* the hourly timer keeps starting the prune.                              *)
Fairness ==
  /\ \A a \in Attempts : WF_vars(Handle(a))
  /\ WF_vars(StartPrune)
  /\ SF_vars(PruneBatch)

FairSpec == Spec /\ Fairness

-----------------------------------------------------------------------------
(* A key carries at most one committed write, however many attempts race   *)
(* under it, retry after a lost answer, or arrive around the prune: H1,    *)
(* "a retry with the same key replays the stored response instead of       *)
(* re-executing".                                                          *)
AtMostOncePerKey ==
  \A e, f \in ledger : e.key = f.key => e = f

(* A caller is told "done" only of a committed write made under its key    *)
(* for its very body, and is refused with 409 only if the key carries      *)
(* another one: never somebody else's response.                            *)
RepliesTruthful ==
  \A a \in Attempts :
    /\ reply[a].kind = "ok" =>
         [key |-> arg[a].key, body |-> arg[a].body, entry |-> reply[a].entry] \in ledger
    /\ reply[a].kind = "conflict" =>
         \E e \in ledger : e.key = arg[a].key /\ e.body # arg[a].body

(* The response commits with the write it describes: a row names a         *)
(* committed write, and a write younger than the retention has its row.    *)
RowsMatchLedger ==
  /\ \A r \in rows : [key |-> r.key, body |-> r.body, entry |-> r.entry] \in ledger
  /\ \A e \in ledger : now =< began[e.entry] + RetentionDays => \E r \in rows : r.entry = e.entry

(* An attempt that loses the race for the primary key always finds the     *)
(* winner's response: the violation is never rethrown as a 500.            *)
LoserFindsWinner == \A a \in Attempts : reply[a].kind # "failed"

(* Every request that reaches the API is answered or its process dies: the *)
(* wait on another attempt's uncommitted key always ends.                  *)
EveryRequestEnds == \A a \in Attempts : pc[a] = "sent" ~> pc[a] = "done"

(* A row past the retention is eventually deleted, though a pass takes     *)
(* only a batch at a time and may fail half way.                           *)
ExpiredRowsGo ==
  \A k \in Keys :
    (\E r \in rows : r.key = k /\ r.day + RetentionDays < now)
      ~> ~ (\E r \in rows : r.key = k /\ r.day + RetentionDays < now)

(* The wrapper implements the promise of ExactlyOnce: a key carries at     *)
(* most one write, and every answer is about it.                           *)
Asked  == [a \in Attempts |-> IF Used(a) THEN {arg[a]} ELSE {}]
Posted == {[key |-> e.key, body |-> e.body] : e \in ledger}

Verdict == [a \in Attempts |->
              IF reply[a].kind = "none" THEN "open"
              ELSE IF reply[a].kind \in {"ok", "conflict"} THEN reply[a].kind
              ELSE "noanswer"]

Abstract == INSTANCE ExactlyOnce
              WITH asked <- Asked, posted <- Posted, verdict <- Verdict

ImplementsExactlyOnce == Abstract!Spec
=============================================================================
