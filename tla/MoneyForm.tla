----------------------------- MODULE MoneyForm -----------------------------
(***************************************************************************)
(* The mobile app's money forms over the idempotent API: AddExpenseScreen  *)
(* and SettleUpScreen with bindIdempotencyKey, newIdempotencyKey and       *)
(* apiFetch.  One phone, one form; the server is Idempotency.  The form's  *)
(* pending key lives in a ref of the mounted component, so everything that *)
(* unmounts it (a success, leaving the settle-up tab, the end of the app)  *)
(* forgets the key.                                                        *)
(*                                                                         *)
(* AddExpenseScreen stays mounted when its tab loses focus: it is this     *)
(* module without Leave and StrayConfirmation.                             *)
(***************************************************************************)
EXTENDS Idempotency

CONSTANT MaxIntents     \* bound on the things the person sets out to record

ASSUME IntentsAssumption == MaxIntents \in Nat

VARIABLES
  form,      \* the body the form would send, NoOne when blank
  pending,   \* pending.current: the key bound to a body, NoArg when undefined
  waiting,   \* the attempt the form is busy with, NoOne when idle
  strays,    \* attempts of unmounted forms, whose callbacks still run
  visit,     \* how many forms were mounted before this one
  intent,    \* how many times a form was filled in or changed
  serves,    \* attempt -> the visit and intent it was submitted in (history)
  shown      \* attempts whose success the person was shown (history)

history == <<intent, serves, shown>>
phone   == <<form, pending, waiting, strays, visit, history>>
all   == <<vars, phone>>

FormInit ==
  /\ Init
  /\ form = NoOne /\ pending = NoArg /\ waiting = NoOne /\ strays = {}
  /\ visit = 0 /\ intent = 0
  /\ serves = [a \in Attempts |-> [visit |-> 0, intent |-> 0]]
  /\ shown = {}

(* The person fills in the form, or changes it: from here on it stands for *)
(* another thing to record.  Nothing stops typing while a submit is busy.  *)
Type(b) ==
  /\ form # b
  /\ intent < MaxIntents
  /\ form' = b
  /\ intent' = intent + 1
  /\ UNCHANGED <<vars, pending, waiting, strays, visit, serves, shown>>

(* newIdempotencyKey: a random UUID, never one used before. *)
Fresh(k) == /\ \A a \in Attempts : Used(a) => arg[a].key # k
            /\ pending.key # k

(* bindIdempotencyKey: an unchanged body keeps its key. *)
BindAfresh(p) == p.body = form /\ Fresh(p.key)

Bind(p) == p.body = form /\ IF pending.body = form THEN p.key = pending.key ELSE Fresh(p.key)

(* submit: guarded by busy; the request leaves with the bound key. *)
Submit(a) ==
  /\ waiting = NoOne
  /\ form # NoOne
  /\ \E p \in Pairs : Bind(p) /\ Send(a, p) /\ pending' = p
  /\ waiting' = a
  /\ serves' = [serves EXCEPT ![a] = [visit |-> visit, intent |-> intent]]
  /\ UNCHANGED <<form, strays, visit, intent, shown>>

(* A fresh component: blank, idle, no key.  A request the old one was busy *)
(* with goes on, and its callback with it.                                 *)
RemountKeepingKey(answered) ==
  /\ form' = NoOne /\ waiting' = NoOne
  /\ visit' = visit + 1
  /\ strays' = (strays \cup {waiting}) \ {answered, NoOne}
  /\ UNCHANGED <<vars, pending, intent, serves>>

Remount(answered) ==
  /\ form' = NoOne /\ pending' = NoArg /\ waiting' = NoOne
  /\ visit' = visit + 1
  /\ strays' = (strays \cup {waiting}) \ {answered, NoOne}
  /\ UNCHANGED <<vars, intent, serves>>

(* Success: the expense is done, the screen goes home and remounts. *)
Confirmed(a) ==
  /\ waiting = a /\ reply[a].kind = "ok"
  /\ Remount(a)
  /\ shown' = shown \cup {a}

(* Any other answer unlocks the form and keeps the key, except the 409,    *)
(* whose key can never succeed again.                                      *)
Failed(a) ==
  /\ waiting = a /\ reply[a].kind \in {"conflict", "rejected", "failed"}
  /\ waiting' = NoOne
  /\ pending' = IF reply[a].kind = "conflict" THEN NoArg ELSE pending
  /\ UNCHANGED <<vars, form, strays, visit, history>>

(* fetch rejects (status 0): no answer came, whatever the server did or is *)
(* still doing.  Nothing is known of the write and the key is kept.        *)
ConnectionLost ==
  /\ waiting # NoOne
  /\ waiting' = NoOne
  /\ UNCHANGED <<vars, form, pending, strays, visit, history>>

(* The settle-up tab loses focus: the visit is over. *)
Leave ==
  /\ form # NoOne
  /\ Remount(NoOne)
  /\ UNCHANGED shown

(* The success of a visit already left still navigates home, which ends    *)
(* the visit the person is in now.                                         *)
StrayConfirmation(a) ==
  /\ a \in strays /\ reply[a].kind = "ok"
  /\ Remount(a)
  /\ shown' = shown \cup {a}

(* The app is killed: no outbox survives it. *)
Kill ==
  /\ form # NoOne
  /\ form' = NoOne /\ pending' = NoArg /\ waiting' = NoOne /\ strays' = {}
  /\ visit' = visit + 1
  /\ UNCHANGED <<vars, history>>

Server == /\ \/ \E a \in Attempts : Handle(a) \/ Die(a)
             \/ StartPrune \/ PruneBatch \/ PruneFails \/ Tick
          /\ UNCHANGED phone

FormNext ==
  \/ \E b \in Bodies : Type(b)
  \/ \E a \in Attempts : Submit(a) \/ Confirmed(a) \/ Failed(a) \/ StrayConfirmation(a)
  \/ ConnectionLost \/ Leave \/ Kill
  \/ Server

FormSpec == FormInit /\ [][FormNext]_all

-----------------------------------------------------------------------------
(* Tapping again with the form as it was never records the thing twice,    *)
(* whatever became of the earlier attempts: "retrying an unchanged form    *)
(* reuses the key, so a timeout followed by a second tap cannot post       *)
(* twice" (apps/mobile/src/api/idempotency.ts).                            *)
OncePerIntent ==
  \A e, f \in ledger : serves[e.entry] = serves[f.entry] => e = f

(* The same thing entered again on a fresh form is a new one: its success  *)
(* is never the replay of an earlier visit's response.                     *)
FreshFormPostsAnew ==
  \A a, b \in Attempts :
    /\ reply[a].kind = "ok" /\ reply[b].kind = "ok"
    /\ reply[a].entry = reply[b].entry
    => serves[a].visit = serves[b].visit

(* What HOMI_V3.md H1(c) asks of the client, an outbox cleared only on a   *)
(* confirmed response: a thing is posted again on a later form only if the *)
(* person had been shown its success, and not because the app was killed   *)
(* or the screen left before the answer came.                              *)
RepostedOnlyIfShown ==
  \A e, f \in ledger :
    e.body = f.body /\ serves[e.entry].visit < serves[f.entry].visit
      => \E a \in shown : reply[a].entry = e.entry
=============================================================================
