---------------------------- MODULE BillPosting ----------------------------
(***************************************************************************)
(* Recurring bills: the worker's postDueBills (apps/worker/src/bills), run *)
(* by any number of worker instances, against the owner's pause and resume *)
(* (apps/api/src/ledger/bills.service.ts).                                 *)
(*                                                                         *)
(* A run lists the due templates once and then works from that list, which *)
(* other runs and the owner make stale.  Days are numbered in the house's  *)
(* timezone; each bill has its due days (Schedule has the calendar they    *)
(* come from), and a due date names its period.                            *)
(***************************************************************************)
EXTENDS Integers, Sequences

CONSTANTS
  Workers,      \* worker instances
  Bills,        \* templates, numbered in the order of created_at
  NoBill,       \* not a template
  DueDays,      \* bill -> the days it is due on
  LastDue,      \* bound on the due days
  CatchUp,      \* MAX_CATCHUP_PER_RUN
  MaxDay,       \* bound on the clock
  MaxChanges,   \* bound on the pauses, resumptions and house changes
  MaxAborts     \* bound on the runs that die half way

ASSUME BillsAssumption == Bills \subseteq Nat /\ NoBill \notin Nat
ASSUME NumbersAssumption ==
  /\ LastDue \in Nat /\ CatchUp \in Nat \ {0}
  /\ MaxDay \in Nat /\ MaxChanges \in Nat /\ MaxAborts \in Nat

(* A bill falls due again and again. *)
ASSUME DueDaysAssumption ==
  /\ DueDays \in [Bills -> SUBSET (0..LastDue)]
  /\ \A b \in Bills : \E d \in DueDays[b] : MaxDay < d

VARIABLES
  tmpl,      \* bill_templates: bill -> [exists, active, nextRun]
  house,     \* whether the bill's house lets it post
  posted,    \* bill -> due date -> number of expenses posted for that period
  feed,      \* bill -> its bill.paused and bill.resumed events
  day,       \* the house's date
  run,       \* worker -> where its run stands
  changes, aborts,
  since,     \* bill -> next_run as its creation or last resumption set it (history)
  skipped    \* bill -> periods a resumption has skipped (history)

owner == <<changes, since, skipped>>
vars  == <<tmpl, house, posted, feed, day, run, changes, aborts, since, skipped>>

Dues == 0..LastDue

(* The first due day strictly after a day. *)
FirstAfter(days, d) == CHOOSE e \in days : d < e /\ \A f \in days : d < f => e =< f

(* nextDueDate *)
NextDue(b, d) == FirstAfter(DueDays[b], d)

NoRun  == -1            \* a bill not on a run's list, or done with
Stages == {"idle", "list", "due", "posting", "dup", "pause"}

TypeOK ==
  /\ tmpl \in [Bills -> [exists : BOOLEAN, active : BOOLEAN, nextRun : Dues]]
  /\ house \in [Bills -> {"fit", "unfit", "nozone"}]
  /\ posted \in [Bills -> [Dues -> Nat]]
  /\ feed \in [Bills -> Seq({"paused", "resumed"})]
  /\ day \in 0..MaxDay
  /\ run \in [Workers -> [at : Stages, listed : [Bills -> Dues \cup {NoRun}],
                          bill : Bills \cup {NoBill}, due : Dues, count : 0..CatchUp,
                          today : 0..MaxDay]]
  /\ changes \in 0..MaxChanges
  /\ aborts \in 0..MaxAborts
  /\ since \in [Bills -> Dues]
  /\ skipped \in [Bills -> SUBSET Dues]

Idle == [at |-> "idle", listed |-> [b \in Bills |-> NoRun], bill |-> NoBill, due |-> 0,
         count |-> 0, today |-> 0]

Init ==
  /\ tmpl = [b \in Bills |-> [exists |-> FALSE, active |-> FALSE, nextRun |-> 0]]
  /\ house = [b \in Bills |-> "fit"]
  /\ posted = [b \in Bills |-> [d \in Dues |-> 0]]
  /\ feed = [b \in Bills |-> <<>>]
  /\ day = 0
  /\ run = [w \in Workers |-> Idle]
  /\ changes = 0 /\ aborts = 0
  /\ since = [b \in Bills |-> 0]
  /\ skipped = [b \in Bills |-> {}]

-----------------------------------------------------------------------------
(* The house *)

(* createBill: due from today on, "after yesterday". *)
Create(b) ==
  /\ ~ tmpl[b].exists /\ house[b] # "nozone"
  /\ tmpl' = [tmpl EXCEPT ![b] = [exists |-> TRUE, active |-> TRUE,
                                  nextRun |-> NextDue(b, day - 1)]]
  /\ since' = [since EXCEPT ![b] = NextDue(b, day - 1)]
  /\ UNCHANGED <<house, posted, feed, day, run, changes, aborts, skipped>>

(* A period some worker has inserted and not yet committed. *)
InProgress(b, d) == \E w \in Workers : run[w].at = "posting" /\ run[w].bill = b /\ run[w].due = d

(* setActive, one transaction under the row lock: pausing, ... *)
Pause(b) ==
  /\ tmpl[b].active
  /\ changes < MaxChanges
  /\ tmpl' = [tmpl EXCEPT ![b].active = FALSE]
  /\ feed' = [feed EXCEPT ![b] = Append(@, "paused")]
  /\ changes' = changes + 1
  /\ UNCHANGED <<house, posted, day, run, aborts, since, skipped>>

(* ... and resuming, which recomputes next_run from today. *)
Resume(b) ==
  LET next == NextDue(b, day - 1)
  IN  /\ tmpl[b].exists /\ ~ tmpl[b].active /\ house[b] # "nozone"
      /\ changes < MaxChanges
      /\ tmpl' = [tmpl EXCEPT ![b].active = TRUE, ![b].nextRun = next]
      /\ feed' = [feed EXCEPT ![b] = Append(@, "resumed")]
      /\ changes' = changes + 1
      /\ since' = [since EXCEPT ![b] = next]
      /\ skipped' = [skipped EXCEPT ![b] = @ \cup
                       {d \in DueDays[b] : /\ tmpl[b].nextRun =< d /\ d < next
                                     /\ posted[b][d] = 0 /\ ~ InProgress(b, d)}]
      /\ UNCHANGED <<house, posted, day, run, aborts>>

(* Members and rooms change until the bill can or cannot be split, or the  *)
(* runtime loses or regains the house's timezone.                          *)
ChangeHouse(b) ==
  /\ changes < MaxChanges
  /\ \E h \in {"fit", "unfit", "nozone"} \ {house[b]} : house' = [house EXCEPT ![b] = h]
  /\ changes' = changes + 1
  /\ UNCHANGED <<tmpl, posted, feed, day, run, aborts, since, skipped>>

Tick ==
  /\ day < MaxDay
  /\ day' = day + 1
  /\ UNCHANGED <<tmpl, house, posted, feed, run, changes, aborts, since, skipped>>

-----------------------------------------------------------------------------
(* A run of postDueBills *)

Set(w, r) == run' = [run EXCEPT ![w] = r]

ScanToday(w) ==
  /\ run[w].at = "idle"
  /\ Set(w, [Idle EXCEPT !.at = "list", !.today = day,
               !.listed = [b \in Bills |-> IF tmpl[b].active /\ tmpl[b].nextRun = day
                                           THEN tmpl[b].nextRun ELSE NoRun]])
  /\ UNCHANGED <<tmpl, house, posted, feed, day, aborts, owner>>

(* The one read of the due templates.  Its bound is tomorrow, the latest   *)
(* date it can be anywhere; the loop below compares with today.            *)
Scan(w) ==
  /\ run[w].at = "idle"
  /\ Set(w, [Idle EXCEPT !.at = "list", !.today = day,
               !.listed = [b \in Bills |-> IF tmpl[b].active /\ tmpl[b].nextRun =< day + 1
                                           THEN tmpl[b].nextRun ELSE NoRun]])
  /\ UNCHANGED <<tmpl, house, posted, feed, day, aborts, owner>>

Listed(w) == {b \in Bills : run[w].listed[b] # NoRun}

(* The next template of the list; one without a timezone is paused. *)
Take(w) ==
  /\ run[w].at = "list"
  /\ \E b \in Listed(w) :
       /\ \A c \in Listed(w) : b =< c
       /\ Set(w, [run[w] EXCEPT !.at = IF house[b] = "nozone" THEN "pause" ELSE "due",
                    !.bill = b, !.due = run[w].listed[b], !.count = 0, !.listed[b] = NoRun])
  /\ UNCHANGED <<tmpl, house, posted, feed, day, aborts, owner>>

EndRun(w) ==
  /\ run[w].at = "list" /\ Listed(w) = {}
  /\ Set(w, Idle)
  /\ UNCHANGED <<tmpl, house, posted, feed, day, aborts, owner>>

IsDueByScan(w)     == run[w].due =< run[w].today + 1 /\ run[w].count < CatchUp
IsDueOnceTooOft(w) == run[w].due =< run[w].today /\ run[w].count =< CatchUp

IsDue(w) == run[w].due =< run[w].today /\ run[w].count < CatchUp

(* The template is up to date, or has used up its share of this run. *)
LeaveBill(w) ==
  /\ run[w].at = "due" /\ ~ IsDue(w)
  /\ Set(w, [run[w] EXCEPT !.at = "list", !.bill = NoBill])
  /\ UNCHANGED <<tmpl, house, posted, feed, day, aborts, owner>>

(* postOne, up to the insert of the expense.  The insert waits for another *)
(* transaction's uncommitted row of the same period and violates the       *)
(* unique index once that row is committed.                                *)
InsertUnchecked(w) ==
  LET b == run[w].bill
      d == run[w].due
  IN  /\ run[w].at = "due" /\ IsDue(w)
      /\ Set(w, [run[w] EXCEPT !.at = IF house[b] = "unfit" THEN "pause"
                                      ELSE IF posted[b][d] > 0 THEN "dup" ELSE "posting"])
      /\ UNCHANGED <<tmpl, house, posted, feed, day, aborts, owner>>

Insert(w) ==
  LET b == run[w].bill
      d == run[w].due
  IN  /\ run[w].at = "due" /\ IsDue(w)
      /\ \/ house[b] = "unfit" /\ Set(w, [run[w] EXCEPT !.at = "pause"])
         \/ /\ house[b] # "unfit" /\ ~ InProgress(b, d)
            /\ Set(w, [run[w] EXCEPT !.at = IF posted[b][d] > 0 THEN "dup" ELSE "posting"])
      /\ UNCHANGED <<tmpl, house, posted, feed, day, aborts, owner>>

Advanced(w) == [run[w] EXCEPT !.at = "due", !.due = NextDue(run[w].bill, @), !.count = @ + 1]

(* The rest of postOne: expense, event and next_run commit together.  The  *)
(* update is by id alone.                                                  *)
CommitAndSkip(w) ==
  LET b == run[w].bill
      d == run[w].due
  IN  /\ run[w].at = "posting"
      /\ posted' = [posted EXCEPT ![b][d] = @ + 1]
      /\ tmpl' = [tmpl EXCEPT ![b].nextRun = NextDue(b, day)]
      /\ Set(w, Advanced(w))
      /\ UNCHANGED <<house, feed, day, aborts, owner>>

Commit(w) ==
  LET b == run[w].bill
      d == run[w].due
  IN  /\ run[w].at = "posting"
      /\ posted' = [posted EXCEPT ![b][d] = @ + 1]
      /\ tmpl' = [tmpl EXCEPT ![b].nextRun = NextDue(b, d)]
      /\ Set(w, Advanced(w))
      /\ UNCHANGED <<house, feed, day, aborts, owner>>

(* Another run posted the period: advance past it, unless next_run moved.  *)
StepPast(w) ==
  LET b == run[w].bill
      d == run[w].due
  IN  /\ run[w].at = "dup"
      /\ tmpl' = [tmpl EXCEPT ![b].nextRun = IF @ = d THEN NextDue(b, d) ELSE @]
      /\ Set(w, Advanced(w))
      /\ UNCHANGED <<house, posted, feed, day, aborts, owner>>

(* pause: one event, by whoever deactivates the template. *)
PauseAlways(w) ==
  LET b == run[w].bill
  IN  /\ run[w].at = "pause"
      /\ tmpl' = [tmpl EXCEPT ![b].active = FALSE]
      /\ feed' = [feed EXCEPT ![b] = Append(@, "paused")]
      /\ Set(w, [run[w] EXCEPT !.at = "list", !.bill = NoBill])
      /\ UNCHANGED <<house, posted, day, aborts, owner>>

PauseBroken(w) ==
  LET b == run[w].bill
  IN  /\ run[w].at = "pause"
      /\ tmpl' = [tmpl EXCEPT ![b].active = FALSE]
      /\ feed' = [feed EXCEPT ![b] = IF tmpl[b].active THEN Append(@, "paused") ELSE @]
      /\ Set(w, [run[w] EXCEPT !.at = "list", !.bill = NoBill])
      /\ UNCHANGED <<house, posted, day, aborts, owner>>

(* The worker dies, or an unexpected error ends the run: an open           *)
(* transaction is rolled back and the rest of the list is dropped.         *)
Abort(w) ==
  /\ run[w].at # "idle"
  /\ aborts < MaxAborts
  /\ aborts' = aborts + 1
  /\ Set(w, Idle)
  /\ UNCHANGED <<tmpl, house, posted, feed, day, owner>>

-----------------------------------------------------------------------------
Work(w) == \/ Scan(w) \/ Take(w) \/ EndRun(w) \/ LeaveBill(w)
           \/ Insert(w) \/ Commit(w) \/ StepPast(w) \/ PauseBroken(w)

Next == \/ \E w \in Workers : Work(w) \/ Abort(w)
        \/ \E b \in Bills : Create(b) \/ Pause(b) \/ Resume(b) \/ ChangeHouse(b)
        \/ Tick

Spec == Init /\ [][Next]_vars

(* The minute timer keeps starting runs and a run that can go on does. *)
FairSpec == Spec /\ \A w \in Workers : WF_vars(Work(w))

-----------------------------------------------------------------------------
(* No period of a bill is posted twice, whatever runs overlap, die or work *)
(* from a stale list (H4).                                                 *)
OncePerPeriod == \A b \in Bills, d \in Dues : posted[b][d] =< 1

(* Nothing posts before its due date in the house's timezone (H5), though  *)
(* the scan reads up to tomorrow.                                          *)
NeverEarly == \A b \in Bills, d \in Dues : posted[b][d] > 0 => d =< day

(* next_run never passes over a period: everything from the bill's         *)
(* creation or last resumption up to next_run has been posted.             *)
NoPeriodPassedOver ==
  \A b \in Bills : \A d \in DueDays[b] :
    since[b] =< d /\ d < tmpl[b].nextRun => posted[b][d] > 0

(* The feed tells of each pause and each resumption once, whoever pauses:  *)
(* "someone else already paused it; one event is enough".                  *)
FeedAlternates ==
  \A b \in Bills :
    /\ \A i \in DOMAIN feed[b] : feed[b][i] = IF i % 2 = 1 THEN "paused" ELSE "resumed"
    /\ tmpl[b].exists => (tmpl[b].active <=> Len(feed[b]) % 2 = 0)

(* A due period of an active bill is posted in the end, or the bill is     *)
(* paused in the sight of the house; it never stays due for ever.          *)
DueIsHandled ==
  \A b \in Bills : \A d \in DueDays[b] :
    (tmpl[b].active /\ since[b] =< d /\ d =< day)
      ~> (posted[b][d] > 0 \/ ~ tmpl[b].active)

(* What bills.service.ts says of resuming: "periods missed while paused    *)
(* are consciously skipped, never back-posted".                            *)
NeverBackPosted == \A b \in Bills : \A d \in skipped[b] : posted[b][d] = 0
=============================================================================
