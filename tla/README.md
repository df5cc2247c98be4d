# HOMI in TLA+

HOMI is a shared-expense ledger for roommates: a NestJS API over Postgres
(`apps/api`), a worker that posts recurring bills and prunes idempotency keys
(`apps/worker`), an Expo app (`apps/mobile`), and the packages they share
(`packages/domain`, `packages/ledger`, `packages/db`). This directory models the
parts of it where the order of things decides whether money is right.

Checking a run: `tlc -config MC_BillPosting.cfg MC_BillPosting`. Checking the
proofs of a component: `tlapm BillPostingProofs.tla`. `PROJECT.json` lists the runs, the source
lines every definition models, the hazards and the results.

## 1. Inventory

| Component | Source | State | Operations | Talks to | Hard part | Correct when |
|---|---|---|---|---|---|---|
| Idempotent mutations | `apps/api/src/lib/idempotency.ts` | `idempotency_keys` rows | lookup, execute, store, replay after a lost race | every money mutation runs inside it | duplicates in flight together, lost answers, death between statements | a key carries one write and every answer about it is true |
| Prune | `apps/worker/src/prune` | the same rows | delete expired rows, a batch at a time | the API's lookups | a late retry meeting the delete | it never takes a row a retry can still need, and takes every expired one in the end |
| Mobile money forms | `apps/mobile/src/api`, `expenses`, `settle` | the form, the pending key, the busy flag | type, submit, answer, remount, leave | the API, over a network that loses answers | retries by hand, stale callbacks, the app being killed | each intent is recorded once |
| Bill posting | `apps/worker/src/bills/post-due-bills.ts` | `bill_templates.next_run`, `active`; posted expenses | scan, post, advance, pause | the bills service, other workers | stale lists, overlapping and dying runs | each period once, never early, never lost |
| Bills service | `apps/api/src/ledger/bills.service.ts` | `bill_templates` | create, pause, resume | the worker | a change under a running worker | the feed and the schedule agree |
| Posting core | `packages/ledger/src/posting.ts` | expenses, splits | lock members, resolve splits, derive room weights, insert | API and worker | a claim rewriting membership | shares are owed by members |
| Ledger service | `apps/api/src/ledger/ledger.service.ts` | expenses, splits, revisions, payments | create, edit, pay, dispute, resolve, balances, pages | posting core | edits against claims; dispute against resolve; pages over commits | shares add up; a payment's status moves once; balances are of one moment |
| Invites and claims | `apps/api/src/houses/invites.service.ts` | invites, memberships | create, preview, accept, claim | the ledger's splits, the rooms | two claimers, two links of one person, a claim amid edits and postings | uses stay in bounds, a joining is told once, a claim moves each share exactly once |
| Houses, members, rooms | `apps/api/src/houses` | houses, memberships, rooms | create, add a placeholder, rename, configure rooms, snapshot | claims, room-weighted splits | rooms rewritten under a claim | rooms that are held can be split on |
| Domain math | `packages/domain/src` | none | splits, room weights, balances, due dates | all of the above | rounding, month ends, timezones | totals survive; one due date a month |
| Activity and realtime | `activity`, `realtime`, `useRealtimeHints.ts`, `HomeScreen.tsx` | sockets, subscriptions, what the screen shows | log and publish after commit, subscribe, reconnect, refetch | Redis, the app | hints lost around opens and reconnects, answers out of order | a screen never goes back, and looking heals it |
| Rate limiter | `apps/api/src/ratelimit` | counters with a window | consume | sign-in, guards | window boundary, lost expiry | no inbox is flooded, no caller locked out for ever |
| Sign-in | `auth.instance.ts`, `SignInScreen.tsx`, `verify.tsx` | the screen's phase, the counters | send a code or a link, verify | rate limiter, mail, Better Auth | two channels, two budgets, failing mail | what the screen says was sent was sent |
| Worker process | `apps/worker/src/main.ts` | `running`, `stopping` | tick, prune, shutdown | the two jobs | overlap and shutdown | one run at a time; a run cut short loses nothing |
| Authorization, mail, pages, telemetry, other screens | the rest | sessions (Better Auth), none | | | external or pure I/O | |

The database runs the API's and the worker's transactions at READ COMMITTED,
except the two reads that ask for REPEATABLE READ. Nearly every hard behaviour
of the server comes from that: what a statement sees, which row locks it waits for,
and which unique index it trips.

`PROJECT.json` lists the hazards at their lines with the properties that would
notice them going wrong; a hazard without one says why.

## 2. Modules

| Module | Models | Uses |
|---|---|---|
| `ExactlyOnce` | what an idempotency-keyed mutation promises, and nothing of how | |
| `Idempotency` | `withIdempotency`, its table and the prune | `ExactlyOnce`, refined |
| `MoneyForm` | the app's two money forms over the wrapper | extends `Idempotency` |
| `BillPosting` | `postDueBills` by several workers against pause and resume | |
| `AtomicLedger` | what a house's write transactions promise together: each at one moment, or not at all | |
| `HouseLedger` | create, edit, bill and claim transactions under row locks | `AtomicLedger`, refined |
| `SplitMath` | split modes, room weights and balances, as operators | |
| `Household` | invites, accepts, claims, rooms and room-weighted bills | extends `SplitMath` |
| `Settling` | payments and their disputes, balances, pages, the snapshot's items | extends `SplitMath` |
| `Schedule` | due dates on the calendar, from creation to the worker | |
| `Realtime` | hints from a commit to a phone's screen | |
| `SignIn` | sign-in mails: screens, budgets, delivery | |
| `IdempotencyProofs` | theorems about `Idempotency` and `MoneyForm` | extends `MoneyForm` |
| `BillPostingProofs` | theorems about `BillPosting`, about `Schedule`, and that they are about one bill | extends both, and `Sums` |
| `HouseLedgerProofs`, `HouseholdProofs`, `SettlingProofs`, `SignInProofs` | theorems about the module of that name | extend it, and `Sums` |
| `RealtimeProofs` | theorems about `Realtime` | extends it |
| `Sums` | what the proofs use of `SumFunction`, the sum of a function over its domain | |
| `MC_*` | finite instances | |

### Idempotency

An *attempt* is one HTTP request in one API process. `Lookup` is the first
`findStoredResponse`; `Execute` begins the transaction and runs the mutation in
it; `Reject` is any domain error; `Store` is the insert of the response, which
waits while another transaction has the primary key uncommitted and fails once
it is committed; `Commit` publishes write and row together; `Recheck` is the
second lookup after the violation; `Die` is a crash or a broken connection at
any point. The
endpoint and the user are part of the key, a request's scope is its `Bodies`
value (equal iff its hash is). A write is named by the attempt that made it, so
a replay can be compared with the write it claims. The prune is `StartPrune`
(which fixes the cutoff), `PruneBatch` and `PruneFails`. Nothing keeps an hourly pass
from starting while an older one still deletes: `StartPrune` is possible then too, and the younger
cutoff, which covers the older, stands for both. Time is days: a row is
dated by its transaction's start, as `now()` is in Postgres.

The code relies on an assumption it states in a comment only ("30 days is
generous - client retries live in minutes"). It is explicit here:
`RetentionAssumption == RetryHorizon + RequestLifetime =< RetentionDays`.
The environment keeps its side in the guards of `Send` and `Tick`. Nothing in the app
enforces it: a form left open for a month and tapped again would break it.

### MoneyForm

One phone over the server of `Idempotency`. `Type` changes the form, `Submit`
binds a key (`Bind` is `bindIdempotencyKey`, `Fresh` a UUID never used) and
sends; `Confirmed`, `Failed` and `ConnectionLost` are the three ways `apiFetch`
settles; `Remount` is a fresh component; `Leave` ends a visit of the settle-up
tab, whose callback may still run (`StrayConfirmation`); `Kill` ends the app.
`intent`, `serves` and `shown` are history variables: what the person meant by
each request and what they were told. `Submit` takes over `Send`'s guard, so `RetryHorizon` is assumed of the
person here too, and not derived from the form. The add-expense screen is this module
without `Leave` and `StrayConfirmation`.

### BillPosting

`Scan` is a run's one read of the due templates: what it keeps in `run[w].listed`
goes stale. `Take`, `LeaveBill`, `EndRun` walk the list and the catch-up
loop; `Insert` is `postOne` up to the expense's insert, where the unique index
makes it wait or fail; `Commit` is the rest, with its `next_run` update by id
alone; `StepPast` is the compare-and-set after a duplicate; `PauseBroken` the
guarded pause. `Create`, `Pause`, `Resume` are the API's. `ChangeHouse` is
everything that makes a bill unpostable, or its timezone unusable. Days are
numbered in the house's own time and each bill has its due days (`DueDays`), of which all that is assumed is that there
is one beyond the clock's bound; that the calendar's due dates are such days is a theorem (`CalendarGivesDueDays`).
A run's `today` is fixed when it starts, as `now` is in the code.

### HouseLedger

Each transaction is a sequence of statements; what it read is in its record,
what it writes appears at its commit, and the locks it holds follow from where it
stands (`SharesMember`, `LocksMember`, `LocksExpense`, `KeysExpense`,
`LocksSplits`). `ReadMembers` and `LockMembers` are the two halves of a locking
read: it picks rows from its snapshot, waits, and then keeps those that still
qualify, but gains none. A claim runs `LockPlaceholder`, `ReadFolds`,
`InsertRevisions`, `MoveSplits`, `CommitClaim`; an edit `OpenEdit`,
`SnapSplits`, the member lock, `ReplaceSplits`, `CommitEdit`. The three split statements of a claim
are one step: once the placeholder's row is locked no transaction can commit a
new share for it, so what the later statements see for it is what the first saw.
The house has no rooms (a room would only add a lock on the claimer's row) and one
payer, who is never a placeholder. The
deadlock of an edit with a claim that folds the edited expense is real;
`DeadlockVictim` is Postgres breaking it.

`AtomicLedger` has the same house with no statements, snapshots or locks: `Create`, `Edit`, `Bill` and `Claim` each
happen at one moment, on the members and the shares of that moment, and `GiveUp` is a transaction that did nothing.
`HouseLedger` implements it with the commit as that moment: `Outcome` is read off a transaction's stage and `Asked` off
its request; members, claims and splits are the same in both. Three things it leaves to whoever implements it: the division is any
that adds up to the cent; there are no revisions, because an edit's need not be what it replaced (see
`RevisionIsPrevious` below); and a bill charges all who are active except, perhaps, `Claimers`, because the code promises
no more (see `BillChargesClaimerOrPlaceholder`).

### SplitMath and Household

`SplitMath` is `computeSplits` in its four modes with what it refuses (`Accepts`),
`divideRoomWeight`, `deriveRoomWeights` and `computeBalances`. `Whole` stands for
10000 basis points, so that an instance can have few.

`Household` interleaves the transactions on invites, memberships and rooms. `Open`
is `acceptInvite` up to the invite's row lock and its checks, `LockPlaceholder` the
locking read of the placeholder, `JoinPlain` and `Claim` the rest up to the commit;
`Joins` is the insert that loses quietly, or the reactivation of who was found gone.
`setRooms` is `ValidateRooms` (unlocked), `PickRows` (which rows the emptying update
chose), and `ReplaceRooms` (which waits for claims that hold any, and fails on the foreign
key when a row inserted since refers to an old room). `ReadMembers` and `PostBill`
are a room-weighted bill with the two halves of its locking read. `PreviewInvite` is
a predicate: the preview locks nothing and writes nothing. Expiry and revocation are
one step, `Expire`. The shares a claim moves are `HouseLedger`'s.

`ClaimKeepsRooms` is about every claim (`Claims`) but one: of a returning member whom another accept has brought back since this
one found them gone (`BroughtBack`). The service decides by what it read, so this claim reactivates them again,
overwrites the room they were given, and may leave that one empty. The comment in `acceptInvite` makes no such
exception; `ClaimNeverEmptiesRooms` is the property as the comment has it, and is violated (see below).

### Settling

A writing transaction is opened, with its locks and the checks it makes under them, and
committed later or aborted; `created_at` is when it began. `Edit` and `Claim` are
single steps here: their statements are `HouseLedger`'s. A read spans two steps on one
snapshot: `ReadExpenses` and `ReadPayments` are `getBalances`; `OpenPage` and
`TurnPage` a page of `getLedger`, whose cursor outlives its snapshot. `reader.existed`
and `walk.there` are history: the balances there were since a read began, and the
entries there were when a walk began. A transaction that began before a walk and commits
behind its cursor is missed by it, as the code says; `NoEntrySkipped` is about
entries that were there.

### Schedule

One bill on the real calendar. A date is the number its digits spell, since the code compares
ISO strings. `NextDueDate` translates the search of `nextDueDate`; `IsDueDay` says of a
single day whether it is due, without a search, and is what the properties use.
`StartBill` and `ResumeBill` are the bills service's "after yesterday", `Post` a turn of the
worker's loop, `PassTime` the passage of hours. An offset in hours stands for a timezone; daylight saving
moves it by less than the instance does.

### Realtime

`Commit` and `Publish` are `transact` and what follows its commit; `LoseHint` is Redis away or
the process dead between them. A socket at the server goes from `checking` over `subscribing` to `open`
or `gone`; `wire` is the subscriber connection's pipeline, in order, and `channel` what Redis has
taken of it. `Shutdown` and `Boot` are a restart of the instance, `Break` a network that separates the two ends of a
link without telling them, `Gone` TCP reporting a close, which it may never do. `Heartbeat` is a round of `reapDeadSockets`:
it terminates every open socket whose `alive` flag was not set since the round before, and clears the flag of the
others as it pings them; `Pong` is a peer's answer, which sets it, and which a slow peer may give too late. `Heartbeat` and `Shutdown` close
sockets alike (`Terminate`). On the phone `Dial`, `OnOpen`,
`OnMessage`, `OnClose`, `Retry`, `Foreground`, and `Teardown` when HOME goes, are `useRealtimeHints`, `Load`, `Read`, `Answer`,
`Fail` a request for the snapshot. `lost` and `owed` are history. Sockets are reused when nothing is left of them.

### SignIn

One person's phone and somebody else behind the same address. `Count` is one of the
two `consume` calls, `Consumed` the Redis script; `TooMany`, `Deliver`, `AnswerLost` and
`MailFails` are how a request ends. Whether a code or a link is good is Better Auth's
to say, so `Verify` and `FollowLink` have both outcomes; a link may be opened whatever the screen shows. A tick is a few minutes: no request takes as
long, and the mails of one window are those of `Window` ticks. Past a limit the count no longer matters and is kept one
above. `mails` is history and counts one inbox, `Watched`.

## 3. Runs

| Run | Question | Instance |
|---|---|---|
| `idempotency` | does a key ever carry two writes, or an answer lie; does every request end, every expired row go; is `ExactlyOnce` implemented? | 2 keys, 2 bodies, 2 attempts, days 0..3, retention 2 = horizon 1 + lifetime 1, batch 2 |
| `money_form` | can any use of the forms record one intent twice? | 3 keys, 2 bodies, 3 attempts, 3 intents, one day |
| `bill_posting` | is a period posted twice, early, or passed over; is every due one handled? | 2 workers, 1 bill, due on days 0, 2, 3 and 5, days 0..3, catch-up 2, 2 changes, 1 dying run |
| `bill_posting_backpost` | *violated*: "never back-posted" | 1 worker, 1 bill |
| `house_ledger` | do shares survive every pair of transactions, is each done at one moment (`AtomicLedger`), and does every lock wait end? | owner, 2 joiners, 1 placeholder, 2 transactions of any kind, 5 cents |
| `house_ledger_bill` | *violated*: a bill serializes with a claim | 1 joiner, 2 transactions |
| `household` | do uses, events, rooms and weights survive every pair of accepts, claims, `setRooms` and bills? | owner, 2 placeholders, 2 joiners of whom one may return, 2 invites of one use, one room or two of 9 points, 2 transactions |
| `schedule` | is a due date ever skipped or met twice? | days 1, 29, 30, 31 and last, Sunday and Monday; UTC-12 and UTC+14; two years with a leap day; a worker up to 8 days late |
| `settling` | are balances those of one moment and right, is an entry skipped, does a payment's status move twice? | 2 members, a placeholder, 2 entries, 2 transactions, pages of one entry, a window of one tick of two |
| `realtime` | does an open socket hear, is a quiet screen fresh, does a screen go back? | 2 sockets, 1 change, 2 requests |
| `realtime_live` | does looking heal, do two heartbeats find a dead socket? | 1 socket, 1 change, 2 requests |
| `sign_in` | is an inbox flooded, does the screen tell the truth, is anybody refused for ever? | 2 inboxes, 2 mails an inbox and 3 an address per window of 2 ticks, one fault |

Why the bounds are enough. Two attempts are a winner and a loser, or an attempt and its late
retry; the day bound passes the retention by one, so rows expire and are deleted with
requests still alive at its edge, and the theorems cover any number of attempts. The forms have
three: a first, a retry and another intent. Three due dates with a catch-up of two make a
run stop at the cap and a second worker overtake it; they are unevenly apart, as months are. Five cents over two to four
people always leave cents over. Two joiners and a placeholder are the least with
two claimers; a first expense exists, with the placeholder's share in it, and
with or without the claimer's, so claims both re-identify and fold. In `household`
nine points over two occupants are uneven, one use makes every second accept meet the limit, two
invites let one person follow two links, and the second placeholder lets an accept be bound to a roommate without a
room. In `schedule` the two offsets bracket all others, and eight days cover a whole week of lateness.
Two entries with one `created_at` lie on both sides of a page's end when a page has one. Two requests are enough for the older
to answer last; two sockets for an unsubscribe of one to meet the subscribe of the other; `realtime_live`
has one, used again and again, since it is about one peer at a time. In `sign_in` the bound of `MailBudget`
is reached: three mails within one window's length at a limit of two.
The symmetry sets permute only values no definition tells apart, and no run with a liveness property uses one.
`CHECK_DEADLOCK FALSE` is where a house's transactions, or the entries, are used up.

Every property of a passing run has a mutant in `PROJECT.json`: a change of one
modelled definition, of the kind a bug would be, that breaks it.

### Further configurations

Kept beside the runs for whoever changes these modules:
`MC_Idempotency_safety.cfg` (three attempts, invariants only),
`MC_BillPosting_list.cfg` (two bills on one list, catch-up of one) and
`MC_HouseLedger_three.cfg` (three transactions at once, types included) pass. The following each check one
statement made beside the code which it does not keep:

* `MC_MoneyForm_kill.cfg`, `RepostedOnlyIfShown`: the pending key is a React ref. A kill after the commit
  and before the answer leaves nothing to retry with, and the person records the
  thing again under a new key; leaving the settle-up tab mid-request does the same.
  `HOMI_V3.md` asks for an outbox on disk.
* `MC_HouseLedger_revision.cfg`, `RevisionIsPrevious`: the edit's snapshot of the splits
  (`ledger.service.ts:163`) is not protected from a claim when the new split leaves the placeholder out.
* `MC_Household_rooms.cfg`, `OccupantsAreActive`: `setRooms` checks its occupants without a lock; a claim that
  commits in between leaves a room with a placeholder who has left (`rooms.service.ts:39`).
* `MC_Household_paused.cfg`, `PausedOnlyIfVacant`: a room-weighted bill whose locking read waited for a claim misses
  the claimer and is paused for "a vacant room" while none is vacant.
* `MC_Household_race.cfg`, `ClaimNeverEmptiesRooms`: "Claiming never leaves the room occupant-less"
  (`invites.service.ts:251`). One returning member follows two links at once, both find them gone, and the second
  claim takes them out of the room in which the first has put them.
* `MC_Realtime_open.cfg`, `QuietIsFresh`: `onHint` runs on every open but the first, so a hint between the first snapshot
  and the first open leaves a quiet, stale screen, though the comment says it fires "whenever hints could
  have been missed" (`useRealtimeHints.ts:76`).

One more marks a limit of `DeadSocketsGo`, of which the code says nothing: in `MC_Realtime_ghost.cfg`, `GhostsGo` is violated. A peer that
vanishes before its upgrade completes, or whose SUBSCRIBE fails, leaves a listener that no heartbeat visits, since it has no open
socket; it stays until the instance restarts.

### Fairness

`Idempotency`: weak fairness of each attempt's handler (an event loop and a
database that keep running what can run) and of starting the hourly prune; strong
fairness of `PruneBatch`, since a pass that fails is started again each hour and
does not fail for ever. `BillPosting`: weak fairness of each worker, whose timer
fires every minute; nothing is assumed of the owner. `HouseLedger`: weak fairness
of each transaction and of the deadlock detector. `Realtime`: weak fairness of the heartbeat's timer (not of pongs, nor of TCP's reports of a close) and
of the server's reads; strong fairness of the newest request's end, since a later request may overtake one but
reconnects back off and people rest. `SignIn`: weak fairness of the server's work on a request, strong fairness of the
clock, which ticks however often requests are under way. Nothing that fails is fair, and no person is.

### What the violated runs show

* `NeverBackPosted`: a run that read its list before a pause and a resumption still
  posts the skipped period and moves `next_run` back to follow it: the insert tests neither.
* `BillChargesClaimerOrPlaceholder`: a bill's locking read that waited for a claim
  loses the placeholder and does not gain the claimer. The shares add up, but
  neither serial order gives this split.

## 4. Proofs

Every safety property of the passing runs is also a theorem, for every value of the constants that
meets the named assumptions of its module. A theorem that states a run's property names it in
its statement; `PROJECT.json` pairs them. All proofs have the same shape: an invariant `IndInv` that says what
the code relies on between two statements; the initial states satisfy it; one lemma per action shows that it is kept;
and the property follows from it. The bounds (`MaxDay`, `MaxReqs`, `MaxFaults` and so on) are constants like any other, so
the theorems hold however large they are chosen.

### Idempotency and MoneyForm

`AtMostOnce`, `Truthful`, `NoLoserFails`, `RowsSound` are the four invariants of `idempotency`, and `TypeCorrect` its types, under
`PeriodsAssumption` and `RetentionAssumption`; `Refinement` is `Spec => ImplementsExactlyOnce`, step by step.
None of the four is inductive: whether an attempt may commit depends on the table,
on who else holds the key, and on how old the write it might repeat is.
`IndInv` adds that attempts under a key were
sent within one horizon (`HorizonInv`) and live for one lifetime (`LifetimeInv`);
a committed write is its attempt's own and began after it was sent
(`LedgerInv`, `BeganInv`); every row dates from its transaction (`RowInv`) and
every write without one is past the retention (`RetainedInv`); an attempt past
`Store` holds its key alone and no row is there, one that lost it has a row to
find (`KeyInv`); a running prune's cutoff is old enough (`PassInv`). The crux is
`AliveWithinRetention`: a live attempt meets no write under its key that is past
the retention. It is the only place the assumption on the periods enters the
argument for `AtMostOnce` and `NoLoserFails`. `HorizonInv` is about the clients, so `AtMostOnce` is conditional on it: the code
does not enforce it.

The forms are clients as `Idempotency` allows them, by the way `MoneyForm` is built (the lemma `FormsAreClients`), so all of the above holds
behind them, under the same assumption that nobody retries past the horizon. `TappedAgainOnce` (`OncePerIntent`) and `EnteredAgainAnew` (`FreshFormPostsAnew`) then need what the pending
key is good for (`FormInv`): a key is used in one visit for one body (`KeyVisit`), the attempts of one intent carry one
key (`IntentKey`), and the key on the form is this visit's and that of what it sent (`PendingInv`).

### BillPosting

`PostedOnce`, `NotEarly`, `NonePassedOver`, `FeedTruthful`, for any number of workers and bills, all due days, every catch-up and
bound. A stale run is the difficulty: it may hold a date read from a list long ago. `StaleInv` says that whatever a run
carries and may still post (a date not after its `today`) has every period since the bill's creation or resumption before it
posted, so `next_run` may follow it. `IndexInv` is the unique index: at most one run is posting a period,
and it is unposted; a refused run finds it posted. `RunInv` ties a run's dates to the day; `ExistsInv` is that a template
not there has no history.

### Schedule

`DueDaysSeen` (`DueDaySeen`) and `NoneMissed` (`NoPeriodMissed`), for all schedules, offsets, hours and years the assumption
allows. Their module proves the calendar first. `DayNumber` counts the days; `isoAddDays` adds to it (`AddDays`), the weekday is
its remainder by seven (`WeekdayIs`), and, leap years included, two ISO dates are ordered as their numbers are (`DatesInOrder`), which is why the
code may compare strings. A monthly schedule has one due day in a month, the clamped one
(`DueOfMonth`, `OneDueDayAMonth`); so what `nextDueDate` finds is the first due day after a date (`NextDueDateIsFirst`): its
search of three months or seven days always succeeds, and jumps over nothing that is due.

`DueDaySeen` is not inductive: that today is not passed over has to be known yesterday. `CalendarInv` adds that no due
day after today comes before `next_run` (`AheadInv`). The passage of time moves a house's date by a day at most, so the
day that becomes today was not before `next_run`, or had been seen; a creation or a resumption looks from yesterday on. `FollowsInv` is that
until a resumption `next_run` is the due date after the last one posted, from which `NoneMissed` follows.

`CalendarGivesDueDays` joins the two halves. `BillPosting` counts days and takes each bill's due days as given. Number the
days from any date, and give each bill the due dates of any schedule up to two months past the clock's bound: these meet
`DueDaysAssumption`; `NextDue` on them is `nextDueDate`, from the day before the first on; and a period key names one of
them, as the unique index requires. So what is proved of the workers holds on the calendar. What needs an argument is that every day has a date
(`EveryDayHasADate`, by the first that would have none) and that the next due date is at most two months off (`NextDueWithin`).

### Household

`TypeCorrect` (no member is in a room that is gone), `InviteUses`, `ToldOnce`, `PreviewTrue`, `ClaimsKeepRooms` (an action
property, with the exception named in section 2), and `HeldRoomsDivide`, for any people, links, transactions, `max_uses` and room configurations; `RoomsAssumption` says
nobody's name is a room's, `FiniteAssumption` that a house has finitely many people. `TxInv` says what a
transaction knows at each stage: an accept that holds the invite has a use left and a membership that
still is what it read, unless another accept inserted it; a claim that holds the placeholder finds it unclaimed, in the room it read;
a `setRooms` has picked the rows of all its occupants. `LockInv` is that the row locks exclude. `JoinerInv` and `BoundInv` are
about those who never left, and about bound links: their placeholder is there until the claim. `SinceInv` makes `Latest`
exist. `ClaimsKeepRooms` needs that who was found gone, and has not been brought back, is still gone, so in no room that
the claim could empty (`ClaimHouses` says where it leaves them).

`HeldRoomsSplit` needs one thing of the steps: the points of the rooms there are, and of the request that would
replace them, add up to the whole (`WholeInv`). The rest is arithmetic about any house. Ranks are places: of the `n` occupants of
a room each has one of `1..n`, and none is left out (`RankIsPlace`); the portions by place add up to the room's points
(`PortionsAddUp`, `PointsOfRoom`); summed by people they are what they are summed by rooms (`PointsOfHouse`); so the weights are
accepted, and the remainder makes the cents the total (`HeldSplits`).

### HouseLedger

`NoCentLost` (`SharesAddUp`) and `ClaimSweepsAll` (`ClaimedOwesNothing`), for any people, transactions and total.
`TxInv` says that a posting that holds its locks charges only members it has locked, who are active still (`PostingOK`), and that
a claim that has moved the shares moved all there are, as they are (`ClaimOK`). `LockInv` (`Compatible`) says that no posting
and no claim hold one member, and no two writers one expense. `EqualSplitsValid` and `ReidentifyValid` show that an equal
split and a moved share add up to the total.

`OneAtATime` is `Spec => ImplementsAtomicLedger`. A statement before the last changes nothing a reader of committed rows can see
(`QuietMove`), an abort is `GiveUp`, and each commit is the abstract action on the house as it is then. For this
`AtomicInv` adds to `IndInv` that what a transaction read in an earlier statement is still good at its commit: a posting charges those its request names, or
for a bill all that its locking read kept, which are all who are active but those whom a committed claim brought in
(`ChargeOK`); a placeholder whose row a claim holds is active and unclaimed (`HeldOK`); and no two claims hold one (`Apart`). That the shares a claim
moved are still all there are at its commit is `IndInv`'s `ClaimOK`.

### Settling

`BalancesOfOneMoment`, `FeedInStep`, `WalkShowsAll`, `HomeOffersDisputable` and `UpdateFindsItsRow` (a transition's `UPDATE`
always finds the status its check saw). `RowsInv` and `TxInv` hold the rows and, for a transition under way, the
status it found; `FeedInv` is `FeedTellsStatus` itself; `WalkInv` says that each entry there when the walk began is shown already or
beyond the cursor, at its place. `NetsAreStandings` (`NetIsStanding`) adds that every row's numbers are whole and its shares
its total (`MoneyInv`), and then exchanges sums: someone's net, setting off pair by pair, is the sum over all entries of what each
moves for them. `MoneyAssumption` is that the members are finite and what is entered is whole cents.

### Realtime

`OpenIsHeard`, `ScreenNeverBackwards` (an action property) and `QuietIsCurrent`, for any sockets, changes and requests.
`ServerInv` (`Wired`) relates what Redis will have subscribed, once the pipeline on the subscriber's connection is through, to the
listeners there are, which makes one socket's unsubscribe harmless to another's subscribe. `ReqsOK` says that one request at
most is the newest, and that it brings nothing older than the screen. `FreshInv` says that a listening phone that has not lost a hint shows
the house, or has a hint or a current request coming (`Covered`), or shows the banner.

### SignIn

`InboxSpared` (`MailBudget`) and `ScreenTrue` (`ScreenNamesInbox`), for any addresses, limits and window. Fewer than twice the limit are sent
in one window's length because a counter lives for a window at least: `MailsOK` (`Spread`)
splits the mails of the last window between the counter's life and the one before, counts those
admitted but not yet sent (`Underway`), and bounds each part. `ScreenOK` ties the request under way to the screen that waits for it.

### Sums

The library's induction theorems take an operator as a parameter, which the installed provers cannot
instantiate. `Sums` replaces them by the smallest counterexample (`FirstFailure`, `SmallestSet`), and so shows that the fold defines
a sum (`FoldingExists`) that does not depend on its order (`PartAny`); then that sums add, exchange (`SumExchange`), rename
(`SumImage`) and change by one term (`SumChanged`, `SumRemainder`).

### Only model-checked

* The liveness properties (`EveryRequestEnds`, `ExpiredRowsGo`, `DueIsHandled`, `EveryTxEnds`, `LookingHeals`,
  `DeadSocketsGo`, `LockoutEnds`): they depend on ENABLED and fairness.
* The violated runs and the further configurations.

## 5. Not modelled

* Sessions, codes and links (Better Auth), Postgres, Redis and the mail provider are external: what
  the code sees of them is modelled.
* The authorization guards (one query each before a handler), the controllers (parsing), mail and HTML
  pages, health checks, Sentry, migrations, layout, navigation and formatting keep no state that the
  ledger's correctness depends on.
* The per-user rate-limit guard is one more `consume` before a handler.
* `setDisplayName` changes a label. `createHouse` is `Household`'s initial state; that it carries no idempotency key, so that a
  lost answer and a second tap make two houses, is a listed hazard.
* The join screen and the house gate each send a request and show its answer. The join screen keeps its preview when its
  link changes under it, which needs a second deep link while it is open.
* The worker's HTTP mode and the order of its shutdown: to the database a shutdown is a run cut short at
  any point, which `BillPosting` and `Idempotency` have.
* Two budgets of one request are spent even if one refuses it (`auth.instance.ts:45`), so that somebody who keeps
  trying may be refused by one or the other for as long as they try; `LockoutEnds` is about each budget alone.
* Interpretation of daylight saving: the code works on dates, and `Schedule` takes the offset as given.

## 6. Plan

1. Done: `Idempotency` with `ExactlyOnce`, `MoneyForm`, `BillPosting`, `HouseLedger`,
   `SplitMath`, `Household`, `Settling`, `Schedule`, `Realtime`, `SignIn`, and the proofs of all the safety properties
   the runs check.
2. Done: `AtomicLedger`, which `HouseLedger` implements; bill posting on `Schedule`'s due dates.
3. Left: daylight saving within a day, `createHouse` and its missing idempotency key, the per-user rate limit; and one house in which
   `Household`'s rooms and `HouseLedger`'s statements meet, for room-weighted bills amid claims of shares.
