------------------------------ MODULE Schedule ------------------------------
(***************************************************************************)
(* The schedule math of recurring bills (packages/domain/src/bills) and    *)
(* its three uses: a bill's creation, its resumption, and the worker's     *)
(* walk from one due date to the next.  One bill, in a house of some       *)
(* timezone, on the real calendar.                                         *)
(*                                                                         *)
(* An ISO date is the number its digits spell, 20270131, so that the       *)
(* code's comparison of strings is a comparison of numbers.                *)
(***************************************************************************)
EXTENDS Integers

CONSTANTS
  Schedules,   \* the (cadence, cadenceDay) pairs of bills
  Offsets,     \* hours of the houses' timezones ahead of UTC
  Hours,       \* hours of the UTC day at which the worker may look
  FirstYear, LastYear,
  MaxBehind,   \* bound on the days a due bill waits for a worker
  NoDate,      \* not a date
  Last         \* the cadenceDay 'last'

ASSUME ScheduleAssumption ==
  /\ Schedules \subseteq [cadence : {"monthly"}, day : 1..31 \cup {Last}]
                   \cup [cadence : {"weekly"}, day : 0..6]
  /\ Offsets \subseteq -12..14 /\ Hours \subseteq 0..23 /\ Hours # {}
  /\ FirstYear \in 1970..9998 /\ LastYear \in FirstYear..9998 /\ MaxBehind \in 0..27
  /\ NoDate \notin Int \cup Schedules /\ Last \notin Int

-----------------------------------------------------------------------------
(* Dates *)

ToISO(y, m, d) == y * 10000 + m * 100 + d
Year(iso)  == iso \div 10000
Month(iso) == (iso \div 100) % 100
Day(iso)   == iso % 100

IsLeap(y) == y % 4 = 0 /\ (y % 100 # 0 \/ y % 400 = 0)

DaysInMonth(y, m) ==
  CASE m = 2             -> IF IsLeap(y) THEN 29 ELSE 28
    [] m \in {4, 6, 9, 11} -> 30
    [] OTHER             -> 31

(* The month k months away. *)
AddMonths(y, m, k) == LET i == m - 1 + k IN <<y + i \div 12, (i % 12) + 1>>

(* isoAddDays, for shifts of at most the shortest month. *)
IsoAddDays(iso, k) ==
  LET y    == Year(iso)
      m    == Month(iso)
      d    == Day(iso) + k
      prev == AddMonths(y, m, -1)
      next == AddMonths(y, m, 1)
  IN  IF d < 1 THEN ToISO(prev[1], prev[2], DaysInMonth(prev[1], prev[2]) + d)
      ELSE IF d > DaysInMonth(y, m) THEN ToISO(next[1], next[2], d - DaysInMonth(y, m))
      ELSE ToISO(y, m, d)

(* getUTCDay: days since the first of January of year 1, a Monday; Sunday is 0. *)
Weekday(iso) ==
  LET y == Year(iso) - 1
      before == <<0, 31, 59, 90, 120, 151, 181, 212, 243, 273, 304, 334>>[Month(iso)]
      leap   == IF Month(iso) > 2 /\ IsLeap(Year(iso)) THEN 1 ELSE 0
  IN  (365 * y + y \div 4 - y \div 100 + y \div 400 + before + leap + Day(iso)) % 7

-----------------------------------------------------------------------------
(* nextDueDate *)

(* The due date of a monthly schedule in a month: a day past its end is    *)
(* clamped to its last.                                                    *)
DueIn(s, y, m) ==
  LET dim == DaysInMonth(y, m)
  IN  ToISO(y, m, IF s.day = Last \/ s.day > dim THEN dim ELSE s.day)

NextDueDateNextMonth(s, after) ==
  IF s.cadence = "monthly"
  THEN LET ym == AddMonths(Year(after), Month(after), 1) IN DueIn(s, ym[1], ym[2])
  ELSE LET k == CHOOSE k \in 1..7 : Weekday(IsoAddDays(after, k)) = s.day IN IsoAddDays(after, k)

(* The first due date strictly after a date: in its month or in one of the *)
(* next two, or on one of the next seven days.                             *)
NextDueDate(s, after) ==
  IF s.cadence = "monthly"
  THEN LET due(k) == LET ym == AddMonths(Year(after), Month(after), k) IN DueIn(s, ym[1], ym[2])
           k == CHOOSE k \in 0..2 : due(k) > after /\ \A j \in 0..(k - 1) : due(j) =< after
       IN  due(k)
  ELSE LET k == CHOOSE k \in 1..7 : Weekday(IsoAddDays(after, k)) = s.day
       IN  IsoAddDays(after, k)

PeriodKeyOfMonth(s, due) == due \div 100

PeriodKey(s, due) == IF s.cadence = "monthly" THEN due \div 100 ELSE due

(* todayInTimezone: the date on the house's wall, now. *)
TodayInTimezone(offset, t) ==
  LET h == t.hour + offset
  IN  IF h < 0 THEN IsoAddDays(t.date, -1) ELSE IF h >= 24 THEN IsoAddDays(t.date, 1) ELSE t.date

-----------------------------------------------------------------------------
VARIABLES
  bill,     \* its schedule, NoDate before it exists
  offset,   \* the house's timezone
  now,      \* UTC
  nextRun,  \* bill_templates.next_run
  last,     \* the due date of the last posting
  resumed   \* whether the bill was resumed since (history)

scheduleVars == <<bill, offset, now, nextRun, last, resumed>>

Today == TodayInTimezone(offset, now)

ScheduleInit ==
  /\ bill = NoDate /\ nextRun = NoDate /\ last = NoDate /\ resumed = FALSE
  /\ offset \in Offsets
  /\ now = [date |-> ToISO(FirstYear, 1, 2), hour |-> CHOOSE h \in Hours : \A g \in Hours : h =< g]

(* The first due date of a bill that starts today: "after yesterday". *)
FirstDue(s) == NextDueDate(s, IsoAddDays(Today, -1))

(* createBill *)
StartBill(s) ==
  /\ bill = NoDate
  /\ bill' = s /\ nextRun' = FirstDue(s)
  /\ UNCHANGED <<offset, now, last, resumed>>

(* setActive(false) and, on the same day or later, setActive(true). *)
ResumeBill ==
  /\ bill # NoDate
  /\ nextRun' = FirstDue(bill) /\ resumed' = TRUE
  /\ UNCHANGED <<bill, offset, now, last>>

(* latestPossibleToday, the bound of the worker's scan. *)
LatestPossibleToday == IsoAddDays(now.date, 1)

Due == /\ bill # NoDate
       /\ nextRun =< LatestPossibleToday /\ nextRun =< Today

(* One turn of the catch-up loop: the period is posted, or its expense is  *)
(* there already and the unique index refuses another; next_run moves on.  *)
Post ==
  /\ Due
  /\ IF last # NoDate /\ PeriodKey(bill, last) = PeriodKey(bill, nextRun)
     THEN UNCHANGED <<last, resumed>>
     ELSE last' = nextRun /\ resumed' = FALSE
  /\ nextRun' = NextDueDate(bill, nextRun)
  /\ UNCHANGED <<bill, offset, now>>

(* Time passes, a due bill waiting at most MaxBehind days. *)
PassTime ==
  /\ Due => IsoAddDays(Today, - MaxBehind) < nextRun
  /\ \E h \in Hours :
       \/ /\ h > now.hour /\ \A g \in Hours : g > now.hour => h =< g
          /\ now' = [now EXCEPT !.hour = h]
       \/ /\ \A g \in Hours : g =< now.hour /\ h =< g
          /\ now.date < ToISO(LastYear, 12, 30)
          /\ now' = [date |-> IsoAddDays(now.date, 1), hour |-> h]
  /\ UNCHANGED <<bill, offset, nextRun, last, resumed>>

ScheduleNext == (\E s \in Schedules : StartBill(s)) \/ ResumeBill \/ Post \/ PassTime

ScheduleSpec == ScheduleInit /\ [][ScheduleNext]_scheduleVars

-----------------------------------------------------------------------------

(* What "due on this day" means, said of one day and without a search: the *)
(* day is the schedule's, or the month's last and the schedule's day later.*)
IsDueDay(s, iso) ==
  LET dim == DaysInMonth(Year(iso), Month(iso))
  IN  IF s.cadence = "weekly" THEN Weekday(iso) = s.day
      ELSE \/ Day(iso) = s.day
           \/ Day(iso) = dim /\ (s.day = Last \/ s.day \in (dim + 1)..31)

(* No due day passes unseen: when it is one in the house, it is being      *)
(* waited for, is behind an earlier one still to post, or has been posted. *)
(* The search of nextDueDate jumps from date to date and never over one.   *)
DueDaySeen ==
  bill # NoDate /\ IsDueDay(bill, Today) => nextRun =< Today \/ last = Today

(* "Every month gets exactly one due date": a bill that is not resumed     *)
(* posts once in each month, and a weekly one every seven days.            *)
NoPeriodMissed ==
  [][last # NoDate /\ last' # last /\ ~ resumed =>
       IF bill.cadence = "weekly" THEN last' = IsoAddDays(last, 7)
       ELSE LET next == AddMonths(Year(last), Month(last), 1)
            IN  <<Year(last'), Month(last')>> = next]_scheduleVars

=============================================================================
