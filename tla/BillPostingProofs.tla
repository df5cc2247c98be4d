------------------------- MODULE BillPostingProofs --------------------------
(***************************************************************************)
(* Theorems about BillPosting, for any number of workers and bills, all    *)
(* due days, every catch-up cap and every bound; theorems about Schedule,  *)
(* for all its schedules, offsets and hours; and, since the two are one    *)
(* bill, that the calendar's due dates are due days as BillPosting has     *)
(* them.                                                                   *)
(***************************************************************************)
EXTENDS BillPosting, Schedule, Sums

(* What a run carries: a bill that is due when it is being posted, and a   *)
(* day that has been.                                                      *)
RunInv ==
  \A w \in Workers :
    /\ run[w].today =< day
    /\ run[w].at \in {"due", "posting", "dup", "pause"} => run[w].bill \in Bills
    /\ run[w].at \in {"posting", "dup"} =>
         run[w].due =< run[w].today /\ run[w].count < CatchUp

(* The unique index: a period being posted is not posted yet and is being  *)
(* posted by one run only; a run that was refused finds it posted.         *)
IndexInv ==
  \A w \in Workers :
    /\ run[w].at = "posting" =>
         /\ posted[run[w].bill][run[w].due] = 0
         /\ \A v \in Workers : /\ run[v].at = "posting"
                               /\ run[v].bill = run[w].bill /\ run[v].due = run[w].due
                               => v = w
    /\ run[w].at = "dup" => posted[run[w].bill][run[w].due] > 0

(* The dates a run has at hand, on its list or in its loop.                *)
Carries(w, b, d) == \/ run[w].listed[b] = d
                    \/ run[w].at \in {"due", "posting", "dup"} /\ run[w].bill = b /\ run[w].due = d

(* The periods of a bill from its creation or last resumption up to a date.*)
PostedBefore(b, d) == \A e \in DueDays[b] : since[b] =< e /\ e < d => posted[b][e] > 0

(* However stale, a date that a run may still post has nothing unposted    *)
(* before it: a resumption since then starts the bill's periods anew.      *)
StaleInv ==
  \A w \in Workers, b \in Bills, d \in Dues :
    Carries(w, b, d) /\ d =< run[w].today => PostedBefore(b, d)

(* A template that does not exist has no history. *)
ExistsInv == \A b \in Bills : ~ tmpl[b].exists => ~ tmpl[b].active /\ feed[b] = <<>>

IndInv == /\ TypeOK /\ RunInv /\ IndexInv /\ StaleInv /\ ExistsInv
          /\ OncePerPeriod /\ NeverEarly /\ NoPeriodPassedOver /\ FeedAlternates

-----------------------------------------------------------------------------
(* The schedule *)

(* The first day of a set after some day is there, is later, ... *)
LEMMA FirstAfterIs ==
  ASSUME NEW days \in SUBSET Nat, NEW d \in Int, \E e \in days : d < e
  PROVE  /\ FirstAfter(days, d) \in days /\ d < FirstAfter(days, d)
         /\ \A f \in days : d < f => FirstAfter(days, d) =< f
<1>. DEFINE L == {e \in days : d < e}
<1>1. PICK n \in L : \A m \in L : n =< m
  <2>1. L \in SUBSET Nat /\ L # {}
    OBVIOUS
  <2>. HIDE DEF L
  <2>. QED
    BY <2>1, FirstFailure
<1>2. n \in days /\ d < n /\ \A f \in days : d < f => n =< f
  BY <1>1
<1>. QED
  BY <1>2 DEF FirstAfter

(* ... and is the only such day. *)
LEMMA FirstAfterOnly ==
  ASSUME NEW days \in SUBSET Nat, NEW d \in Int,
         NEW n \in days, d < n, \A f \in days : d < f => n =< f
  PROVE  FirstAfter(days, d) = n
<1>1. \E e \in days : d < e
  OBVIOUS
<1>2. FirstAfter(days, d) \in days /\ d < FirstAfter(days, d) /\ FirstAfter(days, d) =< n
  BY <1>1, FirstAfterIs
<1>3. n =< FirstAfter(days, d) /\ n \in Nat /\ FirstAfter(days, d) \in Nat
  BY <1>2
<1>. QED
  BY <1>2, <1>3

(* nextDueDate is strictly after a day, ... *)
LEMMA NextDueAfter ==
  ASSUME NEW b \in Bills, NEW d \in Int, d =< MaxDay
  PROVE  NextDue(b, d) \in Dues /\ NextDue(b, d) \in Int /\ d < NextDue(b, d)
<1>1. /\ DueDays[b] \in SUBSET Nat /\ DueDays[b] \in SUBSET Dues
      /\ \E e \in DueDays[b] : d < e
  BY DueDaysAssumption, NumbersAssumption DEF Dues
<1>2. NextDue(b, d) \in DueDays[b] /\ d < NextDue(b, d)
  BY <1>1, FirstAfterIs DEF NextDue
<1>. QED
  BY <1>1, <1>2

(* ... and the first due date there. *)
LEMMA NextDueFirst ==
  ASSUME NEW b \in Bills, NEW d \in Int, d =< MaxDay, NEW e \in DueDays[b], d < e
  PROVE  NextDue(b, d) =< e
<1>1. DueDays[b] \in SUBSET Nat
  BY DueDaysAssumption, NumbersAssumption
<1>. QED
  BY <1>1, FirstAfterIs DEF NextDue

LEMMA DuesAreDays ==
  /\ \A d \in Dues : d \in Nat
  /\ \A b \in Bills : DueDays[b] \in SUBSET Dues /\ \A d \in DueDays[b] : d \in Dues
BY NumbersAssumption, DueDaysAssumption DEF Dues

(* A feed that alternates goes on alternating with the other event. *)
Alternates(s) == \A i \in DOMAIN s : s[i] = IF i % 2 = 1 THEN "paused" ELSE "resumed"

LEMMA AppendType ==
  \A s \in Seq({"paused", "resumed"}), x \in {"paused", "resumed"} :
    Append(s, x) \in Seq({"paused", "resumed"})
OBVIOUS

LEMMA AppendAlternates ==
  ASSUME NEW s \in Seq({"paused", "resumed"}), Alternates(s)
  PROVE  /\ Len(s) % 2 = 0 => /\ Alternates(Append(s, "paused"))
                              /\ Len(Append(s, "paused")) % 2 # 0
         /\ Len(s) % 2 # 0 => /\ Alternates(Append(s, "resumed"))
                              /\ Len(Append(s, "resumed")) % 2 = 0
<1>1. ASSUME NEW x \in {"paused", "resumed"}
      PROVE  /\ Len(Append(s, x)) = Len(s) + 1 /\ DOMAIN Append(s, x) = 1..(Len(s) + 1)
             /\ \A i \in 1..(Len(s) + 1) : Append(s, x)[i] = IF i =< Len(s) THEN s[i] ELSE x
  OBVIOUS
<1>2. /\ Len(s) \in Nat /\ DOMAIN s = 1..Len(s)
      /\ (Len(s) + 1) % 2 = IF Len(s) % 2 = 0 THEN 1 ELSE 0
  OBVIOUS
<1>. QED
  BY <1>1, <1>2 DEF Alternates

-----------------------------------------------------------------------------
(* The house *)

LEMMA CreateKeeps ==
  ASSUME IndInv, NEW b \in Bills, Create(b)
  PROVE  IndInv'
<1>. USE DEF IndInv, Create
<1>0. NextDue(b, day - 1) \in Dues /\ day =< NextDue(b, day - 1)
  <2>1. day \in Int /\ day - 1 \in Int /\ day - 1 =< MaxDay
    BY NumbersAssumption DEF TypeOK
  <2>. HIDE DEF IndInv, Create
  <2>2. NextDue(b, day - 1) \in Dues /\ NextDue(b, day - 1) \in Int /\ day - 1 < NextDue(b, day - 1)
    BY <2>1, NextDueAfter
  <2>. QED
    BY <2>1, <2>2
<1>1. TypeOK'
  BY <1>0 DEF TypeOK
<1>2. RunInv'
  BY DEF RunInv
<1>3. IndexInv'
  BY DEF IndexInv
<1>4. StaleInv'
  <2>. SUFFICES ASSUME NEW w \in Workers, NEW c \in Bills, NEW d \in Dues, Carries(w, c, d),
                       d =< run[w].today, NEW e \in DueDays[c], since'[c] =< e, e < d
                PROVE  posted[c][e] > 0
    BY DEF StaleInv, Carries, PostedBefore
  <2>1. CASE c = b
    <3>1. since'[c] = NextDue(b, day - 1) /\ run[w].today =< day
      BY <2>1 DEF TypeOK, RunInv
    <3>2. d \in Int /\ e \in Int /\ NextDue(b, day - 1) \in Int
      BY <1>0, DuesAreDays
    <3>3. run[w].today \in Int /\ day \in Int
      BY NumbersAssumption DEF TypeOK
    <3>. QED
      BY <3>1, <3>2, <3>3, <1>0
  <2>2. CASE c # b
    BY <2>2 DEF TypeOK, StaleInv, PostedBefore
  <2>. QED
    BY <2>1, <2>2
<1>5. ExistsInv'
  BY DEF TypeOK, ExistsInv
<1>6. OncePerPeriod' /\ NeverEarly'
  BY DEF OncePerPeriod, NeverEarly
<1>7. NoPeriodPassedOver'
  <2>1. \A c \in Bills : /\ c # b => since'[c] = since[c] /\ tmpl'[c] = tmpl[c]
                         /\ c = b => since'[c] = tmpl'[c].nextRun /\ since'[c] \in Nat
    BY <1>0, DuesAreDays DEF TypeOK
  <2>. QED
    BY <2>1, DuesAreDays DEF NoPeriodPassedOver
<1>8. FeedAlternates'
  <2>1. ASSUME NEW c \in Bills
        PROVE  tmpl'[c].exists => (tmpl'[c].active <=> Len(feed'[c]) % 2 = 0)
    <3>1. CASE c = b
      <4>1. feed'[c] = <<>>
        BY <3>1 DEF ExistsInv
      <4>2. tmpl'[c].active
        BY <3>1 DEF TypeOK
      <4>3. Len(<<>>) % 2 = 0
        OBVIOUS
      <4>. QED
        BY <4>1, <4>2, <4>3
    <3>2. CASE c # b
      <4>1. tmpl'[c] = tmpl[c] /\ feed'[c] = feed[c]
        BY <3>2 DEF TypeOK
      <4>. QED
        BY <4>1 DEF FeedAlternates
    <3>. QED
      BY <3>1, <3>2
  <2>. QED
    BY <2>1 DEF FeedAlternates
<1>. QED
  BY <1>1, <1>2, <1>3, <1>4, <1>5, <1>6, <1>7, <1>8


LEMMA PauseKeeps ==
  ASSUME IndInv, NEW b \in Bills, Pause(b)
  PROVE  IndInv'
<1>. USE DEF IndInv, Pause
<1>0. \A c \in Bills : /\ tmpl'[c].exists = tmpl[c].exists /\ tmpl'[c].nextRun = tmpl[c].nextRun
                       /\ c # b => tmpl'[c] = tmpl[c] /\ feed'[c] = feed[c]
                       /\ c = b => ~ tmpl'[c].active /\ feed'[c] = Append(feed[c], "paused")
  BY DEF TypeOK
<1>1. TypeOK'
  <2>1. tmpl' \in [Bills -> [exists : BOOLEAN, active : BOOLEAN, nextRun : Dues]]
    <3>1. tmpl \in [Bills -> [exists : BOOLEAN, active : BOOLEAN, nextRun : Dues]]
      BY DEF TypeOK
    <3>2. tmpl' = [tmpl EXCEPT ![b].active = FALSE]
      OBVIOUS
    <3>. HIDE DEF IndInv, Pause
    <3>. QED
      BY <3>1, <3>2
  <2>2. feed' \in [Bills -> Seq({"paused", "resumed"})]
    BY AppendType DEF TypeOK
  <2>3. changes' \in 0..MaxChanges
    BY NumbersAssumption DEF TypeOK
  <2>. QED
    BY <2>1, <2>2, <2>3 DEF TypeOK
<1>2. RunInv'
  BY DEF RunInv
<1>3. IndexInv'
  BY DEF IndexInv
<1>4. StaleInv'
  BY DEF StaleInv, Carries, PostedBefore
<1>5. ExistsInv'
  BY <1>0 DEF ExistsInv
<1>6. OncePerPeriod' /\ NeverEarly'
  BY DEF OncePerPeriod, NeverEarly
<1>7. NoPeriodPassedOver'
  BY <1>0 DEF NoPeriodPassedOver
<1>8. FeedAlternates'
  <2>1. tmpl[b].exists
    BY DEF ExistsInv
  <2>2. feed[b] \in Seq({"paused", "resumed"}) /\ Len(feed[b]) % 2 = 0
    BY <2>1 DEF TypeOK, FeedAlternates
  <2>3. ASSUME NEW c \in Bills
        PROVE  /\ Alternates(feed'[c])
               /\ tmpl'[c].exists => (tmpl'[c].active <=> Len(feed'[c]) % 2 = 0)
    <3>1. Alternates(feed[c])
      BY DEF FeedAlternates, Alternates
    <3>2. CASE c = b
      <4>1. Alternates(feed'[b]) /\ Len(feed'[b]) % 2 # 0
        <5>1. feed'[b] = Append(feed[b], "paused") /\ Alternates(feed[b])
          BY <1>0, <3>1, <3>2
        <5>. HIDE DEF IndInv, Pause
        <5>. QED
          BY <2>2, <5>1, AppendAlternates
      <4>2. ~ tmpl'[b].active
        BY <1>0
      <4>. QED
        BY <4>1, <4>2, <3>2
    <3>3. CASE c # b
      <4>1. tmpl'[c] = tmpl[c] /\ feed'[c] = feed[c]
        BY <3>3, <1>0
      <4>. QED
        BY <4>1, <3>1 DEF FeedAlternates
    <3>. QED
      BY <3>2, <3>3
  <2>. QED
    BY <2>3 DEF FeedAlternates, Alternates
<1>. QED
  BY <1>1, <1>2, <1>3, <1>4, <1>5, <1>6, <1>7, <1>8

LEMMA ResumeKeeps ==
  ASSUME IndInv, NEW b \in Bills, Resume(b)
  PROVE  IndInv'
<1>. DEFINE next == NextDue(b, day - 1)
<1>. USE DEF IndInv, Resume
<1>0. next \in Dues /\ day =< next
  <2>1. day \in Int /\ 0 =< day /\ day =< MaxDay
    BY NumbersAssumption DEF TypeOK
  <2>. HIDE DEF IndInv, Resume
  <2>2. day - 1 \in Int /\ 0 =< (day - 1) + 1 /\ day - 1 =< MaxDay
    BY <2>1, NumbersAssumption
  <2>3. next \in Dues /\ next \in Int /\ day - 1 < next
    BY <2>2, NextDueAfter
  <2>. QED
    BY <2>1, <2>3
<1>. HIDE DEF next
<1>a. \A c \in Bills :
        /\ tmpl'[c].exists = tmpl[c].exists
        /\ c # b => tmpl'[c] = tmpl[c] /\ feed'[c] = feed[c] /\ since'[c] = since[c]
        /\ c = b => /\ tmpl'[c].active /\ tmpl'[c].nextRun = next /\ since'[c] = next
                    /\ feed'[c] = Append(feed[c], "resumed")
  <2>1. /\ tmpl' = [tmpl EXCEPT ![b].active = TRUE, ![b].nextRun = next]
        /\ feed' = [feed EXCEPT ![b] = Append(feed[b], "resumed")]
        /\ since' = [since EXCEPT ![b] = next]
    BY DEF next
  <2>2. /\ tmpl \in [Bills -> [exists : BOOLEAN, active : BOOLEAN, nextRun : Dues]]
        /\ DOMAIN feed = Bills /\ DOMAIN since = Bills
    BY DEF TypeOK
  <2>. HIDE DEF IndInv, Resume
  <2>. QED
    BY <2>1, <2>2
<1>1. TypeOK'
  <2>1. tmpl' \in [Bills -> [exists : BOOLEAN, active : BOOLEAN, nextRun : Dues]]
    <3>1. tmpl' = [tmpl EXCEPT ![b].active = TRUE, ![b].nextRun = next]
      BY DEF next
    <3>2. tmpl[b] \in [exists : BOOLEAN, active : BOOLEAN, nextRun : Dues]
      BY DEF TypeOK
    <3>3. [tmpl[b] EXCEPT !.active = TRUE, !.nextRun = next]
            \in [exists : BOOLEAN, active : BOOLEAN, nextRun : Dues]
      BY <3>2, <1>0
    <3>. QED
      BY <3>1, <3>3 DEF TypeOK
  <2>2. feed' \in [Bills -> Seq({"paused", "resumed"})]
    <3>1. /\ feed \in [Bills -> Seq({"paused", "resumed"})]
          /\ feed' = [feed EXCEPT ![b] = Append(feed[b], "resumed")]
      BY DEF TypeOK
    <3>. HIDE DEF IndInv, Resume
    <3>2. Append(feed[b], "resumed") \in Seq({"paused", "resumed"})
      BY <3>1, AppendType
    <3>. QED
      BY <3>1, <3>2
  <2>3. changes' \in 0..MaxChanges
    BY NumbersAssumption DEF TypeOK
  <2>4. since' \in [Bills -> Dues]
    BY <1>0 DEF TypeOK, next
  <2>5. skipped' \in [Bills -> SUBSET Dues]
    <3>1. DueDays[b] \in SUBSET Dues
      BY DuesAreDays
    <3>. QED
      BY <3>1 DEF TypeOK
  <2>. QED
    BY <2>1, <2>2, <2>3, <2>4, <2>5 DEF TypeOK
<1>2. RunInv'
  BY DEF RunInv
<1>3. IndexInv'
  BY DEF IndexInv
<1>4. StaleInv'
  <2>. SUFFICES ASSUME NEW w \in Workers, NEW c \in Bills, NEW d \in Dues, Carries(w, c, d),
                       d =< run[w].today, NEW e \in DueDays[c], since'[c] =< e, e < d
                PROVE  posted[c][e] > 0
    BY DEF StaleInv, Carries, PostedBefore
  <2>1. CASE c = b
    <3>1. since'[c] = next /\ run[w].today =< day
      BY <2>1, <1>a DEF RunInv
    <3>2. d \in Int /\ e \in Int /\ next \in Int
      BY <1>0, DuesAreDays
    <3>3. run[w].today \in Int /\ day \in Int
      BY NumbersAssumption DEF TypeOK
    <3>. QED
      BY <3>1, <3>2, <3>3, <1>0
  <2>2. CASE c # b
    BY <1>a, <2>2 DEF StaleInv, PostedBefore
  <2>. QED
    BY <2>1, <2>2
<1>5. ExistsInv'
  BY <1>a DEF ExistsInv
<1>6. OncePerPeriod' /\ NeverEarly'
  BY DEF OncePerPeriod, NeverEarly
<1>7. NoPeriodPassedOver'
  BY <1>0, <1>a, DuesAreDays DEF NoPeriodPassedOver
<1>8. FeedAlternates'
  <2>1. feed[b] \in Seq({"paused", "resumed"}) /\ Len(feed[b]) % 2 # 0
    BY DEF TypeOK, FeedAlternates
  <2>2. ASSUME NEW c \in Bills
        PROVE  /\ Alternates(feed'[c])
               /\ tmpl'[c].exists => (tmpl'[c].active <=> Len(feed'[c]) % 2 = 0)
    <3>1. Alternates(feed[c])
      BY DEF FeedAlternates, Alternates
    <3>2. CASE c = b
      <4>1. Alternates(feed'[b]) /\ Len(feed'[b]) % 2 = 0
        <5>1. feed'[b] = Append(feed[b], "resumed") /\ Alternates(feed[b])
          BY <3>1, <3>2, <1>a
        <5>. HIDE DEF IndInv, Resume
        <5>. QED
          BY <5>1, <2>1, AppendAlternates
      <4>2. tmpl'[b].active
        BY <1>a
      <4>. QED
        BY <4>1, <4>2, <3>2
    <3>3. CASE c # b
      <4>1. tmpl'[c] = tmpl[c] /\ feed'[c] = feed[c]
        BY <3>3, <1>a
      <4>. QED
        BY <4>1, <3>1 DEF FeedAlternates
    <3>. QED
      BY <3>2, <3>3
  <2>. QED
    BY <2>2 DEF FeedAlternates, Alternates
<1>. QED
  BY <1>1, <1>2, <1>3, <1>4, <1>5, <1>6, <1>7, <1>8

LEMMA ChangeHouseKeeps ==
  ASSUME IndInv, NEW b \in Bills, ChangeHouse(b)
  PROVE  IndInv'
<1>. USE DEF IndInv, ChangeHouse
<1>1. TypeOK'
  BY NumbersAssumption DEF TypeOK
<1>2. RunInv' /\ IndexInv'
  BY DEF RunInv, IndexInv
<1>3. StaleInv'
  BY DEF StaleInv, Carries, PostedBefore
<1>4. ExistsInv' /\ OncePerPeriod' /\ NeverEarly' /\ NoPeriodPassedOver'
  BY DEF ExistsInv, OncePerPeriod, NeverEarly, NoPeriodPassedOver
<1>5. FeedAlternates'
  BY DEF FeedAlternates
<1>. QED
  BY <1>1, <1>2, <1>3, <1>4, <1>5

LEMMA TickKeeps ==
  ASSUME IndInv, Tick
  PROVE  IndInv'
<1>. USE DEF IndInv, Tick
<1>1. TypeOK'
  BY NumbersAssumption DEF TypeOK
<1>2. RunInv'
  BY NumbersAssumption DEF TypeOK, RunInv
<1>3. IndexInv'
  BY DEF IndexInv
<1>4. StaleInv'
  BY DEF StaleInv, Carries, PostedBefore
<1>5. ExistsInv' /\ OncePerPeriod' /\ NoPeriodPassedOver'
  BY DEF ExistsInv, OncePerPeriod, NoPeriodPassedOver
<1>6. NeverEarly'
  BY DuesAreDays, NumbersAssumption DEF TypeOK, NeverEarly
<1>7. FeedAlternates'
  BY DEF FeedAlternates
<1>. QED
  BY <1>1, <1>2, <1>3, <1>4, <1>5, <1>6, <1>7

-----------------------------------------------------------------------------
(* A run *)

(* What a step of run w alone has to keep: the periods before the dates    *)
(* the run carries, and the index.                                         *)
LEMMA RunStepKeeps ==
  ASSUME IndInv, NEW w \in Workers,
         UNCHANGED <<tmpl, house, posted, feed, day, changes, since, skipped>>,
         TypeOK', run' = [run EXCEPT ![w] = run'[w]],
         run'[w].today =< day,
         run'[w].at \in {"due", "posting", "dup", "pause"} => run'[w].bill \in Bills,
         run'[w].at \in {"posting", "dup"} =>
           run'[w].due =< run'[w].today /\ run'[w].count < CatchUp,
         run'[w].at = "posting" =>
           /\ posted[run'[w].bill][run'[w].due] = 0
           /\ \A v \in Workers \ {w} : ~ /\ run[v].at = "posting" /\ run[v].bill = run'[w].bill
                                         /\ run[v].due = run'[w].due,
         run'[w].at = "dup" => posted[run'[w].bill][run'[w].due] > 0,
         \A b \in Bills, d \in Dues :
           Carries(w, b, d)' /\ d =< run'[w].today => PostedBefore(b, d)
  PROVE  IndInv'
<1>0. \A v \in Workers : v # w => run'[v] = run[v]
  BY DEF IndInv, TypeOK
<1>1. RunInv'
  BY <1>0 DEF IndInv, RunInv
<1>2. IndexInv'
  BY <1>0 DEF IndInv, IndexInv
<1>3. StaleInv'
  BY <1>0 DEF IndInv, StaleInv, Carries, PostedBefore
<1>4. ExistsInv' /\ OncePerPeriod' /\ NeverEarly' /\ NoPeriodPassedOver'
  BY DEF IndInv, ExistsInv, OncePerPeriod, NeverEarly, NoPeriodPassedOver
<1>5. FeedAlternates'
  BY DEF IndInv, FeedAlternates
<1>. QED
  BY <1>1, <1>2, <1>3, <1>4, <1>5 DEF IndInv

LEMMA IdleType ==
  /\ Idle.at = "idle" /\ Idle.listed = [b \in Bills |-> NoRun] /\ Idle.today = 0
  /\ Idle \in [at : Stages, listed : [Bills -> Dues \cup {NoRun}],
               bill : Bills \cup {NoBill}, due : Dues, count : 0..CatchUp, today : 0..MaxDay]
  /\ \A d \in Dues : d # NoRun
<1>1. 0 \in Dues
  BY NumbersAssumption DEF Dues
<1>. QED
  BY <1>1, DuesAreDays, NumbersAssumption DEF Idle, Stages, NoRun

(* A run that starts, or stops in whatever way. *)
LEMMA ScanKeeps ==
  ASSUME IndInv, NEW w \in Workers, Scan(w)
  PROVE  IndInv'
<1>. DEFINE found == [b \in Bills |-> IF tmpl[b].active /\ tmpl[b].nextRun =< day + 1
                                      THEN tmpl[b].nextRun ELSE NoRun]
<1>0. /\ found \in [Bills -> Dues \cup {NoRun}]
      /\ \A b \in Bills : found[b] \in Dues => found[b] = tmpl[b].nextRun
  BY IdleType DEF IndInv, TypeOK
<1>. HIDE DEF found
<1>1. run' = [run EXCEPT ![w] = [Idle EXCEPT !.at = "list", !.today = day, !.listed = found]]
  BY DEF Scan, Set, found
<1>2. /\ run'[w].at = "list" /\ run'[w].today = day /\ run'[w].listed = found
      /\ run' = [run EXCEPT ![w] = run'[w]]
  BY <1>1 DEF IndInv, TypeOK, Idle
<1>3. TypeOK'
  <2>1. [Idle EXCEPT !.at = "list", !.today = day, !.listed = found]
           \in [at : Stages, listed : [Bills -> Dues \cup {NoRun}],
                bill : Bills \cup {NoBill}, due : Dues, count : 0..CatchUp, today : 0..MaxDay]
    BY <1>0, IdleType DEF IndInv, TypeOK, Idle, Stages
  <2>. QED
    BY <1>1, <2>1 DEF IndInv, TypeOK, Scan, owner
<1>4. \A b \in Bills, d \in Dues : Carries(w, b, d)' => PostedBefore(b, d)
  BY <1>0, <1>2 DEF IndInv, NoPeriodPassedOver, Carries, PostedBefore
<1>5. run'[w].today =< day
  BY <1>2, NumbersAssumption DEF IndInv, TypeOK
<1>. QED
  BY <1>2, <1>3, <1>4, <1>5, RunStepKeeps DEF Scan, owner

LEMMA StopKeeps ==
  ASSUME IndInv, NEW w \in Workers, Set(w, Idle), aborts' \in 0..MaxAborts,
         UNCHANGED <<tmpl, house, posted, feed, day, owner>>
  PROVE  IndInv'
<1>1. /\ run'[w] = Idle /\ run' = [run EXCEPT ![w] = run'[w]]
  BY DEF IndInv, TypeOK, Set
<1>2. TypeOK'
  BY <1>1, IdleType DEF IndInv, TypeOK, owner
<1>3. \A b \in Bills, d \in Dues : ~ Carries(w, b, d)'
  BY <1>1, IdleType DEF Carries
<1>4. 0 =< day
  BY NumbersAssumption DEF IndInv, TypeOK
<1>. QED
  BY <1>1, <1>2, <1>3, <1>4, IdleType, RunStepKeeps DEF owner

LEMMA TakeKeeps ==
  ASSUME IndInv, NEW w \in Workers, Take(w)
  PROVE  IndInv'
<1>1. PICK b \in Listed(w) :
        run' = [run EXCEPT ![w] =
          [run[w] EXCEPT !.at = IF house[b] = "nozone" THEN "pause" ELSE "due",
             !.bill = b, !.due = run[w].listed[b], !.count = 0, !.listed[b] = NoRun]]
  BY DEF Take, Set
<1>2. b \in Bills /\ run[w].listed[b] \in Dues
  BY DEF IndInv, TypeOK, Listed
<1>3. /\ run'[w].at \in {"pause", "due"} /\ run'[w].today = run[w].today
      /\ run'[w].bill = b /\ run'[w].due = run[w].listed[b] /\ run'[w].count = 0
      /\ run'[w].listed = [run[w].listed EXCEPT ![b] = NoRun]
      /\ run' = [run EXCEPT ![w] = run'[w]]
  BY <1>1 DEF IndInv, TypeOK
<1>4. TypeOK'
  <2>1. run'[w] \in [at : Stages, listed : [Bills -> Dues \cup {NoRun}],
                bill : Bills \cup {NoBill}, due : Dues, count : 0..CatchUp, today : 0..MaxDay]
    <3>1. run[w] \in [at : Stages, listed : [Bills -> Dues \cup {NoRun}],
                bill : Bills \cup {NoBill}, due : Dues, count : 0..CatchUp, today : 0..MaxDay]
      BY DEF IndInv, TypeOK
    <3>2. [run[w].listed EXCEPT ![b] = NoRun] \in [Bills -> Dues \cup {NoRun}]
      BY <3>1
    <3>4. 0 \in 0..CatchUp /\ "pause" \in Stages /\ "due" \in Stages
      BY NumbersAssumption DEF Stages
    <3>3. run'[w] = [run[w] EXCEPT !.at = run'[w].at, !.bill = b, !.due = run[w].listed[b],
                                   !.count = 0, !.listed = [run[w].listed EXCEPT ![b] = NoRun]]
      BY <1>1, <1>3, <3>1 DEF IndInv, TypeOK
    <3>. QED
      BY <1>2, <1>3, <3>1, <3>2, <3>3, <3>4
  <2>. DEFINE R == [at : Stages, listed : [Bills -> Dues \cup {NoRun}],
                    bill : Bills \cup {NoBill}, due : Dues, count : 0..CatchUp, today : 0..MaxDay]
  <2>2. run \in [Workers -> R] /\ run'[w] \in R
    BY <2>1 DEF IndInv, TypeOK
  <2>3. run' \in [Workers -> R]
    <3>. HIDE DEF R
    <3>. QED
      BY <1>3, <2>2
  <2>4. UNCHANGED <<tmpl, house, posted, feed, day, aborts, owner>>
    BY DEF Take
  <2>. QED
    BY <2>3, <2>4 DEF IndInv, TypeOK, owner
<1>5. ASSUME NEW c \in Bills, NEW d \in Dues, Carries(w, c, d)'
      PROVE  Carries(w, c, d)
  <2>1. run[w].listed \in [Bills -> Dues \cup {NoRun}] /\ NoRun \notin Dues
    BY IdleType DEF IndInv, TypeOK
  <2>2. CASE run'[w].listed[c] = d
    <3>1. run'[w].listed[b] = NoRun /\ (c # b => run'[w].listed[c] = run[w].listed[c])
      BY <1>2, <1>3, <2>1
    <3>. QED
      BY <2>1, <2>2, <3>1 DEF Carries
  <2>3. CASE run'[w].bill = c /\ run'[w].due = d
    BY <1>3, <2>3 DEF Carries
  <2>. QED
    BY <1>5, <2>2, <2>3 DEF Carries
<1>. QED
  BY <1>2, <1>3, <1>4, <1>5, RunStepKeeps DEF IndInv, RunInv, StaleInv, Take, owner

LEMMA LeaveBillKeeps ==
  ASSUME IndInv, NEW w \in Workers, LeaveBill(w)
  PROVE  IndInv'
<1>1. run' = [run EXCEPT ![w] = [run[w] EXCEPT !.at = "list", !.bill = NoBill]]
  BY DEF LeaveBill, Set
<1>2. /\ run'[w].at = "list" /\ run'[w].today = run[w].today
      /\ run'[w].listed = run[w].listed
      /\ run' = [run EXCEPT ![w] = run'[w]]
  BY <1>1 DEF IndInv, TypeOK
<1>3. TypeOK'
  <2>. DEFINE R == [at : Stages, listed : [Bills -> Dues \cup {NoRun}],
                    bill : Bills \cup {NoBill}, due : Dues, count : 0..CatchUp, today : 0..MaxDay]
  <2>1. run \in [Workers -> R] /\ "list" \in Stages /\ NoBill \in Bills \cup {NoBill}
    BY DEF IndInv, TypeOK, Stages
  <2>2. [run[w] EXCEPT !.at = "list", !.bill = NoBill] \in R
    BY <2>1
  <2>3. run' \in [Workers -> R]
    <3>. HIDE DEF R
    <3>. QED
      BY <1>1, <2>1, <2>2
  <2>4. UNCHANGED <<tmpl, house, posted, feed, day, changes, aborts, since, skipped>>
    BY DEF LeaveBill, owner
  <2>. QED
    BY <2>3, <2>4 DEF IndInv, TypeOK
<1>4. \A b \in Bills, d \in Dues : Carries(w, b, d)' => Carries(w, b, d)
  BY <1>2 DEF Carries
<1>. QED
  BY <1>2, <1>3, <1>4, RunStepKeeps DEF IndInv, RunInv, StaleInv, LeaveBill, owner

LEMMA InsertKeeps ==
  ASSUME IndInv, NEW w \in Workers, Insert(w)
  PROVE  IndInv'
<1>. DEFINE b == run[w].bill
            d == run[w].due
<1>0. b \in Bills /\ d \in Dues /\ posted[b][d] \in Nat
  BY DEF IndInv, TypeOK, RunInv, Insert
<1>1. PICK at \in {"pause", "dup", "posting"} :
        /\ run' = [run EXCEPT ![w] = [run[w] EXCEPT !.at = at]]
        /\ at = "dup" => posted[b][d] > 0
        /\ at = "posting" => ~ (posted[b][d] > 0) /\ ~ InProgress(b, d)
  BY DEF Insert, Set
<1>2. /\ run'[w].at = at /\ run'[w].today = run[w].today /\ run'[w].count = run[w].count
      /\ run'[w].bill = b /\ run'[w].due = d /\ run'[w].listed = run[w].listed
      /\ run' = [run EXCEPT ![w] = run'[w]]
  BY <1>1 DEF IndInv, TypeOK
<1>3. TypeOK'
  <2>. DEFINE R == [at : Stages, listed : [Bills -> Dues \cup {NoRun}],
                    bill : Bills \cup {NoBill}, due : Dues, count : 0..CatchUp, today : 0..MaxDay]
  <2>1. run \in [Workers -> R] /\ at \in Stages
    BY DEF IndInv, TypeOK, Stages
  <2>2. [run[w] EXCEPT !.at = at] \in R
    BY <2>1
  <2>3. run' \in [Workers -> R]
    <3>. HIDE DEF R
    <3>. QED
      BY <1>1, <2>1, <2>2
  <2>4. UNCHANGED <<tmpl, house, posted, feed, day, changes, aborts, since, skipped>>
    BY DEF Insert, owner
  <2>. QED
    BY <2>3, <2>4 DEF IndInv, TypeOK
<1>4. \A c \in Bills, e \in Dues : Carries(w, c, e)' => Carries(w, c, e)
  BY <1>2 DEF Carries, Insert
<1>5. d =< run[w].today /\ run[w].count < CatchUp
  BY DEF Insert, IsDue
<1>6. run'[w].at = "posting" =>
        /\ posted[b][d] = 0
        /\ \A v \in Workers : ~ (run[v].at = "posting" /\ run[v].bill = b /\ run[v].due = d)
  BY <1>0, <1>1, <1>2 DEF InProgress
<1>7. run'[w].at = "dup" => posted[b][d] > 0
  BY <1>1, <1>2
<1>8. \A c \in Bills, e \in Dues :
        Carries(w, c, e)' /\ e =< run'[w].today => PostedBefore(c, e)
  BY <1>2, <1>4 DEF IndInv, StaleInv
<1>9. run'[w].today =< day
  BY <1>2 DEF IndInv, RunInv
<1>10. UNCHANGED <<tmpl, house, posted, feed, day, changes, since, skipped>>
  BY DEF Insert, owner
<1>. QED
  BY <1>0, <1>2, <1>3, <1>5, <1>6, <1>7, <1>8, <1>9, <1>10, RunStepKeeps

(* The next date of the loop: a period on, and nothing lies between. *)
LEMMA AdvancedType ==
  ASSUME IndInv, NEW w \in Workers, run[w].at \in {"posting", "dup"},
         run' = [run EXCEPT ![w] = Advanced(w)]
  PROVE  /\ run' \in [Workers -> [at : Stages, listed : [Bills -> Dues \cup {NoRun}],
                        bill : Bills \cup {NoBill}, due : Dues, count : 0..CatchUp,
                        today : 0..MaxDay]]
         /\ NextDue(run[w].bill, run[w].due) \in Dues
         /\ run'[w].at = "due" /\ run'[w].due = NextDue(run[w].bill, run[w].due)
         /\ run'[w].bill = run[w].bill /\ run[w].bill \in Bills
         /\ run'[w].listed = run[w].listed /\ run'[w].today = run[w].today
         /\ \A v \in Workers : v # w => run'[v] = run[v]
<1>0. run[w] \in [at : Stages, listed : [Bills -> Dues \cup {NoRun}],
                  bill : Bills \cup {NoBill}, due : Dues, count : 0..CatchUp, today : 0..MaxDay]
  BY DEF IndInv, TypeOK
<1>1. run[w].due \in Int /\ -1 =< run[w].due /\ run[w].due =< MaxDay
  BY <1>0, DuesAreDays, NumbersAssumption DEF IndInv, RunInv
<1>6. run[w].bill \in Bills
  BY DEF IndInv, RunInv
<1>2. NextDue(run[w].bill, run[w].due) \in Dues
  BY <1>1, <1>6, NextDueAfter
<1>3. run[w].count + 1 \in 0..CatchUp /\ "due" \in Stages
  BY <1>0, NumbersAssumption DEF IndInv, RunInv, Stages
<1>4. Advanced(w) = [run[w] EXCEPT !.at = "due", !.due = NextDue(run[w].bill, run[w].due),
                                   !.count = run[w].count + 1]
  BY <1>0 DEF Advanced
<1>5. run'[w] = Advanced(w)
  BY DEF IndInv, TypeOK
<1>. QED
  <2>. DEFINE R == [at : Stages, listed : [Bills -> Dues \cup {NoRun}],
                    bill : Bills \cup {NoBill}, due : Dues, count : 0..CatchUp, today : 0..MaxDay]
  <2>1. Advanced(w) \in R
    BY <1>0, <1>2, <1>3, <1>4
  <2>2. run \in [Workers -> R]
    BY DEF IndInv, TypeOK
  <2>3. run' \in [Workers -> R] /\ \A v \in Workers : v # w => run'[v] = run[v]
    <3>. HIDE DEF R
    <3>. QED
      BY <2>1, <2>2
  <2>. QED
    BY <1>0, <1>2, <1>4, <1>5, <1>6, <2>3

LEMMA PostedPast ==
  ASSUME NEW b \in Bills, NEW d \in Dues, d =< MaxDay, PostedBefore(b, d), posted[b][d] > 0
  PROVE  PostedBefore(b, NextDue(b, d))
<1>. SUFFICES ASSUME NEW e \in DueDays[b], since[b] =< e, e < NextDue(b, d)
              PROVE  posted[b][e] > 0
  BY DEF PostedBefore
<1>1. d \in Int /\ e \in Int /\ NextDue(b, d) \in Int
  BY DuesAreDays, NextDueAfter
<1>2. ~ (d < e)
  BY <1>1, NextDueFirst
<1>3. CASE e = d
  BY <1>3
<1>4. CASE e < d
  BY <1>4 DEF PostedBefore
<1>. QED
  BY <1>1, <1>2, <1>3, <1>4

LEMMA CommitKeeps ==
  ASSUME IndInv, NEW w \in Workers, Commit(w)
  PROVE  IndInv'
<1>. DEFINE b == run[w].bill
            d == run[w].due
<1>0. /\ run[w].at = "posting" /\ run' = [run EXCEPT ![w] = Advanced(w)]
      /\ UNCHANGED <<house, feed, day, aborts, changes, since, skipped>>
  BY DEF Commit, Set, owner
<1>a. /\ run'[w].at = "due" /\ run'[w].due = NextDue(b, d) /\ NextDue(b, d) \in Dues
      /\ run'[w].bill = b /\ b \in Bills /\ d \in Dues
      /\ run'[w].listed = run[w].listed /\ run'[w].today = run[w].today
      /\ \A v \in Workers : v # w => run'[v] = run[v]
  BY <1>0, AdvancedType DEF IndInv, TypeOK
<1>b. posted[b][d] = 0 /\ d =< run[w].today /\ run[w].today =< day
  BY <1>0 DEF IndInv, IndexInv, RunInv
<1>c. d \in Nat /\ run[w].today \in Nat /\ day \in Nat
  BY <1>a, DuesAreDays, NumbersAssumption DEF IndInv, TypeOK
<1>1. /\ NextDue(b, d) \in Dues /\ b \in Bills /\ d \in Dues
      /\ posted[b][d] = 0 /\ d =< run[w].today /\ run[w].today =< day
      /\ d \in Nat /\ run[w].today \in Nat /\ day \in Nat /\ d =< MaxDay
  <2>1. day =< MaxDay /\ MaxDay \in Nat
    BY NumbersAssumption DEF IndInv, TypeOK
  <2>. QED
    BY <1>a, <1>b, <1>c, <2>1
<1>2. /\ posted' = [posted EXCEPT ![b][d] = posted[b][d] + 1]
      /\ tmpl' = [tmpl EXCEPT ![b].nextRun = NextDue(b, d)]
  BY DEF Commit
<1>. HIDE DEF b, d
<1>3. /\ posted'[b][d] = 1
      /\ \A c \in Bills, e \in Dues : ~ (c = b /\ e = d) => posted'[c][e] = posted[c][e]
      /\ posted' \in [Bills -> [Dues -> Nat]]
  BY <1>1, <1>2 DEF IndInv, TypeOK
<1>4. /\ \A c \in Bills : /\ tmpl'[c].exists = tmpl[c].exists
                          /\ tmpl'[c].active = tmpl[c].active
                          /\ tmpl'[c].nextRun = IF c = b THEN NextDue(b, d) ELSE tmpl[c].nextRun
      /\ tmpl' \in [Bills -> [exists : BOOLEAN, active : BOOLEAN, nextRun : Dues]]
  <2>1. tmpl \in [Bills -> [exists : BOOLEAN, active : BOOLEAN, nextRun : Dues]]
    BY DEF IndInv, TypeOK
  <2>2. tmpl' = [tmpl EXCEPT ![b] = [tmpl[b] EXCEPT !.nextRun = NextDue(b, d)]]
    BY <1>2, <2>1
  <2>. QED
    BY <2>1, <2>2, <1>1
<1>5. TypeOK'
  BY <1>0, <1>3, <1>4, AdvancedType DEF IndInv, TypeOK
<1>6. RunInv'
  BY <1>0, <1>a DEF IndInv, RunInv
<1>7. IndexInv'
  <2>1. ASSUME NEW v \in Workers, v # w
        PROVE  /\ run'[v] = run[v]
               /\ run[v].at = "posting" => ~ (run[v].bill = b /\ run[v].due = d)
    BY <1>0, <1>a, <2>1 DEF IndInv, IndexInv, b, d
  <2>2. ASSUME NEW v \in Workers, run[v].at \in {"posting", "dup"}
        PROVE  run[v].bill \in Bills /\ run[v].due \in Dues
    BY <2>2 DEF IndInv, RunInv, TypeOK
  <2>3. run'[w].at = "due"
    BY <1>a
  <2>. QED
    BY <2>1, <2>2, <2>3, <1>3 DEF IndInv, IndexInv
<1>8. StaleInv'
  <2>. SUFFICES ASSUME NEW v \in Workers, NEW c \in Bills, NEW e \in Dues, Carries(v, c, e)',
                       e =< run'[v].today, NEW a \in DueDays[c], since[c] =< a, a < e
                PROVE  posted'[c][a] > 0
    BY <1>0 DEF StaleInv, PostedBefore
  <2>0. a \in Dues /\ a \in Nat
    BY DuesAreDays
  <2>1. CASE v # w \/ run'[w].listed[c] = e
    <3>1. Carries(v, c, e) /\ run'[v].today = run[v].today
      BY <2>1, <1>a DEF Carries
    <3>2. posted[c][a] > 0
      BY <3>1 DEF IndInv, StaleInv, PostedBefore
    <3>. QED
      BY <3>2, <2>0, <1>3
  <2>2. CASE v = w /\ c = b /\ e = NextDue(b, d)
    <3>1. PostedBefore(b, d)
      BY <1>0, <1>1 DEF IndInv, StaleInv, Carries, b, d
    <3>2. a \in Int /\ ~ (d < a)
      <4>1. a \in DueDays[b] /\ a < NextDue(b, d) /\ NextDue(b, d) \in Nat
        BY <2>2, <1>1, DuesAreDays
      <4>. QED
        BY <4>1, <1>1, <2>0, NextDueFirst
    <3>3. CASE a = d
      BY <3>3, <2>0, <2>2, <1>3
    <3>4. CASE a < d
      BY <3>1, <3>4, <2>0, <2>2, <1>3 DEF PostedBefore
    <3>. QED
      BY <3>2, <3>3, <3>4, <2>0, <1>1
  <2>. QED
    BY <2>1, <2>2, <1>a DEF Carries
<1>9. ExistsInv'
  BY <1>0, <1>4 DEF IndInv, ExistsInv
<1>10. OncePerPeriod' /\ NeverEarly'
  BY <1>0, <1>1, <1>3 DEF IndInv, OncePerPeriod, NeverEarly
<1>11. NoPeriodPassedOver'
  <2>. SUFFICES ASSUME NEW c \in Bills, NEW a \in DueDays[c], since[c] =< a,
                       a < tmpl'[c].nextRun
                PROVE  posted'[c][a] > 0
    BY <1>0 DEF NoPeriodPassedOver
  <2>0. a \in Dues /\ a \in Nat
    BY DuesAreDays
  <2>1. CASE c # b
    BY <2>1, <2>0, <1>3, <1>4 DEF IndInv, NoPeriodPassedOver
  <2>2. CASE c = b
    <3>1. PostedBefore(b, d)
      BY <1>0, <1>1 DEF IndInv, StaleInv, Carries, b, d
    <3>2. a \in Int /\ ~ (d < a)
      <4>1. a \in DueDays[b] /\ a < NextDue(b, d) /\ NextDue(b, d) \in Nat
        BY <2>2, <1>1, <1>4, DuesAreDays
      <4>. QED
        BY <4>1, <1>1, <2>0, NextDueFirst
    <3>3. CASE a = d
      BY <3>3, <2>0, <2>2, <1>3
    <3>4. CASE a < d
      BY <3>1, <3>4, <2>0, <2>2, <1>3 DEF PostedBefore
    <3>. QED
      BY <3>2, <3>3, <3>4, <2>0, <1>1
  <2>. QED
    BY <2>1, <2>2
<1>12. FeedAlternates'
  BY <1>0, <1>4 DEF IndInv, FeedAlternates
<1>. QED
  BY <1>5, <1>6, <1>7, <1>8, <1>9, <1>10, <1>11, <1>12 DEF IndInv

LEMMA StepPastKeeps ==
  ASSUME IndInv, NEW w \in Workers, StepPast(w)
  PROVE  IndInv'
<1>. DEFINE b == run[w].bill
            d == run[w].due
<1>0. /\ run[w].at = "dup" /\ run' = [run EXCEPT ![w] = Advanced(w)]
      /\ UNCHANGED <<house, posted, feed, day, aborts, changes, since, skipped>>
      /\ tmpl' = [tmpl EXCEPT ![b].nextRun = IF @ = d THEN NextDue(b, d) ELSE @]
  BY DEF StepPast, Set, owner
<1>1. /\ run'[w].at = "due" /\ run'[w].due = NextDue(b, d) /\ NextDue(b, d) \in Dues
      /\ run'[w].bill = b /\ b \in Bills /\ d \in Dues
      /\ run'[w].listed = run[w].listed /\ run'[w].today = run[w].today
      /\ \A v \in Workers : v # w => run'[v] = run[v]
  BY <1>0, AdvancedType DEF IndInv, TypeOK
<1>2. posted[b][d] > 0 /\ PostedBefore(b, d)
  BY <1>0, <1>1 DEF IndInv, IndexInv, RunInv, StaleInv, Carries
<1>3. PostedBefore(b, NextDue(b, d))
  <2>1. d =< run[w].today /\ run[w].today \in 0..MaxDay
    BY <1>0 DEF IndInv, TypeOK, RunInv
  <2>2. d \in Nat /\ MaxDay \in Nat
    BY <1>1, DuesAreDays, NumbersAssumption
  <2>3. d =< MaxDay
    BY <2>1, <2>2
  <2>. QED
    BY <1>1, <1>2, <2>3, PostedPast
<1>. HIDE DEF b, d
<1>4. /\ \A c \in Bills : /\ tmpl'[c].exists = tmpl[c].exists
                          /\ tmpl'[c].active = tmpl[c].active
                          /\ \/ tmpl'[c].nextRun = tmpl[c].nextRun
                             \/ c = b /\ tmpl'[c].nextRun = NextDue(b, d)
      /\ tmpl' \in [Bills -> [exists : BOOLEAN, active : BOOLEAN, nextRun : Dues]]
  <2>1. tmpl \in [Bills -> [exists : BOOLEAN, active : BOOLEAN, nextRun : Dues]]
    BY DEF IndInv, TypeOK
  <2>2. PICK n \in Dues : /\ n = tmpl[b].nextRun \/ n = NextDue(b, d)
                          /\ tmpl' = [tmpl EXCEPT ![b] = [tmpl[b] EXCEPT !.nextRun = n]]
    BY <1>0, <1>1, <2>1
  <2>. QED
    BY <2>1, <2>2, <1>1
<1>5. TypeOK'
  BY <1>0, <1>4, AdvancedType DEF IndInv, TypeOK
<1>6. RunInv'
  BY <1>0, <1>1 DEF IndInv, RunInv
<1>7. IndexInv'
  BY <1>0, <1>1 DEF IndInv, IndexInv
<1>8. StaleInv'
  BY <1>0, <1>1, <1>3 DEF IndInv, StaleInv, Carries, PostedBefore
<1>9. ExistsInv'
  BY <1>0, <1>4 DEF IndInv, ExistsInv
<1>10. OncePerPeriod' /\ NeverEarly'
  BY <1>0 DEF IndInv, OncePerPeriod, NeverEarly
<1>11. NoPeriodPassedOver'
  BY <1>0, <1>3, <1>4 DEF IndInv, NoPeriodPassedOver, PostedBefore
<1>12. FeedAlternates'
  <2>1. feed' = feed /\ FeedAlternates
    BY <1>0 DEF IndInv
  <2>2. \A c \in Bills : tmpl'[c].exists = tmpl[c].exists /\ tmpl'[c].active = tmpl[c].active
    BY <1>4
  <2>. QED
    BY <2>1, <2>2 DEF FeedAlternates
<1>. QED
  BY <1>5, <1>6, <1>7, <1>8, <1>9, <1>10, <1>11, <1>12 DEF IndInv

(* The worker's pause: an event only if the template was active still. *)
LEMMA PauseBrokenKeeps ==
  ASSUME IndInv, NEW w \in Workers, PauseBroken(w)
  PROVE  IndInv'
<1>. DEFINE b == run[w].bill
<1>0. /\ run[w].at = "pause" /\ b \in Bills
      /\ run' = [run EXCEPT ![w] = [run[w] EXCEPT !.at = "list", !.bill = NoBill]]
      /\ tmpl' = [tmpl EXCEPT ![b].active = FALSE]
      /\ feed' = [feed EXCEPT ![b] = IF tmpl[b].active THEN Append(feed[b], "paused") ELSE feed[b]]
      /\ UNCHANGED <<house, posted, day, aborts, changes, since, skipped>>
  BY DEF PauseBroken, Set, owner, IndInv, RunInv, TypeOK
<1>1. /\ run'[w].at = "list" /\ run'[w].today = run[w].today
      /\ run'[w].listed = run[w].listed
      /\ \A v \in Workers : v # w => run'[v] = run[v]
  BY <1>0 DEF IndInv, TypeOK
<1>a. run' \in [Workers -> [at : Stages, listed : [Bills -> Dues \cup {NoRun}],
                     bill : Bills \cup {NoBill}, due : Dues, count : 0..CatchUp,
                     today : 0..MaxDay]]
  <2>1. run \in [Workers -> [at : Stages, listed : [Bills -> Dues \cup {NoRun}],
                     bill : Bills \cup {NoBill}, due : Dues, count : 0..CatchUp,
                     today : 0..MaxDay]]
    BY DEF IndInv, TypeOK
  <2>2. "list" \in Stages
    BY DEF Stages
  <2>. QED
    BY <1>0, <2>1, <2>2
<1>. HIDE DEF b
<1>2. /\ \A c \in Bills : /\ tmpl'[c].exists = tmpl[c].exists
                          /\ tmpl'[c].nextRun = tmpl[c].nextRun
                          /\ c # b => tmpl'[c] = tmpl[c] /\ feed'[c] = feed[c]
      /\ ~ tmpl'[b].active
      /\ tmpl' \in [Bills -> [exists : BOOLEAN, active : BOOLEAN, nextRun : Dues]]
  <2>1. tmpl \in [Bills -> [exists : BOOLEAN, active : BOOLEAN, nextRun : Dues]]
    BY DEF IndInv, TypeOK
  <2>2. feed \in [Bills -> Seq({"paused", "resumed"})]
    BY DEF IndInv, TypeOK
  <2>3. b \in Bills /\ tmpl' = [tmpl EXCEPT ![b].active = FALSE]
    BY <1>0
  <2>4. \A c \in Bills : c # b => feed'[c] = feed[c]
    BY <1>0, <2>2
  <2>5. tmpl' \in [Bills -> [exists : BOOLEAN, active : BOOLEAN, nextRun : Dues]]
    BY <2>1, <2>3
  <2>6. /\ \A c \in Bills : /\ tmpl'[c].exists = tmpl[c].exists
                            /\ tmpl'[c].nextRun = tmpl[c].nextRun
                            /\ c # b => tmpl'[c] = tmpl[c]
        /\ ~ tmpl'[b].active
    BY <2>1, <2>3
  <2>. QED
    BY <2>4, <2>5, <2>6
<1>3. feed[b] \in Seq({"paused", "resumed"})
  BY <1>0 DEF IndInv, TypeOK
<1>4. feed' \in [Bills -> Seq({"paused", "resumed"})]
  BY <1>0, <1>3, AppendType DEF IndInv, TypeOK
<1>5. TypeOK'
  BY <1>0, <1>a, <1>2, <1>4 DEF IndInv, TypeOK
<1>6. RunInv'
  BY <1>0, <1>1 DEF IndInv, RunInv
<1>7. IndexInv'
  BY <1>0, <1>1 DEF IndInv, IndexInv
<1>8. StaleInv'
  BY <1>0, <1>1 DEF IndInv, StaleInv, Carries, PostedBefore
<1>9. ExistsInv'
  <2>1. ASSUME NEW c \in Bills, ~ tmpl'[c].exists
        PROVE  ~ tmpl'[c].active /\ feed'[c] = <<>>
    <3>1. ~ tmpl[c].exists /\ ~ tmpl[c].active /\ feed[c] = <<>>
      BY <1>2, <2>1 DEF IndInv, ExistsInv
    <3>2. CASE c = b
      BY <3>1, <3>2, <1>0, <1>2 DEF IndInv, TypeOK
    <3>3. CASE c # b
      BY <3>1, <3>3, <1>2
    <3>. QED
      BY <3>2, <3>3
  <2>. QED
    BY <2>1 DEF ExistsInv
<1>10. OncePerPeriod' /\ NeverEarly'
  BY <1>0 DEF IndInv, OncePerPeriod, NeverEarly
<1>11. NoPeriodPassedOver'
  BY <1>0, <1>2 DEF IndInv, NoPeriodPassedOver
<1>12. FeedAlternates'
  <2>1. ASSUME NEW c \in Bills
        PROVE  /\ Alternates(feed'[c])
               /\ tmpl'[c].exists => (tmpl'[c].active <=> Len(feed'[c]) % 2 = 0)
    <3>1. /\ Alternates(feed[c])
          /\ tmpl[c].exists => (tmpl[c].active <=> Len(feed[c]) % 2 = 0)
      BY DEF IndInv, FeedAlternates, Alternates
    <3>2. CASE c = b /\ tmpl[b].active
      <4>1. tmpl[b].exists
        BY <1>0, <3>2 DEF IndInv, ExistsInv
      <4>2. Len(feed[b]) % 2 = 0
        BY <3>1, <3>2, <4>1
      <4>3. feed'[b] = Append(feed[b], "paused")
        BY <1>0, <3>2 DEF IndInv, TypeOK
      <4>4. Alternates(feed'[b]) /\ Len(feed'[b]) % 2 # 0
        BY <3>1, <3>2, <4>2, <4>3, <1>3, AppendAlternates
      <4>. QED
        BY <4>4, <1>2, <3>2
    <3>3. CASE c = b /\ ~ tmpl[b].active
      <4>1. feed'[b] = feed[b]
        BY <1>0, <3>3 DEF IndInv, TypeOK
      <4>2. tmpl'[c].exists => tmpl[c].exists
        BY <1>0, <1>2, <3>3
      <4>. QED
        BY <3>1, <3>3, <4>1, <4>2, <1>2
    <3>4. CASE c # b
      BY <3>1, <3>4, <1>2
    <3>. QED
      BY <3>2, <3>3, <3>4
  <2>. QED
    BY <2>1 DEF FeedAlternates, Alternates
<1>. QED
  BY <1>5, <1>6, <1>7, <1>8, <1>9, <1>10, <1>11, <1>12 DEF IndInv

-----------------------------------------------------------------------------
LEMMA InitHolds == Init => IndInv
<1>. SUFFICES ASSUME Init PROVE IndInv
  OBVIOUS
<1>1. 0 \in Dues /\ 0 \in 0..MaxDay
  BY NumbersAssumption DEF Dues
<1>2. TypeOK
  BY <1>1, IdleType, NumbersAssumption DEF Init, TypeOK
<1>3. RunInv /\ IndexInv
  BY IdleType DEF Init, RunInv, IndexInv
<1>4. StaleInv
  BY IdleType DEF Init, StaleInv, Carries
<1>5. ExistsInv /\ OncePerPeriod /\ NeverEarly
  BY DEF Init, ExistsInv, OncePerPeriod, NeverEarly
<1>6. NoPeriodPassedOver
  BY DuesAreDays DEF Init, NoPeriodPassedOver
<1>7. FeedAlternates
  BY DEF Init, FeedAlternates
<1>. QED
  BY <1>2, <1>3, <1>4, <1>5, <1>6, <1>7 DEF IndInv

LEMMA StepKeeps == IndInv /\ [Next]_vars => IndInv'
<1>. SUFFICES ASSUME IndInv, [Next]_vars PROVE IndInv'
  OBVIOUS
<1>1. ASSUME NEW w \in Workers, Work(w)
      PROVE  IndInv'
  <2>1. CASE Scan(w)
    BY <2>1, ScanKeeps
  <2>2. CASE Take(w)
    BY <2>2, TakeKeeps
  <2>3. CASE EndRun(w)
    BY <2>3, StopKeeps DEF EndRun, IndInv, TypeOK
  <2>4. CASE LeaveBill(w)
    BY <2>4, LeaveBillKeeps
  <2>5. CASE Insert(w)
    BY <2>5, InsertKeeps
  <2>6. CASE Commit(w)
    BY <2>6, CommitKeeps
  <2>7. CASE StepPast(w)
    BY <2>7, StepPastKeeps
  <2>8. CASE PauseBroken(w)
    BY <2>8, PauseBrokenKeeps
  <2>. QED
    BY <1>1, <2>1, <2>2, <2>3, <2>4, <2>5, <2>6, <2>7, <2>8 DEF Work
<1>2. ASSUME NEW w \in Workers, Abort(w)
      PROVE  IndInv'
  <2>1. aborts' \in 0..MaxAborts
    BY <1>2, NumbersAssumption DEF Abort, IndInv, TypeOK
  <2>. QED
    BY <1>2, <2>1, StopKeeps DEF Abort
<1>3. ASSUME NEW b \in Bills, Create(b) \/ Pause(b) \/ Resume(b) \/ ChangeHouse(b)
      PROVE  IndInv'
  BY <1>3, CreateKeeps, PauseKeeps, ResumeKeeps, ChangeHouseKeeps
<1>4. CASE Tick
  BY <1>4, TickKeeps
<1>5. CASE UNCHANGED vars
  BY <1>5 DEF vars, IndInv, TypeOK, RunInv, IndexInv, StaleInv, Carries, PostedBefore, ExistsInv,
              OncePerPeriod, NeverEarly, NoPeriodPassedOver, FeedAlternates
<1>. QED
  BY <1>1, <1>2, <1>3, <1>4, <1>5 DEF Next

LEMMA Invariance == Spec => []IndInv
BY InitHolds, StepKeeps, PTL DEF Spec

(* The state of templates, feed and runs is well typed. *)
THEOREM TypeCorrect == Spec => []TypeOK
<1>1. IndInv => TypeOK
  BY DEF IndInv
<1>. QED
  BY <1>1, Invariance, PTL

(* No number of workers posts a bill's period twice (H4). *)
THEOREM PostedOnce == Spec => []OncePerPeriod
<1>1. IndInv => OncePerPeriod
  BY DEF IndInv
<1>. QED
  BY <1>1, Invariance, PTL

(* No run, however it reads the day, posts before the due date (H5). *)
THEOREM NotEarly == Spec => []NeverEarly
<1>1. IndInv => NeverEarly
  BY DEF IndInv
<1>. QED
  BY <1>1, Invariance, PTL

(* next_run passes over no unposted period, though runs with stale lists   *)
(* write it by id alone.                                                   *)
THEOREM NonePassedOver == Spec => []NoPeriodPassedOver
<1>1. IndInv => NoPeriodPassedOver
  BY DEF IndInv
<1>. QED
  BY <1>1, Invariance, PTL

(* Pauses and resumptions alternate in the feed, whoever makes them. *)
THEOREM FeedTruthful == Spec => []FeedAlternates
<1>1. IndInv => FeedAlternates
  BY DEF IndInv
<1>. QED
  BY <1>1, Invariance, PTL

-----------------------------------------------------------------------------
(* The calendar of schedule.ts.  Days are numbered from the first of       *)
(* January of year 1; Schedule's dates are digits, so every fact about     *)
(* "the next day" or "the same weekday" goes through a date's number.      *)

(* Days before a month in its year, and before a year by leap days.        *)
Before(m)     == <<0, 31, 59, 90, 120, 151, 181, 212, 243, 273, 304, 334>>[m]
Leaps(y)      == y \div 4 - y \div 100 + y \div 400
LeapDay(y, m) == IF m > 2 /\ IsLeap(y) THEN 1 ELSE 0

(* The number of the day before a month's first. *)
MonthStart(y, m) == 365 * (y - 1) + Leaps(y - 1) + Before(m) + LeapDay(y, m)

(* Digits that are a day of the calendar. *)
IsDate(iso) == /\ iso \in Int /\ Month(iso) \in 1..12
               /\ Day(iso) \in 1..DaysInMonth(Year(iso), Month(iso))

DayNumber(iso) == MonthStart(Year(iso), Month(iso)) + Day(iso)

(* toISO, taken apart again. *)
LEMMA Fields ==
  ASSUME NEW y \in Int, NEW m \in 1..12, NEW d \in 1..31
  PROVE  /\ ToISO(y, m, d) \in Int
         /\ Year(ToISO(y, m, d)) = y /\ Month(ToISO(y, m, d)) = m /\ Day(ToISO(y, m, d)) = d
<1>1. \A q, r \in Int : 0 =< r /\ r < 10000 => (q * 10000 + r) \div 10000 = q
  BY SMTT(30)
<1>2. \A q, r \in Int : 0 =< r /\ r < 100 => (q * 100 + r) \div 100 = q /\ (q * 100 + r) % 100 = r
  BY SMTT(30)
<1>3. /\ ToISO(y, m, d) = y * 10000 + (m * 100 + d)
      /\ m * 100 + d \in Int /\ 0 =< m * 100 + d /\ m * 100 + d < 10000
  BY DEF ToISO
<1>4. /\ ToISO(y, m, d) = (y * 100 + m) * 100 + d /\ y * 100 + m \in Int
      /\ d \in Int /\ 0 =< d /\ d < 100 /\ m \in Int /\ 0 =< m /\ m < 100
  BY DEF ToISO
<1>5. Year(ToISO(y, m, d)) = y
  BY <1>1, <1>3, SMTT(30) DEF Year
<1>6. ToISO(y, m, d) \div 100 = y * 100 + m /\ Day(ToISO(y, m, d)) = d
  BY <1>2, <1>4, SMTT(30) DEF Day
<1>7. Month(ToISO(y, m, d)) = m
  BY <1>2, <1>4, <1>6, SMTT(30) DEF Month
<1>8. ToISO(y, m, d) \in Int
  BY <1>3
<1>. QED
  BY <1>5, <1>6, <1>7, <1>8

LEMMA DateOfFields ==
  ASSUME NEW a \in Int
  PROVE  Year(a) \in Int /\ Month(a) \in 0..99 /\ Day(a) \in 0..99 /\ a = ToISO(Year(a), Month(a), Day(a))
BY SMTT(30) DEF ToISO, Year, Month, Day

LEMMA MonthLength ==
  ASSUME NEW y \in Int, NEW m \in 1..12
  PROVE  DaysInMonth(y, m) \in 28..31
BY DEF DaysInMonth

(* addMonths, by the steps the code takes. *)
LEMMA Months ==
  ASSUME NEW y \in Int, NEW m \in 1..12
  PROVE  /\ AddMonths(y, m, 0) = <<y, m>>
         /\ AddMonths(y, m, 1) = IF m = 12 THEN <<y + 1, 1>> ELSE <<y, m + 1>>
         /\ AddMonths(y, m, -1) = IF m = 1 THEN <<y - 1, 12>> ELSE <<y, m - 1>>
BY DEF AddMonths

(* isLeapYear is what adds a day to the years before. *)
LEMMA LeapYear ==
  ASSUME NEW y \in Int
  PROVE  /\ Leaps(y) \in Int
         /\ Leaps(y) = Leaps(y - 1) + (IF IsLeap(y) THEN 1 ELSE 0)
BY DEF Leaps, IsLeap

(* A month begins where the one before it ends. *)
LEMMA MonthStarts ==
  ASSUME NEW y \in Int, NEW m \in 1..12
  PROVE  /\ MonthStart(y, m) \in Int
         /\ m < 12 => MonthStart(y, m + 1) = MonthStart(y, m) + DaysInMonth(y, m)
         /\ MonthStart(y + 1, 1) = MonthStart(y, 12) + 31
<1>1. Leaps(y - 1) \in Int
  BY LeapYear
<1>. QED
  BY <1>1, LeapYear DEF MonthStart, Before, LeapDay, DaysInMonth

(* Dates *)

LEMMA MakeDate ==
  ASSUME NEW y \in Int, NEW m \in 1..12, NEW d \in 1..DaysInMonth(y, m)
  PROVE  /\ IsDate(ToISO(y, m, d)) /\ DayNumber(ToISO(y, m, d)) = MonthStart(y, m) + d
         /\ Year(ToISO(y, m, d)) = y /\ Month(ToISO(y, m, d)) = m /\ Day(ToISO(y, m, d)) = d
<1>1. d \in 1..31
  BY MonthLength
<1>. QED
  BY <1>1, Fields DEF IsDate, DayNumber

LEMMA DateFields ==
  ASSUME NEW a, IsDate(a)
  PROVE  /\ a \in Int /\ Year(a) \in Int /\ Month(a) \in 1..12
         /\ Day(a) \in 1..DaysInMonth(Year(a), Month(a)) /\ Day(a) \in 1..31
         /\ a = ToISO(Year(a), Month(a), Day(a))
         /\ MonthStart(Year(a), Month(a)) \in Int /\ DayNumber(a) \in Int
<1>1. /\ a \in Int /\ Month(a) \in 1..12
      /\ Day(a) \in 1..DaysInMonth(Year(a), Month(a))
  BY DEF IsDate
<1>2. Year(a) \in Int /\ a = ToISO(Year(a), Month(a), Day(a))
  BY <1>1, DateOfFields
<1>3. Day(a) \in 1..31
  BY <1>1, <1>2, MonthLength
<1>4. MonthStart(Year(a), Month(a)) \in Int
  BY <1>1, <1>2, MonthStarts
<1>. QED
  BY <1>1, <1>2, <1>3, <1>4 DEF DayNumber

(* The days are numbered without a gap: isoAddDays adds to the number. *)
LEMMA AddDays ==
  ASSUME NEW a, IsDate(a), NEW k \in -27..28
  PROVE  /\ IsDate(IsoAddDays(a, k))
         /\ DayNumber(IsoAddDays(a, k)) = DayNumber(a) + k
<1>. DEFINE y == Year(a)
            m == Month(a)
            d == Day(a) + k
            prev == AddMonths(y, m, -1)
            next == AddMonths(y, m, 1)
<1>1. /\ y \in Int /\ m \in 1..12 /\ Day(a) \in 1..DaysInMonth(y, m)
      /\ DayNumber(a) = MonthStart(y, m) + Day(a) /\ d \in Int
      /\ DaysInMonth(y, m) \in 28..31 /\ MonthStart(y, m) \in Int
  BY DateFields, MonthLength DEF DayNumber
<1>2. IsoAddDays(a, k) = IF d < 1 THEN ToISO(prev[1], prev[2], DaysInMonth(prev[1], prev[2]) + d)
                         ELSE IF d > DaysInMonth(y, m)
                         THEN ToISO(next[1], next[2], d - DaysInMonth(y, m))
                         ELSE ToISO(y, m, d)
  BY DEF IsoAddDays
<1>3. /\ prev[1] \in Int /\ prev[2] \in 1..12 /\ DaysInMonth(prev[1], prev[2]) \in 28..31
      /\ MonthStart(y, m) = MonthStart(prev[1], prev[2]) + DaysInMonth(prev[1], prev[2])
      /\ MonthStart(prev[1], prev[2]) \in Int
  <2>1. prev = IF m = 1 THEN <<y - 1, 12>> ELSE <<y, m - 1>>
    BY <1>1, Months
  <2>2. CASE m = 1
    <3>1. y - 1 \in Int /\ (y - 1) + 1 = y /\ 12 \in 1..12
      BY <1>1
    <3>2. MonthStart(y, 1) = MonthStart(y - 1, 12) + 31
      BY <3>1, MonthStarts
    <3>3. DaysInMonth(y - 1, 12) = 31
      BY DEF DaysInMonth
    <3>4. MonthStart(y - 1, 12) \in Int
      BY <3>1, MonthStarts
    <3>. QED
      BY <2>1, <2>2, <3>1, <3>2, <3>3, <3>4
  <2>3. CASE m # 1
    <3>1. m - 1 \in 1..12 /\ (m - 1) + 1 = m /\ m - 1 < 12
      BY <1>1, <2>3
    <3>2. /\ MonthStart(y, m - 1) \in Int
          /\ MonthStart(y, m) = MonthStart(y, m - 1) + DaysInMonth(y, m - 1)
      BY <1>1, <3>1, MonthStarts
    <3>3. DaysInMonth(y, m - 1) \in 28..31
      BY <1>1, <3>1, MonthLength
    <3>. QED
      BY <1>1, <2>1, <2>3, <3>1, <3>2, <3>3
  <2>. QED
    BY <2>2, <2>3
<1>4. /\ next[1] \in Int /\ next[2] \in 1..12 /\ DaysInMonth(next[1], next[2]) \in 28..31
      /\ MonthStart(next[1], next[2]) = MonthStart(y, m) + DaysInMonth(y, m)
  <2>1. next = IF m = 12 THEN <<y + 1, 1>> ELSE <<y, m + 1>>
    BY <1>1, Months
  <2>2. CASE m = 12
    <3>1. MonthStart(y + 1, 1) = MonthStart(y, 12) + 31 /\ y + 1 \in Int /\ 1 \in 1..12
      <4>. HIDE DEF y, m
      <4>. QED
        BY <1>1, MonthStarts
    <3>2. DaysInMonth(y, 12) = 31 /\ DaysInMonth(y + 1, 1) = 31
      BY DEF DaysInMonth
    <3>3. next[1] = y + 1 /\ next[2] = 1
      BY <2>1, <2>2
    <3>4. 31 \in 28..31
      OBVIOUS
    <3>. HIDE DEF y, m, next
    <3>. QED
      BY <2>2, <3>1, <3>2, <3>3, <3>4
  <2>3. CASE m # 12
    <3>1. m + 1 \in 1..12 /\ m < 12
      BY <1>1, <2>3
    <3>2. MonthStart(y, m + 1) = MonthStart(y, m) + DaysInMonth(y, m)
      BY <1>1, <3>1, MonthStarts
    <3>3. DaysInMonth(y, m + 1) \in 28..31
      BY <1>1, <3>1, MonthLength
    <3>. QED
      BY <1>1, <2>1, <2>3, <3>1, <3>2, <3>3
  <2>. QED
    BY <2>2, <2>3
<1>. HIDE DEF y, m, d, prev, next
<1>d. d = Day(a) + k
  BY DEF d
<1>5. CASE d < 1
  <2>1. DaysInMonth(prev[1], prev[2]) + d \in 1..DaysInMonth(prev[1], prev[2])
    BY <1>1, <1>3, <1>5, <1>d
  <2>2. /\ IsDate(IsoAddDays(a, k))
        /\ DayNumber(IsoAddDays(a, k)) = MonthStart(prev[1], prev[2]) + (DaysInMonth(prev[1], prev[2]) + d)
    BY <1>2, <1>3, <1>5, <2>1, MakeDate
  <2>. QED
    BY <1>1, <1>3, <1>d, <2>2
<1>6. CASE d > DaysInMonth(y, m)
  <2>1. d - DaysInMonth(y, m) \in 1..DaysInMonth(next[1], next[2]) /\ ~ (d < 1)
    BY <1>1, <1>4, <1>6, <1>d
  <2>2. /\ IsDate(IsoAddDays(a, k))
        /\ DayNumber(IsoAddDays(a, k)) = MonthStart(next[1], next[2]) + (d - DaysInMonth(y, m))
    BY <1>2, <1>4, <1>6, <2>1, MakeDate
  <2>. QED
    BY <1>1, <1>4, <1>d, <2>2
<1>7. CASE ~ (d < 1) /\ ~ (d > DaysInMonth(y, m))
  <2>1. d \in 1..DaysInMonth(y, m)
    BY <1>1, <1>7
  <2>2. IsDate(IsoAddDays(a, k)) /\ DayNumber(IsoAddDays(a, k)) = MonthStart(y, m) + d
    BY <1>1, <1>2, <1>7, <2>1, MakeDate
  <2>. QED
    BY <1>1, <1>d, <2>2
<1>. QED
  BY <1>5, <1>6, <1>7

(* Leap years only add up: by centuries, and by years within one. *)
LEMMA LeapsGrow ==
  ASSUME NEW p \in Int, NEW q \in Int, p =< q
  PROVE  Leaps(p) =< Leaps(q)
<1>1. ASSUME NEW x \in Int
      PROVE  /\ x \div 100 \in Int /\ x % 100 \in 0..99 /\ x = 100 * (x \div 100) + (x % 100)
             /\ Leaps(x) = 24 * (x \div 100) + (x \div 100) \div 4 + (x % 100) \div 4
  <2>1. x \div 100 \in Int /\ x % 100 \in 0..99 /\ x = 100 * (x \div 100) + (x % 100)
    OBVIOUS
  <2>2. x \div 4 = 25 * (x \div 100) + (x % 100) \div 4
    <3>1. PICK u \in Int, v \in 0..3 : x % 100 = 4 * u + v /\ (x % 100) \div 4 = u
      BY <2>1
    <3>2. x = 4 * (25 * (x \div 100) + u) + v
      BY <2>1, <3>1
    <3>3. 25 * (x \div 100) + u \in Int
      BY <2>1
    <3>4. \A n \in Int : (4 * n + v) \div 4 = n
      OBVIOUS
    <3>5. x \div 4 = 25 * (x \div 100) + u
      BY <3>2, <3>3, <3>4
    <3>. QED
      BY <3>1, <3>5
  <2>3. x \div 400 = (x \div 100) \div 4
    OBVIOUS
  <2>4. (x \div 100) \div 4 \in Int /\ (x % 100) \div 4 \in Int
    BY <2>1
  <2>. QED
    BY <2>1, <2>2, <2>3, <2>4 DEF Leaps
<1>2. ASSUME NEW c \in Int, NEW e \in Int, NEW r \in 0..99, NEW s \in 0..99,
             100 * c + r =< 100 * e + s
      PROVE  24 * c + c \div 4 + r \div 4 =< 24 * e + e \div 4 + s \div 4
  <2>1. (c = e /\ r =< s) \/ c + 1 =< e
    BY <1>2
  <2>2. r \div 4 \in 0..24 /\ s \div 4 \in 0..24 /\ c \div 4 \in Int /\ e \div 4 \in Int
    OBVIOUS
  <2>3. c =< e => c \div 4 =< e \div 4
    OBVIOUS
  <2>4. r =< s => r \div 4 =< s \div 4
    OBVIOUS
  <2>. QED
    BY <2>1, <2>2, <2>3, <2>4
<1>3. Leaps(p) = 24 * (p \div 100) + (p \div 100) \div 4 + (p % 100) \div 4
  BY <1>1
<1>4. Leaps(q) = 24 * (q \div 100) + (q \div 100) \div 4 + (q % 100) \div 4
  BY <1>1
<1>5. /\ p \div 100 \in Int /\ p % 100 \in 0..99 /\ q \div 100 \in Int /\ q % 100 \in 0..99
      /\ 100 * (p \div 100) + (p % 100) =< 100 * (q \div 100) + (q % 100)
  BY <1>1
<1>6. 24 * (p \div 100) + (p \div 100) \div 4 + (p % 100) \div 4
        =< 24 * (q \div 100) + (q \div 100) \div 4 + (q % 100) \div 4
  <2>. DEFINE c == p \div 100
              e == q \div 100
              r == p % 100
              s == q % 100
  <2>1. /\ c \in Int /\ e \in Int /\ r \in 0..99 /\ s \in 0..99
        /\ 100 * c + r =< 100 * e + s
    BY <1>5
  <2>. HIDE DEF c, e, r, s
  <2>2. 24 * c + c \div 4 + r \div 4 =< 24 * e + e \div 4 + s \div 4
    BY <1>2, <2>1
  <2>. QED
    BY <2>2 DEF c, e, r, s
<1>. QED
  BY <1>3, <1>4, <1>6

(* A later month begins after the days of an earlier one. *)
LEMMA MonthsInOrder ==
  ASSUME NEW y \in Int, NEW m \in 1..12, NEW z \in Int, NEW n \in 1..12,
         y < z \/ (y = z /\ m < n)
  PROVE  MonthStart(y, m) + DaysInMonth(y, m) =< MonthStart(z, n)
<1>. DEFINE Y(x) == 365 * x + Leaps(x)
<1>1. \A x \in Int : Leaps(x) \in Int /\ Y(x) \in Int
  BY LeapYear
<1>2. ASSUME NEW w \in Int, NEW j \in 1..12
      PROVE  Y(w - 1) =< MonthStart(w, j) /\ MonthStart(w, j) + DaysInMonth(w, j) =< Y(w)
  <2>1. Leaps(w) = Leaps(w - 1) + (IF IsLeap(w) THEN 1 ELSE 0) /\ Leaps(w - 1) \in Int
    BY LeapYear
  <2>. QED
    BY <2>1 DEF MonthStart, Before, LeapDay, DaysInMonth
<1>3. CASE y < z
  <2>1. Leaps(y) =< Leaps(z - 1)
    BY <1>3, LeapsGrow
  <2>2. Y(y) =< Y(z - 1)
    <3>1. y =< z - 1 /\ z - 1 \in Int
      BY <1>3
    <3>2. Leaps(y) \in Int /\ Leaps(z - 1) \in Int
      BY <1>1, <3>1
    <3>. QED
      BY <2>1, <3>1, <3>2
  <2>3. MonthStart(y, m) + DaysInMonth(y, m) =< Y(y) /\ Y(z - 1) =< MonthStart(z, n)
    <3>. HIDE DEF Y
    <3>. QED
      BY <1>2
  <2>4. /\ Y(y) \in Int /\ Y(z - 1) \in Int /\ MonthStart(y, m) \in Int /\ MonthStart(z, n) \in Int
        /\ DaysInMonth(y, m) \in Int
    <3>1. Y(y) \in Int /\ Y(z - 1) \in Int
      BY <1>1
    <3>2. MonthStart(y, m) \in Int /\ MonthStart(z, n) \in Int
      BY MonthStarts
    <3>3. DaysInMonth(y, m) \in Int
      BY MonthLength
    <3>. QED
      BY <3>1, <3>2, <3>3
  <2>. HIDE DEF Y
  <2>. QED
    BY <2>2, <2>3, <2>4
<1>4. CASE y = z /\ m < n
  <2>1. Leaps(y - 1) \in Int
    BY LeapYear
  <2>. QED
    BY <1>4, <2>1 DEF MonthStart, Before, LeapDay, DaysInMonth
<1>. QED
  BY <1>3, <1>4

(* ISO dates are ordered as the days they name. *)
LEMMA DatesInOrder ==
  ASSUME NEW a, NEW b, IsDate(a), IsDate(b)
  PROVE  /\ a < b <=> DayNumber(a) < DayNumber(b)
         /\ a = b <=> DayNumber(a) = DayNumber(b)
<1>1. ASSUME NEW p, NEW q, IsDate(p), IsDate(q), p < q
      PROVE  DayNumber(p) < DayNumber(q)
  <2>1. /\ Year(p) \in Int /\ Month(p) \in 1..12 /\ Day(p) \in 1..31
        /\ Day(p) =< DaysInMonth(Year(p), Month(p))
        /\ p = ToISO(Year(p), Month(p), Day(p)) /\ MonthStart(Year(p), Month(p)) \in Int
    BY <1>1, DateFields
  <2>2. /\ Year(q) \in Int /\ Month(q) \in 1..12 /\ Day(q) \in 1..31
        /\ q = ToISO(Year(q), Month(q), Day(q)) /\ MonthStart(Year(q), Month(q)) \in Int
    BY <1>1, DateFields
  <2>3. \/ Year(p) < Year(q) \/ (Year(p) = Year(q) /\ Month(p) < Month(q))
        \/ Year(p) = Year(q) /\ Month(p) = Month(q) /\ Day(p) < Day(q)
    <3>. HIDE DEF IsDate
    <3>1. /\ p = Year(p) * 10000 + Month(p) * 100 + Day(p)
          /\ q = Year(q) * 10000 + Month(q) * 100 + Day(q)
      BY <2>1, <2>2 DEF ToISO
    <3>. DEFINE y == Year(p)
                m == Month(p)
                d == Day(p)
                z == Year(q)
                n == Month(q)
                e == Day(q)
    <3>2. /\ y \in Int /\ m \in 1..12 /\ d \in 1..31 /\ z \in Int /\ n \in 1..12 /\ e \in 1..31
          /\ y * 10000 + m * 100 + d < z * 10000 + n * 100 + e
      BY <1>1, <2>1, <2>2, <3>1
    <3>. HIDE DEF y, m, d, z, n, e
    <3>3. m * 100 + d \in 101..1231 /\ n * 100 + e \in 101..1231
      BY <3>2
    <3>4. y =< z /\ (y = z => m * 100 + d < n * 100 + e)
      BY <3>2, <3>3
    <3>5. m * 100 + d < n * 100 + e => m < n \/ (m = n /\ d < e)
      BY <3>2
    <3>6. y < z \/ (y = z /\ m < n) \/ (y = z /\ m = n /\ d < e)
      BY <3>2, <3>4, <3>5
    <3>. QED
      BY <3>6 DEF y, m, d, z, n, e
  <2>4. CASE Year(p) < Year(q) \/ (Year(p) = Year(q) /\ Month(p) < Month(q))
    <3>1. MonthStart(Year(p), Month(p)) + DaysInMonth(Year(p), Month(p)) =< MonthStart(Year(q), Month(q))
      BY <2>1, <2>2, <2>4, MonthsInOrder
    <3>2. DaysInMonth(Year(p), Month(p)) \in Int
      BY <2>1, MonthLength
    <3>. QED
      BY <2>1, <2>2, <3>1, <3>2 DEF DayNumber
  <2>5. CASE Year(p) = Year(q) /\ Month(p) = Month(q) /\ Day(p) < Day(q)
    BY <2>1, <2>2, <2>5 DEF DayNumber
  <2>. QED
    BY <2>3, <2>4, <2>5
<1>2. a \in Int /\ b \in Int /\ DayNumber(a) \in Int /\ DayNumber(b) \in Int
  BY DateFields
<1>3. a < b => DayNumber(a) < DayNumber(b)
  BY <1>1
<1>4. b < a => DayNumber(b) < DayNumber(a)
  BY <1>1
<1>. QED
  BY <1>2, <1>3, <1>4

(* The weekday is the number's remainder by seven. *)
LEMMA WeekdayIs ==
  ASSUME NEW a, IsDate(a)
  PROVE  Weekday(a) = DayNumber(a) % 7
<1>1. Year(a) \in Int /\ Month(a) \in 1..12 /\ Day(a) \in Int
  BY DateFields
<1>2. Leaps(Year(a) - 1) \in Int
  BY <1>1, LeapYear
<1>. DEFINE y == Year(a) - 1
            leap == IF Month(a) > 2 /\ IsLeap(Year(a)) THEN 1 ELSE 0
<1>3. Weekday(a) = (365 * y + y \div 4 - y \div 100 + y \div 400 + Before(Month(a)) + leap + Day(a)) % 7
  BY DEF Weekday, Before
<1>4. DayNumber(a) = 365 * y + (y \div 4 - y \div 100 + y \div 400) + Before(Month(a)) + leap + Day(a)
  BY DEF DayNumber, MonthStart, Leaps, LeapDay
<1>5. y \div 4 \in Int /\ y \div 100 \in Int /\ y \div 400 \in Int /\ y \in Int /\ leap \in Int
  BY <1>1
<1>6. Before(Month(a)) \in Int
  BY <1>1 DEF Before
<1>7. \A p, q, r, s, t, u, v \in Int : p + q - r + s + t + u + v = p + (q - r + s) + t + u + v
  OBVIOUS
<1>. HIDE DEF y, leap
<1>8. 365 * y \in Int
  BY <1>5
<1>. QED
  BY <1>1, <1>3, <1>4, <1>5, <1>6, <1>7, <1>8

-----------------------------------------------------------------------------
(* The search of nextDueDate *)

LEMMA ScheduleKinds ==
  ASSUME NEW s \in Schedules
  PROVE  \/ s.cadence = "monthly" /\ s.day \in 1..31 \cup {Last}
         \/ s.cadence = "weekly" /\ s.day \in 0..6
BY ScheduleAssumption

(* A monthly schedule has one due day in each month, the clamped one. *)
LEMMA DueOfMonth ==
  ASSUME NEW s \in Schedules, s.cadence = "monthly", NEW y \in Int, NEW m \in 1..12
  PROVE  /\ IsDate(DueIn(s, y, m)) /\ Year(DueIn(s, y, m)) = y /\ Month(DueIn(s, y, m)) = m
         /\ IsDueDay(s, DueIn(s, y, m))
<1>. DEFINE dim == DaysInMonth(y, m)
            d == IF s.day = Last \/ s.day > dim THEN dim ELSE s.day
<1>1. dim \in 28..31
  BY MonthLength
<1>2. s.day \in 1..31 \cup {Last} /\ Last \notin Int
  BY ScheduleKinds, ScheduleAssumption
<1>3. d \in 1..dim
  BY <1>1, <1>2
<1>4. DueIn(s, y, m) = ToISO(y, m, d)
  BY DEF DueIn
<1>5. /\ IsDate(DueIn(s, y, m)) /\ Year(DueIn(s, y, m)) = y
      /\ Month(DueIn(s, y, m)) = m /\ Day(DueIn(s, y, m)) = d
  <2>. HIDE DEF d
  <2>. QED
    BY <1>3, <1>4, MakeDate
<1>6. d = s.day \/ (d = dim /\ (s.day = Last \/ s.day \in (dim + 1)..31))
  BY <1>1, <1>2
<1>. QED
  BY <1>5, <1>6 DEF IsDueDay

LEMMA OneDueDayAMonth ==
  ASSUME NEW s \in Schedules, s.cadence = "monthly", NEW x, IsDate(x), IsDueDay(s, x)
  PROVE  x = DueIn(s, Year(x), Month(x))
<1>. DEFINE dim == DaysInMonth(Year(x), Month(x))
<1>1. /\ Day(x) \in 1..dim /\ x = ToISO(Year(x), Month(x), Day(x)) /\ dim \in 28..31
  BY DateFields, MonthLength
<1>2. s.day \in 1..31 \cup {Last} /\ Last \notin Int
  BY ScheduleKinds, ScheduleAssumption
<1>3. Day(x) = s.day \/ (Day(x) = dim /\ (s.day = Last \/ s.day \in (dim + 1)..31))
  BY DEF IsDueDay
<1>4. Day(x) = IF s.day = Last \/ s.day > dim THEN dim ELSE s.day
  <2>. HIDE DEF dim
  <2>. QED
    BY <1>1, <1>2, <1>3
<1>. QED
  BY <1>1, <1>4 DEF DueIn

(* A date of a later month is later; one between two dates is in a month   *)
(* between theirs.                                                         *)
LEMMA LaterMonth ==
  ASSUME NEW a, NEW b, IsDate(a), IsDate(b),
         Year(a) < Year(b) \/ (Year(a) = Year(b) /\ Month(a) < Month(b))
  PROVE  a < b
<1>1. /\ Year(a) \in Int /\ Month(a) \in 1..12 /\ Year(b) \in Int /\ Month(b) \in 1..12
      /\ DayNumber(a) = MonthStart(Year(a), Month(a)) + Day(a)
      /\ DayNumber(b) = MonthStart(Year(b), Month(b)) + Day(b)
      /\ Day(a) \in Int /\ Day(a) =< DaysInMonth(Year(a), Month(a)) /\ Day(b) \in 1..31
      /\ MonthStart(Year(a), Month(a)) \in Int /\ MonthStart(Year(b), Month(b)) \in Int
  BY DateFields DEF DayNumber
<1>2. MonthStart(Year(a), Month(a)) + DaysInMonth(Year(a), Month(a)) =< MonthStart(Year(b), Month(b))
  BY <1>1, MonthsInOrder
<1>3. DaysInMonth(Year(a), Month(a)) \in Int
  BY <1>1, MonthLength
<1>4. DayNumber(a) < DayNumber(b)
  BY <1>1, <1>2, <1>3
<1>. QED
  BY <1>4, DatesInOrder

(* n is the first due day after a. *)
FirstDueAfter(s, a, n) ==
  /\ IsDate(n) /\ IsDueDay(s, n) /\ a < n
  /\ \A x : IsDate(x) /\ IsDueDay(s, x) /\ a < x => n =< x

LEMMA NextMonthly ==
  ASSUME NEW s \in Schedules, s.cadence = "monthly", NEW a, IsDate(a)
  PROVE  /\ FirstDueAfter(s, a, NextDueDate(s, a))
         /\ IsDueDay(s, a) => <<Year(NextDueDate(s, a)), Month(NextDueDate(s, a))>>
                                = AddMonths(Year(a), Month(a), 1)
<1>. DEFINE D(k) == DueIn(s, AddMonths(Year(a), Month(a), k)[1], AddMonths(Year(a), Month(a), k)[2])
            k == CHOOSE k \in 0..2 : D(k) > a /\ \A j \in 0..(k - 1) : D(j) =< a
            ny == AddMonths(Year(a), Month(a), 1)[1]
            nm == AddMonths(Year(a), Month(a), 1)[2]
<1>1. NextDueDate(s, a) = D(k)
  BY DEF NextDueDate
<1>2. a \in Int /\ Year(a) \in Int /\ Month(a) \in 1..12
  BY DateFields
<1>3. D(0) = DueIn(s, Year(a), Month(a))
  <2>1. AddMonths(Year(a), Month(a), 0) = <<Year(a), Month(a)>>
    BY <1>2, Months
  <2>2. AddMonths(Year(a), Month(a), 0)[1] = Year(a) /\ AddMonths(Year(a), Month(a), 0)[2] = Month(a)
    BY <2>1
  <2>. QED
    BY <2>2
<1>4. /\ ny \in Int /\ nm \in 1..12 /\ AddMonths(Year(a), Month(a), 1) = <<ny, nm>>
      /\ Year(a) < ny \/ (Year(a) = ny /\ Month(a) < nm)
      /\ \A y \in Int, m \in 1..12 :
           \/ y < Year(a) \/ (y = Year(a) /\ m < Month(a))
           \/ (y = Year(a) /\ m = Month(a)) \/ (y = ny /\ m = nm)
           \/ ny < y \/ (ny = y /\ nm < m)
  <2>1. AddMonths(Year(a), Month(a), 1)
          = IF Month(a) = 12 THEN <<Year(a) + 1, 1>> ELSE <<Year(a), Month(a) + 1>>
    BY <1>2, Months
  <2>2. /\ ny = IF Month(a) = 12 THEN Year(a) + 1 ELSE Year(a)
        /\ nm = IF Month(a) = 12 THEN 1 ELSE Month(a) + 1
        /\ AddMonths(Year(a), Month(a), 1) = <<ny, nm>>
    BY <2>1
  <2>. HIDE DEF ny, nm
  <2>. QED
    BY <1>2, <2>2
<1>5. D(1) = DueIn(s, ny, nm)
  OBVIOUS
<1>. HIDE DEF D, ny, nm
<1>6. IsDate(D(0)) /\ Year(D(0)) = Year(a) /\ Month(D(0)) = Month(a) /\ IsDueDay(s, D(0))
  BY <1>2, <1>3, DueOfMonth
<1>7. IsDate(D(1)) /\ Year(D(1)) = ny /\ Month(D(1)) = nm /\ IsDueDay(s, D(1))
  BY <1>4, <1>5, DueOfMonth
<1>8. a < D(1) /\ D(0) \in Int /\ D(1) \in Int
  BY <1>4, <1>6, <1>7, LaterMonth, DateFields
<1>9. \/ k = 0 /\ D(0) > a
      \/ k = 1 /\ ~ (D(0) > a)
  <2>1. \E i \in 0..2 : D(i) > a /\ \A j \in 0..(i - 1) : D(j) =< a
    <3>1. CASE D(0) > a
      BY <3>1
    <3>2. CASE ~ (D(0) > a)
      BY <1>2, <1>8, <3>2
    <3>. QED
      BY <3>1, <3>2
  <2>2. k \in 0..2 /\ D(k) > a /\ \A j \in 0..(k - 1) : D(j) =< a
    BY <2>1
  <2>. HIDE DEF k
  <2>3. k # 2
    BY <1>2, <1>8, <2>2
  <2>. QED
    BY <1>2, <1>8, <2>2, <2>3
<1>. HIDE DEF k
<1>10. ASSUME NEW x, IsDate(x), IsDueDay(s, x), a < x
       PROVE  \/ x = D(0) \/ x = D(1) \/ D(1) < x
  <2>1. Year(x) \in Int /\ Month(x) \in 1..12 /\ x \in Int
    BY <1>10, DateFields
  <2>2. x = DueIn(s, Year(x), Month(x))
    BY <1>10, OneDueDayAMonth
  <2>3. ~ (Year(x) < Year(a)) /\ ~ (Year(x) = Year(a) /\ Month(x) < Month(a))
    BY <1>2, <1>10, <2>1, LaterMonth
  <2>4. ny < Year(x) \/ (ny = Year(x) /\ nm < Month(x)) => D(1) < x
    BY <1>7, <1>10, LaterMonth
  <2>. QED
    BY <1>3, <1>4, <1>5, <2>1, <2>2, <2>3, <2>4
<1>11. FirstDueAfter(s, a, NextDueDate(s, a))
  <2>1. CASE k = 0 /\ D(0) > a
    <3>1. D(0) < D(1)
      BY <1>4, <1>6, <1>7, LaterMonth
    <3>. QED
      BY <1>1, <1>2, <1>6, <1>8, <1>10, <2>1, <3>1, DateFields DEF FirstDueAfter
  <2>2. CASE k = 1 /\ ~ (D(0) > a)
    BY <1>1, <1>2, <1>7, <1>8, <1>10, <2>2, DateFields DEF FirstDueAfter
  <2>. QED
    BY <1>9, <2>1, <2>2
<1>12. ASSUME IsDueDay(s, a)
       PROVE  <<Year(NextDueDate(s, a)), Month(NextDueDate(s, a))>> = AddMonths(Year(a), Month(a), 1)
  <2>1. D(0) = a
    BY <1>3, <1>12, OneDueDayAMonth
  <2>2. k = 1
    BY <1>2, <1>9, <2>1
  <2>. QED
    BY <1>1, <1>4, <1>7, <2>2
<1>. QED
  BY <1>11, <1>12

LEMMA Residue ==
  ASSUME NEW n \in Int, NEW r \in 0..6
  PROVE  (n + (r - (n % 7))) % 7 = r /\ (n + (r - (n % 7) + 7)) % 7 = r
<1>1. PICK q \in Int : n = 7 * q + (n % 7)
  BY n \div 7 \in Int, n = 7 * (n \div 7) + (n % 7)
<1>2. n % 7 \in Int
  OBVIOUS
<1>3. n + (r - (n % 7)) = 7 * q + r /\ n + (r - (n % 7) + 7) = 7 * (q + 1) + r
  BY <1>1, <1>2
<1>4. \A p \in Int : (7 * p + r) % 7 = r
  OBVIOUS
<1>5. q + 1 \in Int
  OBVIOUS
<1>. QED
  BY <1>3, <1>4, <1>5

LEMMA NextWeekly ==
  ASSUME NEW s \in Schedules, s.cadence = "weekly", NEW a, IsDate(a)
  PROVE  /\ FirstDueAfter(s, a, NextDueDate(s, a))
         /\ IsDueDay(s, a) => NextDueDate(s, a) = IsoAddDays(a, 7)
         /\ DayNumber(NextDueDate(s, a)) =< DayNumber(a) + 7
<1>. DEFINE W(k) == Weekday(IsoAddDays(a, k))
            N == DayNumber(a)
            k == CHOOSE k \in 1..7 : W(k) = s.day
<1>1. NextDueDate(s, a) = IsoAddDays(a, k)
  BY DEF NextDueDate
<1>2. N \in Int /\ s.day \in 0..6 /\ a \in Int
  BY DateFields, ScheduleKinds
<1>3. \A j \in 1..7 : /\ IsDate(IsoAddDays(a, j)) /\ DayNumber(IsoAddDays(a, j)) = N + j
                      /\ W(j) = (N + j) % 7
  <2>1. \A j \in 1..7 : j \in -27..28
    OBVIOUS
  <2>. QED
    BY <2>1, AddDays, WeekdayIs
<1>. HIDE DEF W, N
<1>4. \E j \in 1..7 : W(j) = s.day
  <2>1. \E j \in 1..7 : (N + j) % 7 = s.day
    <3>1. CASE s.day > N % 7
      <4>1. N % 7 \in 0..6 /\ s.day - (N % 7) \in 1..7
        BY <1>2, <3>1
      <4>2. (N + (s.day - (N % 7))) % 7 = s.day
        BY <1>2, <4>1, Residue
      <4>. QED
        BY <4>1, <4>2
    <3>2. CASE ~ (s.day > N % 7)
      <4>1. N % 7 \in 0..6 /\ s.day - (N % 7) + 7 \in 1..7
        BY <1>2, <3>2
      <4>2. (N + (s.day - (N % 7) + 7)) % 7 = s.day
        BY <1>2, <4>1, Residue
      <4>. QED
        BY <4>1, <4>2
    <3>. QED
      BY <3>1, <3>2
  <2>. QED
    BY <1>3, <2>1
<1>5. k \in 1..7 /\ W(k) = s.day
  BY <1>4
<1>. HIDE DEF k
<1>6. /\ IsDate(NextDueDate(s, a)) /\ DayNumber(NextDueDate(s, a)) = N + k
      /\ (N + k) % 7 = s.day
  BY <1>1, <1>3, <1>5
<1>7. IsDueDay(s, NextDueDate(s, a))
  BY <1>1, <1>5 DEF IsDueDay, W
<1>8. a < NextDueDate(s, a)
  BY <1>2, <1>5, <1>6, DatesInOrder DEF N
<1>9. ASSUME NEW x, IsDate(x), IsDueDay(s, x), a < x
      PROVE  NextDueDate(s, a) =< x
  <2>1. DayNumber(x) \in Int /\ x \in Int /\ NextDueDate(s, a) \in Int
    BY <1>6, <1>9, DateFields
  <2>2. N < DayNumber(x)
    BY <1>9, DatesInOrder DEF N
  <2>3. DayNumber(x) % 7 = s.day
    BY <1>9, WeekdayIs DEF IsDueDay
  <2>4. ~ (DayNumber(x) < N + k)
    BY <1>2, <1>5, <1>6, <2>1, <2>2, <2>3
  <2>5. ~ (x < NextDueDate(s, a))
    BY <1>6, <1>9, <2>4, DatesInOrder
  <2>. QED
    BY <2>1, <2>5
<1>10. ASSUME IsDueDay(s, a)
       PROVE  NextDueDate(s, a) = IsoAddDays(a, 7)
  <2>1. N % 7 = s.day
    BY <1>10, WeekdayIs DEF IsDueDay, N
  <2>2. k = 7
    BY <1>2, <1>5, <1>6, <2>1
  <2>. QED
    BY <1>1, <2>2
<1>11. DayNumber(NextDueDate(s, a)) =< DayNumber(a) + 7
  BY <1>2, <1>5, <1>6 DEF N
<1>. QED
  BY <1>6, <1>7, <1>8, <1>9, <1>10, <1>11 DEF FirstDueAfter

(* What nextDueDate returns is due, is later, and nothing due lies between:*)
(* its search of three months, or of seven days, always finds one.         *)
LEMMA NextDueDateIsFirst ==
  ASSUME NEW s \in Schedules, NEW a, IsDate(a)
  PROVE  FirstDueAfter(s, a, NextDueDate(s, a))
BY ScheduleKinds, NextMonthly, NextWeekly

-----------------------------------------------------------------------------
(* A bill on the calendar *)

(* The wall clock of a house o hours ahead of UTC: its hour counted from   *)
(* the UTC midnight, and the day that makes of it.                         *)
HourAt(o, t) == t.hour + o
DayShift(o, t) == IF HourAt(o, t) < 0 THEN -1 ELSE IF HourAt(o, t) >= 24 THEN 1 ELSE 0

LEMMA TodayIs ==
  ASSUME NEW o \in Offsets, NEW t, IsDate(t.date), t.hour \in Hours
  PROVE  /\ IsDate(TodayInTimezone(o, t))
         /\ DayNumber(TodayInTimezone(o, t)) = DayNumber(t.date) + DayShift(o, t)
         /\ HourAt(o, t) \in -12..37
<1>1. o \in -12..14 /\ t.hour \in 0..23 /\ HourAt(o, t) \in -12..37
  <2>1. Offsets \subseteq -12..14 /\ Hours \subseteq 0..23
    BY ScheduleAssumption
  <2>2. o \in -12..14 /\ t.hour \in 0..23
    BY <2>1
  <2>3. HourAt(o, t) = t.hour + o
    BY DEF HourAt
  <2>. QED
    BY <2>2, <2>3
<1>2. DayNumber(t.date) \in Int /\ -1 \in -27..28 /\ 1 \in -27..28
  BY DateFields
<1>3. /\ IsDate(IsoAddDays(t.date, -1)) /\ DayNumber(IsoAddDays(t.date, -1)) = DayNumber(t.date) + (-1)
      /\ IsDate(IsoAddDays(t.date, 1)) /\ DayNumber(IsoAddDays(t.date, 1)) = DayNumber(t.date) + 1
  BY <1>2, AddDays
<1>4. TodayInTimezone(o, t) = IF HourAt(o, t) < 0 THEN IsoAddDays(t.date, -1)
                              ELSE IF HourAt(o, t) >= 24 THEN IsoAddDays(t.date, 1) ELSE t.date
  BY DEF TodayInTimezone, HourAt
<1>. QED
  BY <1>1, <1>2, <1>3, <1>4 DEF DayShift

(* The clock of the house. *)
ClockInv == /\ offset \in Offsets /\ now = [date |-> now.date, hour |-> now.hour]
            /\ IsDate(now.date) /\ now.hour \in Hours

(* What a bill keeps are due days of its schedule. *)
BillInv == /\ bill = NoDate => last = NoDate
           /\ bill # NoDate =>
                /\ bill \in Schedules /\ IsDate(nextRun) /\ IsDueDay(bill, nextRun)
                /\ last # NoDate => IsDate(last) /\ IsDueDay(bill, last)

(* No due day after today comes before next_run. *)
AheadInv == bill # NoDate => \A x : IsDate(x) /\ IsDueDay(bill, x) /\ Today < x => nextRun =< x

(* Until a resumption next_run is the due date after the last one posted.  *)
FollowsInv == bill # NoDate /\ last # NoDate /\ ~ resumed => nextRun = NextDueDate(bill, last)

CalendarInv == ClockInv /\ BillInv /\ AheadInv /\ FollowsInv /\ DueDaySeen

LEMMA TodayIsDate ==
  ASSUME ClockInv
  PROVE  IsDate(Today) /\ Today \in Int
BY TodayIs, DateFields DEF ClockInv, Today

(* "After yesterday" is from today on. *)
LEMMA FirstDueIs ==
  ASSUME ClockInv, NEW s \in Schedules
  PROVE  /\ IsDate(FirstDue(s)) /\ IsDueDay(s, FirstDue(s))
         /\ \A x : IsDate(x) /\ IsDueDay(s, x) /\ Today =< x => FirstDue(s) =< x
<1>1. IsDate(Today) /\ Today \in Int /\ DayNumber(Today) \in Int /\ -1 \in -27..28
  BY TodayIsDate, DateFields
<1>2. /\ IsDate(IsoAddDays(Today, -1))
      /\ DayNumber(IsoAddDays(Today, -1)) = DayNumber(Today) + (-1)
  BY <1>1, AddDays
<1>3. IsoAddDays(Today, -1) < Today /\ IsoAddDays(Today, -1) \in Int
  BY <1>1, <1>2, DatesInOrder, DateFields
<1>4. FirstDueAfter(s, IsoAddDays(Today, -1), FirstDue(s))
  BY <1>2, NextDueDateIsFirst DEF FirstDue
<1>5. ASSUME NEW x, IsDate(x), Today =< x
      PROVE  IsoAddDays(Today, -1) < x
  BY <1>1, <1>3, <1>5, DateFields
<1>. QED
  BY <1>4, <1>5 DEF FirstDueAfter

(* Two due days of one period are one day. *)
LEMMA OnePeriodOneDay ==
  ASSUME NEW s \in Schedules, NEW a, NEW b, IsDate(a), IsDate(b), IsDueDay(s, a), IsDueDay(s, b),
         PeriodKey(s, a) = PeriodKey(s, b)
  PROVE  a = b
<1>1. CASE s.cadence = "monthly"
  <2>1. a \div 100 = b \div 100
    BY <1>1 DEF PeriodKey
  <2>2. \A x \in Int : Year(x) = (x \div 100) \div 100
    BY DEF Year
  <2>3. Year(a) = Year(b) /\ Month(a) = Month(b)
    BY <2>1, <2>2, DateFields DEF Month
  <2>. QED
    BY <1>1, <2>3, OneDueDayAMonth
<1>2. CASE s.cadence # "monthly"
  BY <1>2 DEF PeriodKey
<1>. QED
  BY <1>1, <1>2

LEMMA CalendarInit == ScheduleInit => CalendarInv
<1>. SUFFICES ASSUME ScheduleInit PROVE CalendarInv
  OBVIOUS
<1>1. bill = NoDate /\ last = NoDate /\ offset \in Offsets
  BY DEF ScheduleInit
<1>2. /\ now.date = ToISO(FirstYear, 1, 2) /\ now.hour = CHOOSE h \in Hours : \A g \in Hours : h =< g
      /\ now = [date |-> now.date, hour |-> now.hour]
  BY DEF ScheduleInit
<1>3. IsDate(now.date)
  <2>1. FirstYear \in Int /\ 1 \in 1..12 /\ DaysInMonth(FirstYear, 1) \in 28..31
    BY ScheduleAssumption, MonthLength
  <2>. QED
    BY <1>2, <2>1, MakeDate
<1>4. now.hour \in Hours
  <2>1. \E h \in Hours : \A g \in Hours : h =< g
    BY FirstFailure, ScheduleAssumption
  <2>. QED
    BY <1>2, <2>1
<1>. QED
  BY <1>1, <1>2, <1>3, <1>4 DEF CalendarInv, ClockInv, BillInv, AheadInv, FollowsInv, DueDaySeen

(* A bill is put on its first due date, at its creation or resumption. *)
LEMMA PlacedKeeps ==
  ASSUME CalendarInv, UNCHANGED <<offset, now, last>>, bill' # NoDate, bill' \in Schedules,
         nextRun' = FirstDue(bill'), last # NoDate => bill' = bill /\ resumed'
  PROVE  CalendarInv'
<1>1. ClockInv /\ ClockInv' /\ Today' = Today
  BY DEF CalendarInv, ClockInv, Today
<1>2. /\ IsDate(nextRun') /\ IsDueDay(bill', nextRun')
      /\ \A x : IsDate(x) /\ IsDueDay(bill', x) /\ Today =< x => nextRun' =< x
  <2>1. \A s \in Schedules :
          /\ IsDate(FirstDue(s)) /\ IsDueDay(s, FirstDue(s))
          /\ \A x : IsDate(x) /\ IsDueDay(s, x) /\ Today =< x => FirstDue(s) =< x
    BY <1>1, FirstDueIs
  <2>. QED
    BY <2>1
<1>3. BillInv'
  BY <1>2 DEF CalendarInv, BillInv
<1>4. AheadInv'
  BY <1>1, <1>2, TodayIsDate, DateFields DEF AheadInv
<1>5. FollowsInv'
  BY DEF FollowsInv
<1>6. DueDaySeen'
  BY <1>1, <1>2, TodayIsDate DEF DueDaySeen
<1>. QED
  BY <1>1, <1>3, <1>4, <1>5, <1>6 DEF CalendarInv

LEMMA StartKeeps ==
  ASSUME CalendarInv, NEW s \in Schedules, StartBill(s)
  PROVE  CalendarInv'
<1>1. /\ bill = NoDate /\ last = NoDate /\ bill' = s /\ nextRun' = FirstDue(s)
      /\ UNCHANGED <<offset, now, last, resumed>>
  BY DEF StartBill, CalendarInv, BillInv
<1>2. s # NoDate
  BY ScheduleAssumption
<1>. QED
  BY <1>1, <1>2, PlacedKeeps

LEMMA ResumeBillKeeps ==
  ASSUME CalendarInv, ResumeBill
  PROVE  CalendarInv'
BY PlacedKeeps DEF ResumeBill, CalendarInv, BillInv

LEMMA PostKeeps ==
  ASSUME CalendarInv, Post
  PROVE  CalendarInv'
<1>1. /\ bill # NoDate /\ nextRun =< Today /\ nextRun' = NextDueDate(bill, nextRun)
      /\ UNCHANGED <<bill, offset, now>>
      /\ \/ last # NoDate /\ PeriodKey(bill, last) = PeriodKey(bill, nextRun)
              /\ UNCHANGED <<last, resumed>>
         \/ last' = nextRun /\ resumed' = FALSE
  BY DEF Post, Due
<1>2. /\ bill \in Schedules /\ IsDate(nextRun) /\ IsDueDay(bill, nextRun)
      /\ last # NoDate => IsDate(last) /\ IsDueDay(bill, last)
      /\ nextRun \in Int
  BY <1>1, DateFields DEF CalendarInv, BillInv
<1>3. ClockInv /\ ClockInv' /\ Today' = Today /\ IsDate(Today) /\ Today \in Int
  BY <1>1, TodayIsDate DEF CalendarInv, ClockInv, Today
<1>4. FirstDueAfter(bill, nextRun, nextRun')
  BY <1>1, <1>2, NextDueDateIsFirst
<1>5. IsDate(nextRun') /\ IsDueDay(bill, nextRun') /\ nextRun' \in Int /\ nextRun < nextRun'
  BY <1>4, DateFields DEF FirstDueAfter
<1>6. last' = nextRun
  BY <1>1, <1>2, OnePeriodOneDay
<1>7. BillInv'
  BY <1>1, <1>2, <1>5, <1>6 DEF BillInv
<1>8. AheadInv'
  <2>. SUFFICES ASSUME NEW x, IsDate(x), IsDueDay(bill, x), Today < x
                PROVE  nextRun' =< x
    BY <1>1, <1>3 DEF AheadInv
  <2>1. nextRun < x
    BY <1>1, <1>2, <1>3, DateFields
  <2>. QED
    BY <1>4, <2>1 DEF FirstDueAfter
<1>9. FollowsInv'
  <2>1. nextRun' = NextDueDate(bill', last')
    BY <1>1, <1>6
  <2>. QED
    BY <2>1 DEF FollowsInv
<1>10. DueDaySeen'
  <2>. SUFFICES ASSUME IsDueDay(bill, Today)
                PROVE  nextRun' =< Today \/ last' = Today
    BY <1>1, <1>3 DEF DueDaySeen
  <2>1. nextRun < Today => nextRun' =< Today
    BY <1>3, <1>4 DEF FirstDueAfter
  <2>. QED
    BY <1>1, <1>2, <1>3, <1>6, <2>1
<1>. QED
  BY <1>3, <1>7, <1>8, <1>9, <1>10 DEF CalendarInv

LEMMA PassTimeKeeps ==
  ASSUME CalendarInv, PassTime
  PROVE  CalendarInv'
<1>1. ClockInv /\ UNCHANGED <<bill, offset, nextRun, last, resumed>>
  BY DEF PassTime, CalendarInv
<1>2. PICK h \in Hours :
        \/ h > now.hour /\ now' = [now EXCEPT !.hour = h]
        \/ (\A g \in Hours : h =< g) /\ now' = [date |-> IsoAddDays(now.date, 1), hour |-> h]
  BY DEF PassTime
<1>3. /\ IsDate(now.date) /\ now.hour \in 0..23 /\ now.hour \in Hours /\ h \in 0..23
      /\ offset \in -12..14 /\ offset \in Offsets /\ DayNumber(now.date) \in Int /\ 1 \in -27..28
  BY <1>1, DateFields, ScheduleAssumption DEF ClockInv
<1>4. /\ now'.hour = h /\ IsDate(now'.date) /\ now' = [date |-> now'.date, hour |-> now'.hour]
      /\ \/ h > now.hour /\ DayNumber(now'.date) = DayNumber(now.date)
         \/ h =< now.hour /\ DayNumber(now'.date) = DayNumber(now.date) + 1
  <2>1. CASE h > now.hour /\ now' = [now EXCEPT !.hour = h]
    <3>1. now' = [date |-> now.date, hour |-> h]
      BY <1>1, <2>1 DEF ClockInv
    <3>. QED
      BY <1>3, <2>1, <3>1
  <2>2. CASE (\A g \in Hours : h =< g) /\ now' = [date |-> IsoAddDays(now.date, 1), hour |-> h]
    <3>1. IsDate(IsoAddDays(now.date, 1)) /\ DayNumber(IsoAddDays(now.date, 1)) = DayNumber(now.date) + 1
      BY <1>3, AddDays
    <3>. QED
      BY <1>3, <2>2, <3>1
  <2>. QED
    BY <1>2, <2>1, <2>2
<1>5. ClockInv'
  BY <1>1, <1>2, <1>3, <1>4 DEF ClockInv
<1>6. DayNumber(Today) =< DayNumber(Today')
  <2>1. DayNumber(Today) = DayNumber(now.date) + DayShift(offset, now)
    BY <1>3, TodayIs DEF Today
  <2>2. Today' = TodayInTimezone(offset, now')
    BY <1>1 DEF Today
  <2>3. DayNumber(TodayInTimezone(offset, now')) = DayNumber(now'.date) + DayShift(offset, now')
    <3>1. now'.hour \in Hours
      BY <1>2, <1>4
    <3>. QED
      BY <1>3, <1>4, <3>1, TodayIs
  <2>4. HourAt(offset, now) = now.hour + offset /\ HourAt(offset, now') = h + offset
    BY <1>4 DEF HourAt
  <2>5. \/ h > now.hour /\ DayShift(offset, now) =< DayShift(offset, now')
        \/ h =< now.hour /\ DayShift(offset, now) =< DayShift(offset, now') + 1
    BY <1>3, <2>4 DEF DayShift
  <2>6. DayShift(offset, now) \in Int /\ DayShift(offset, now') \in Int
    BY DEF DayShift
  <2>7. DayNumber(now.date) + DayShift(offset, now) =< DayNumber(now'.date) + DayShift(offset, now')
    BY <1>3, <1>4, <2>5, <2>6
  <2>. QED
    BY <2>1, <2>2, <2>3, <2>7
<1>7. IsDate(Today) /\ Today \in Int /\ IsDate(Today') /\ Today' \in Int
  <2>1. IsDate(Today) /\ Today \in Int
    BY <1>1, TodayIsDate
  <2>2. Today' = TodayInTimezone(offset, now') /\ now'.hour \in Hours
    BY <1>1, <1>2, <1>4 DEF Today
  <2>3. IsDate(Today')
    BY <1>3, <1>4, <2>2, TodayIs
  <2>. QED
    BY <2>1, <2>3, DateFields
<1>8. Today =< Today'
  <2>1. DayNumber(Today) \in Int /\ DayNumber(Today') \in Int
    BY <1>7, DateFields
  <2>2. ~ (DayNumber(Today') < DayNumber(Today))
    BY <1>6, <2>1
  <2>3. ~ (Today' < Today)
    BY <1>7, <2>2, DatesInOrder
  <2>. QED
    BY <1>7, <2>3
<1>9. BillInv' /\ FollowsInv'
  BY <1>1 DEF CalendarInv, BillInv, FollowsInv
<1>10. AheadInv'
  <2>. SUFFICES ASSUME bill # NoDate, NEW x, IsDate(x), IsDueDay(bill, x), Today' < x
                PROVE  nextRun =< x
    BY <1>1 DEF AheadInv
  <2>1. Today < x
    BY <1>7, <1>8, DateFields
  <2>. QED
    BY <2>1 DEF CalendarInv, AheadInv
<1>11. DueDaySeen'
  <2>. SUFFICES ASSUME bill # NoDate, IsDueDay(bill, Today')
                PROVE  nextRun =< Today' \/ last = Today'
    BY <1>1 DEF DueDaySeen
  <2>1. CASE Today < Today'
    BY <1>7, <2>1 DEF CalendarInv, AheadInv
  <2>2. CASE Today = Today'
    BY <2>2 DEF CalendarInv, DueDaySeen
  <2>. QED
    BY <1>7, <1>8, <2>1, <2>2
<1>. QED
  BY <1>5, <1>9, <1>10, <1>11 DEF CalendarInv

LEMMA CalendarNext ==
  ASSUME CalendarInv, [ScheduleNext]_scheduleVars
  PROVE  CalendarInv'
<1>1. CASE UNCHANGED scheduleVars
  <2>1. UNCHANGED <<bill, offset, now, nextRun, last, resumed>> /\ Today' = Today
    BY <1>1 DEF scheduleVars, Today
  <2>. QED
    BY <2>1 DEF CalendarInv, ClockInv, BillInv, AheadInv, FollowsInv, DueDaySeen
<1>. QED
  BY <1>1, StartKeeps, ResumeBillKeeps, PostKeeps, PassTimeKeeps DEF ScheduleNext

LEMMA CalendarAlways == ScheduleSpec => []CalendarInv
<1>1. ScheduleInit => CalendarInv
  BY CalendarInit
<1>2. CalendarInv /\ [ScheduleNext]_scheduleVars => CalendarInv'
  BY CalendarNext
<1>. QED
  BY <1>1, <1>2, PTL DEF ScheduleSpec

(* No due day passes unseen: on a due day of its schedule, in its house's  *)
(* timezone, an active bill of bills.service.ts is waiting to be posted or *)
(* has been posted for that day; and it is the jumps of nextDueDate, taken *)
(* at creation, resumption and after each posting, that never pass one.    *)
THEOREM DueDaysSeen == ScheduleSpec => []DueDaySeen
<1>1. CalendarInv => DueDaySeen
  BY DEF CalendarInv
<1>. QED
  BY <1>1, CalendarAlways, PTL

(* A posting after another without a resumption is of the next period. *)
LEMMA StepMissesNone ==
  ASSUME CalendarInv, ScheduleNext, last # NoDate, last' # last, ~ resumed
  PROVE  IF bill.cadence = "weekly" THEN last' = IsoAddDays(last, 7)
         ELSE LET next == AddMonths(Year(last), Month(last), 1)
              IN  <<Year(last'), Month(last')>> = next
<1>1. Post
  BY DEF ScheduleNext, StartBill, ResumeBill, PassTime
<1>2. bill # NoDate /\ last' = nextRun
  BY <1>1 DEF Post, Due
<1>3. /\ bill \in Schedules /\ IsDate(last) /\ IsDueDay(bill, last)
      /\ last' = NextDueDate(bill, last)
  BY <1>2 DEF CalendarInv, BillInv, FollowsInv
<1>4. bill.cadence = "monthly" \/ bill.cadence = "weekly"
  BY <1>3, ScheduleKinds
<1>5. CASE bill.cadence = "weekly"
  BY <1>3, <1>5, NextWeekly
<1>6. CASE bill.cadence = "monthly"
  BY <1>3, <1>6, NextMonthly
<1>. QED
  BY <1>4, <1>5, <1>6

(* "Every month gets exactly one due date": from one posting of postOne to *)
(* the next, unless the bill was resumed between, is one month, clamped or *)
(* not, and leap years included; or seven days.                            *)
THEOREM NoneMissed == ScheduleSpec => NoPeriodMissed
<1>1. CalendarInv /\ [ScheduleNext]_scheduleVars
        => [last # NoDate /\ last' # last /\ ~ resumed =>
              IF bill.cadence = "weekly" THEN last' = IsoAddDays(last, 7)
              ELSE LET next == AddMonths(Year(last), Month(last), 1)
                   IN  <<Year(last'), Month(last')>> = next]_scheduleVars
  BY StepMissesNone DEF scheduleVars
<1>. QED
  BY <1>1, CalendarAlways, PTL DEF ScheduleSpec, NoPeriodMissed

-----------------------------------------------------------------------------
(* BillPosting's due days are Schedule's due dates *)

(* Dates as BillPosting numbers them, from some day of the house's. *)
DayOf(from, x) == DayNumber(x) - DayNumber(from)

CalendarDays(s, from) ==
  {DayOf(from, x) : x \in {i \in Int : IsDate(i) /\ IsDueDay(s, i) /\ from =< i}}

(* Every day has a date: the first without one would follow one with one. *)
LEMMA EveryDayHasADate ==
  ASSUME NEW from, IsDate(from), NEW n \in Nat
  PROVE  \E x : IsDate(x) /\ DayOf(from, x) = n
<1>. DEFINE B == {k \in Nat : ~ \E x : IsDate(x) /\ DayOf(from, x) = k}
<1>1. SUFFICES ASSUME B # {}  PROVE  FALSE
  OBVIOUS
<1>2. PICK k \in B : \A j \in B : k =< j
  <2>1. B \in SUBSET Nat
    OBVIOUS
  <2>. HIDE DEF B
  <2>. QED
    BY <1>1, <2>1, FirstFailure
<1>3. CASE k = 0
  BY <1>3, DateFields DEF DayOf
<1>4. CASE k # 0
  <2>1. PICK x : IsDate(x) /\ DayOf(from, x) = k - 1
    BY <1>2, <1>4
  <2>2. 1 \in -27..28
    OBVIOUS
  <2>3. IsDate(IsoAddDays(x, 1)) /\ DayNumber(IsoAddDays(x, 1)) = DayNumber(x) + 1
    BY <2>1, <2>2, AddDays
  <2>4. DayNumber(x) \in Int /\ DayNumber(from) \in Int /\ k \in Nat
    BY <1>2, <2>1, DateFields
  <2>5. \A p, q \in Int : p - q = k - 1 => (p + 1) - q = k
    BY <2>4
  <2>6. DayOf(from, IsoAddDays(x, 1)) = k
    BY <2>1, <2>3, <2>4, <2>5 DEF DayOf
  <2>. QED
    BY <1>2, <2>3, <2>6
<1>. QED
  BY <1>3, <1>4

(* A month and the next are at most 62 days. *)
LEMMA NextDueWithin ==
  ASSUME NEW s \in Schedules, NEW a, IsDate(a)
  PROVE  DayNumber(NextDueDate(s, a)) =< DayNumber(a) + 62
<1>1. FirstDueAfter(s, a, NextDueDate(s, a)) /\ DayNumber(a) \in Int
  BY NextDueDateIsFirst, DateFields
<1>2. CASE s.cadence = "monthly"
  <2>. DEFINE y == Year(a)
              m == Month(a)
              ny == AddMonths(y, m, 1)[1]
              nm == AddMonths(y, m, 1)[2]
              x == DueIn(s, ny, nm)
  <2>1. /\ y \in Int /\ m \in 1..12 /\ Day(a) \in 1..31 /\ MonthStart(y, m) \in Int
        /\ DayNumber(a) = MonthStart(y, m) + Day(a)
    BY DateFields DEF DayNumber
  <2>a. /\ m = 12 => ny = y + 1 /\ nm = 1
        /\ m # 12 => ny = y /\ nm = m + 1
    <3>1. AddMonths(y, m, 1) = IF m = 12 THEN <<y + 1, 1>> ELSE <<y, m + 1>>
      BY <2>1, Months
    <3>2. m = 12 => AddMonths(y, m, 1) = <<y + 1, 1>>
      BY <3>1
    <3>3. m # 12 => AddMonths(y, m, 1) = <<y, m + 1>>
      BY <3>1
    <3>. QED
      BY <3>2, <3>3
  <2>. HIDE DEF ny, nm
  <2>b. /\ m = 12 => MonthStart(ny, nm) = MonthStart(y, m) + DaysInMonth(y, m)
        /\ m # 12 => MonthStart(ny, nm) = MonthStart(y, m) + DaysInMonth(y, m)
    <3>1. MonthStart(y + 1, 1) = MonthStart(y, 12) + 31 /\ DaysInMonth(y, 12) = 31
      BY <2>1, MonthStarts DEF DaysInMonth
    <3>2. m < 12 => MonthStart(y, m + 1) = MonthStart(y, m) + DaysInMonth(y, m)
      BY <2>1, MonthStarts
    <3>. HIDE DEF y, m
    <3>. QED
      BY <2>1, <2>a, <3>1, <3>2
  <2>2. /\ ny \in Int /\ nm \in 1..12 /\ (y < ny \/ (y = ny /\ m < nm))
        /\ MonthStart(ny, nm) = MonthStart(y, m) + DaysInMonth(y, m)
    <3>. HIDE DEF y, m
    <3>. QED
      BY <2>1, <2>a, <2>b
  <2>3. /\ IsDate(x) /\ Year(x) = ny /\ Month(x) = nm /\ IsDueDay(s, x)
        /\ DaysInMonth(y, m) \in 28..31
    BY <1>2, <2>1, <2>2, DueOfMonth, MonthLength
  <2>. HIDE DEF x
  <2>4. a < x
    BY <2>2, <2>3, LaterMonth
  <2>5. DayNumber(x) = MonthStart(ny, nm) + Day(x) /\ Day(x) \in 1..31 /\ DayNumber(x) \in Int
    BY <2>3, DateFields DEF DayNumber
  <2>6. NextDueDate(s, a) =< x /\ IsDate(NextDueDate(s, a))
    BY <1>1, <2>3, <2>4 DEF FirstDueAfter
  <2>7. DayNumber(NextDueDate(s, a)) =< DayNumber(x)
    BY <2>3, <2>6, DatesInOrder, DateFields
  <2>8. DayNumber(NextDueDate(s, a)) \in Int
    BY <2>6, DateFields
  <2>. QED
    BY <2>1, <2>2, <2>3, <2>5, <2>7, <2>8
<1>3. CASE s.cadence = "weekly"
  <2>1. DayNumber(NextDueDate(s, a)) =< DayNumber(a) + 7 /\ DayNumber(NextDueDate(s, a)) \in Int
    BY <1>1, <1>3, NextWeekly, DateFields DEF FirstDueAfter
  <2>. QED
    BY <1>1, <2>1
<1>. QED
  BY <1>2, <1>3, ScheduleKinds

(* The first due date after a date is the first due day after its number,  *)
(* whichever due days beyond it are cut off.                               *)
LEMMA FirstDueIsFirstAfter ==
  ASSUME NEW s \in Schedules, NEW from, IsDate(from), NEW a, IsDate(a),
         -1 =< DayOf(from, a), NEW horizon \in Nat, DayOf(from, a) + 62 =< horizon
  PROVE  /\ DayOf(from, NextDueDate(s, a)) \in CalendarDays(s, from) \cap (0..horizon)
         /\ DayOf(from, a) < DayOf(from, NextDueDate(s, a))
         /\ FirstAfter(CalendarDays(s, from) \cap (0..horizon), DayOf(from, a))
              = DayOf(from, NextDueDate(s, a))
<1>. DEFINE n == NextDueDate(s, a)
<1>1. /\ IsDate(n) /\ IsDueDay(s, n) /\ a < n
      /\ \A x : IsDate(x) /\ IsDueDay(s, x) /\ a < x => n =< x
  BY NextDueDateIsFirst DEF FirstDueAfter
<1>2. DayNumber(n) =< DayNumber(a) + 62
  BY NextDueWithin
<1>. HIDE DEF n
<1>3. /\ DayNumber(n) \in Int /\ DayNumber(a) \in Int /\ DayNumber(from) \in Int
      /\ n \in Int /\ a \in Int /\ from \in Int
  BY <1>1, DateFields
<1>4. DayNumber(a) < DayNumber(n)
  BY <1>1, DatesInOrder
<1>5. /\ DayOf(from, n) \in 0..horizon /\ DayOf(from, a) \in Int
      /\ DayOf(from, a) < DayOf(from, n) /\ DayNumber(from) =< DayNumber(n)
  BY <1>2, <1>3, <1>4 DEF DayOf
<1>6. from =< n
  <2>1. n < from => DayNumber(n) < DayNumber(from)
    BY <1>1, DatesInOrder
  <2>. QED
    BY <1>3, <1>5, <2>1
<1>7. DayOf(from, n) \in CalendarDays(s, from)
  BY <1>1, <1>3, <1>6 DEF CalendarDays
<1>8. ASSUME NEW f \in CalendarDays(s, from) \cap (0..horizon), DayOf(from, a) < f
      PROVE  DayOf(from, n) =< f
  <2>1. PICK x \in Int : IsDate(x) /\ IsDueDay(s, x) /\ from =< x /\ f = DayOf(from, x)
    BY <1>8 DEF CalendarDays
  <2>2. DayNumber(x) \in Int /\ DayNumber(a) < DayNumber(x)
    BY <1>3, <1>8, <2>1, DateFields DEF DayOf
  <2>3. a < x
    BY <2>1, <2>2, DatesInOrder
  <2>4. n =< x
    BY <1>1, <2>1, <2>3
  <2>5. DayNumber(x) < DayNumber(n) => x < n
    BY <1>1, <2>1, DatesInOrder
  <2>6. DayNumber(n) =< DayNumber(x)
    BY <1>3, <2>1, <2>2, <2>4, <2>5
  <2>. QED
    BY <1>3, <2>1, <2>2, <2>6 DEF DayOf
<1>9. FirstAfter(CalendarDays(s, from) \cap (0..horizon), DayOf(from, a)) = DayOf(from, n)
  <2>. DEFINE days == CalendarDays(s, from) \cap (0..horizon)
  <2>1. days \in SUBSET Nat /\ DayOf(from, n) \in days
    BY <1>5, <1>7
  <2>2. \A f \in days : DayOf(from, a) < f => DayOf(from, n) =< f
    BY <1>8
  <2>. HIDE DEF days
  <2>3. FirstAfter(days, DayOf(from, a)) = DayOf(from, n)
    BY <1>5, <2>1, <2>2, FirstAfterOnly
  <2>. QED
    BY <2>3 DEF days
<1>. QED
  BY <1>5, <1>7, <1>9 DEF n

(* BillPosting numbers days and takes each bill's due days as given.  What *)
(* the calendar gives are such days: whatever schedules the bills have and *)
(* whichever day the count begins at, the due dates of schedule.ts up to   *)
(* two months past the last day meet DueDaysAssumption; NextDue finds      *)
(* among them what nextDueDate computes, from the day before the first     *)
(* (creation's "after yesterday") on; and a due date names its period, as  *)
(* the unique index on periodKey needs.                                    *)
THEOREM CalendarGivesDueDays ==
  ASSUME NEW plan \in [Bills -> Schedules], NEW from, IsDate(from),
         NEW horizon \in Nat, MaxDay + 62 =< horizon
  PROVE  LET days == [b \in Bills |-> CalendarDays(plan[b], from) \cap (0..horizon)]
         IN  /\ days \in [Bills -> SUBSET (0..horizon)]
             /\ \A b \in Bills : \E d \in days[b] : MaxDay < d
             /\ \A b \in Bills, a \in Int :
                  IsDate(a) /\ DayOf(from, a) \in -1..MaxDay
                    => FirstAfter(days[b], DayOf(from, a)) = DayOf(from, NextDueDate(plan[b], a))
             /\ \A b \in Bills, x, y \in Int :
                  /\ IsDate(x) /\ IsDueDay(plan[b], x) /\ IsDate(y) /\ IsDueDay(plan[b], y)
                  /\ PeriodKey(plan[b], x) = PeriodKey(plan[b], y)
                  => DayOf(from, x) = DayOf(from, y)
<1>. DEFINE days == [b \in Bills |-> CalendarDays(plan[b], from) \cap (0..horizon)]
<1>1. days \in [Bills -> SUBSET (0..horizon)]
  OBVIOUS
<1>2. ASSUME NEW b \in Bills  PROVE  \E d \in days[b] : MaxDay < d
  <2>1. PICK a : IsDate(a) /\ DayOf(from, a) = MaxDay
    BY EveryDayHasADate, NumbersAssumption
  <2>2. -1 =< DayOf(from, a) /\ DayOf(from, a) + 62 =< horizon /\ plan[b] \in Schedules
    BY <2>1, NumbersAssumption
  <2>3. /\ DayOf(from, NextDueDate(plan[b], a)) \in CalendarDays(plan[b], from) \cap (0..horizon)
        /\ MaxDay < DayOf(from, NextDueDate(plan[b], a))
    BY <2>1, <2>2, FirstDueIsFirstAfter
  <2>. QED
    BY <2>3
<1>3. ASSUME NEW b \in Bills, NEW a \in Int, IsDate(a), DayOf(from, a) \in -1..MaxDay
      PROVE  FirstAfter(days[b], DayOf(from, a)) = DayOf(from, NextDueDate(plan[b], a))
  <2>1. -1 =< DayOf(from, a) /\ DayOf(from, a) + 62 =< horizon /\ plan[b] \in Schedules
    BY <1>3, NumbersAssumption
  <2>2. FirstAfter(CalendarDays(plan[b], from) \cap (0..horizon), DayOf(from, a))
          = DayOf(from, NextDueDate(plan[b], a))
    BY <1>3, <2>1, FirstDueIsFirstAfter
  <2>. QED
    BY <2>2
<1>4. ASSUME NEW b \in Bills, NEW x \in Int, NEW y \in Int,
             IsDate(x), IsDueDay(plan[b], x), IsDate(y), IsDueDay(plan[b], y),
             PeriodKey(plan[b], x) = PeriodKey(plan[b], y)
      PROVE  DayOf(from, x) = DayOf(from, y)
  <2>1. plan[b] \in Schedules
    OBVIOUS
  <2>2. x = y
    BY <1>4, <2>1, OnePeriodOneDay
  <2>. QED
    BY <2>2
<1>. HIDE DEF days
<1>5. /\ days \in [Bills -> SUBSET (0..horizon)]
      /\ \A b \in Bills : \E d \in days[b] : MaxDay < d
      /\ \A b \in Bills, a \in Int :
           IsDate(a) /\ DayOf(from, a) \in -1..MaxDay
             => FirstAfter(days[b], DayOf(from, a)) = DayOf(from, NextDueDate(plan[b], a))
  BY <1>1, <1>2, <1>3
<1>. QED
  BY <1>4, <1>5 DEF days
=============================================================================
