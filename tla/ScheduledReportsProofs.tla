---------------------- MODULE ScheduledReportsProofs ----------------------
(***************************************************************************)
(* Proofs about ScheduledReports, for any number of copies, reports,       *)
(* schedules, faults and changes.                                          *)
(***************************************************************************)
EXTENDS ScheduledReports, WellFoundedInduction, TLAPS

\* A copy is at a report from its run to the writing of its next run, and no longer has it to run.  What
\* it has to run was due when the pass began, and the clock has not gone back since.
InPass ==
  \A c \in Copies :
    /\ doing[c] # None <=> at[c] \in {"save", "failed"}
    /\ doing[c] \notin due[c]
    /\ at[c] = "idle" => due[c] = {}
    /\ asOf[c] <= clock
    /\ \A r \in due[c] : slot[c][r] <= asOf[c]

\* As long as no job lock was lost, one copy at most is in a pass.
OneInPass == lost = 0 => \A c \in Copies : at[c] # "idle" => jobLock = c

\* Nothing was run for a time that is still to come, nor for one after the moment the pass has in hand.
RunInThePast ==
  /\ \A r \in Reports : last[r] <= clock
  /\ lost = 0 => \A c \in Copies, r \in Reports : at[c] # "idle" => last[r] <= asOf[c]

\* A report that will be run again for a time it was run for already: its row still has that time and
\* nobody is about to write the next one, or a pass has it to run with that time.
Owed(r) ==
  \/ state[r] \in {"active", "paused"} /\ next[r] <= last[r] /\ \A c \in Copies : doing[c] # r
  \/ \E c \in Copies : r \in due[c] /\ slot[c][r] <= last[r]

\* No schedule comes upon a month that has not its day (the run of the month's end shows what one does).
NoneRaises == \A s \in Schedules, t \in 0..MaxTime : ~Raises(s, t)

\* Each run that is owed has its fault already, which no other run has used up.
OwedIsPaid ==
  NoneRaises /\ lost = 0 =>
    \A r \in Reports :
      /\ again[r] <= stops + unwritten
      /\ Owed(r) => again[r] + 1 <= stops + unwritten

IInv == TypeOK /\ InPass /\ OneInPass /\ RunInThePast /\ OwedIsPaid

-----------------------------------------------------------------------------
(* compute_next_run *)

\* A set of numbers has a least one.
LEMMA LeastNumber ==
  ASSUME NEW T \in SUBSET Nat, T # {}
  PROVE  \E x \in T : \A y \in T : x <= y
<1>1. IsWellFoundedOn(OpToRel(<, Nat), Nat)
  BY NatLessThanWellFounded
<1>2. PICK x \in T : \A y \in T : ~(<<y, x>> \in OpToRel(<, Nat))
  BY <1>1, WFMin
<1>3. \A y \in T : ~(y < x)
  BY <1>2 DEF OpToRel
<1>4. \A y \in T : y \in Nat
  OBVIOUS
<1>5. QED  BY <1>3, <1>4

LEMMA ProductPositive ==
  ASSUME NEW a \in Nat \ {0}, NEW b \in Nat \ {0}
  PROVE  a * b \in Nat \ {0}
OBVIOUS

LEMMA PerDayPositive == PerDay \in Nat \ {0}
BY CalendarIsInOrder, ProductPositive DEF PerDay

\* A moment is within the period that begins at its quotient.
LEMMA WithinPeriod ==
  ASSUME NEW t \in Nat, NEW p \in Nat \ {0}
  PROVE  t \div p \in Nat /\ (t \div p) * p <= t /\ t < (t \div p) * p + p
BY SMTT(30)

LEMMA Remainder ==
  ASSUME NEW t \in Nat, NEW p \in Nat \ {0}
  PROVE  t % p \in 0..(p - 1) /\ t % p <= t
BY SMTT(30)

\* Every day of the clock is in a month that is not the calendar's last.
LEMMA EveryDayHasItsMonth ==
  ASSUME NEW t \in 0..MaxTime
  PROVE  /\ MonthOf(t) \in 1..(Len(Starts) - 2)
         /\ Starts[MonthOf(t)] <= DayOf(t) /\ DayOf(t) < Starts[MonthOf(t) + 1]
<1>0. t \in Nat /\ Len(Starts) \in Nat /\ Len(Starts) > 2 /\ \A m \in 1..Len(Starts) : Starts[m] \in Nat
  BY BoundsAreNumbers, CalendarIsInOrder
<1>1. DayOf(t) \in Nat /\ DayOf(t) * PerDay <= t
  BY <1>0, PerDayPositive, WithinPeriod DEF DayOf
<1>2. DayOf(t) < Starts[Len(Starts) - 1]
  <2> DEFINE S == Starts[Len(Starts) - 1]
  <2>1. S \in Nat /\ t < S * PerDay
    BY <1>0, BoundsAreNumbers, CalendarIsLongEnough, PerDayPositive
  <2>2. ASSUME NEW d \in Nat, NEW s \in Nat, NEW p \in Nat \ {0}, d * p < s * p PROVE d < s
    BY <2>2, SMTT(30)
  <2>3. DayOf(t) * PerDay < S * PerDay
    BY <1>0, <1>1, <2>1, PerDayPositive
  <2> HIDE DEF S
  <2>4. DayOf(t) < S
    BY <1>1, <2>1, <2>2, <2>3, PerDayPositive
  <2>5. QED  BY <2>4 DEF S
<1>3. PICK T : T = {m \in 1..(Len(Starts) - 2) : DayOf(t) < Starts[m + 1]}
  OBVIOUS
<1>4. T \in SUBSET Nat /\ Len(Starts) - 2 \in T
  BY <1>0, <1>2, <1>3
<1>5. PICK m \in T : \A n \in T : m <= n
  BY <1>4, LeastNumber
<1>6. m \in 1..(Len(Starts) - 2) /\ DayOf(t) < Starts[m + 1]
  BY <1>3, <1>5
<1>7. Starts[m] <= DayOf(t)
  <2>1. CASE m = 1
    BY <1>1, <2>1, CalendarIsInOrder
  <2>2. CASE m # 1
    <3>1. m - 1 \in 1..(Len(Starts) - 2) /\ m - 1 \notin T
      BY <1>0, <1>4, <1>5, <1>6, <2>2
    <3>2. QED  BY <1>0, <1>1, <1>3, <1>6, <3>1
  <2>3. QED  BY <2>1, <2>2
<1>8. \A n \in Months : Starts[n] <= DayOf(t) /\ DayOf(t) < Starts[n + 1] => n = m
  <2> SUFFICES ASSUME NEW n \in Months, Starts[n] <= DayOf(t), DayOf(t) < Starts[n + 1] PROVE n = m
    OBVIOUS
  <2>1. \A i, j \in 1..Len(Starts) : i < j => Starts[i] < Starts[j]
    <3>1. DOMAIN Starts = 1..Len(Starts)
      BY CalendarIsInOrder
    <3>2. QED  BY <3>1, CalendarIsInOrder
  <2>2. \A i, j \in 1..Len(Starts) : i <= j => Starts[i] <= Starts[j]
    BY <1>0, <2>1
  <2>3. n \in Nat /\ m \in Nat /\ n \in 1..Len(Starts) /\ n + 1 \in 1..Len(Starts)
        /\ m \in 1..Len(Starts) /\ m + 1 \in 1..Len(Starts)
    BY <1>0, <1>6 DEF Months
  <2>4. ~(n + 1 <= m) /\ ~(m + 1 <= n)
    BY <1>0, <1>1, <1>6, <1>7, <2>2, <2>3, SMTT(30)
  <2>5. QED  BY <2>3, <2>4
<1>9. m \in Months
  BY <1>0, <1>6 DEF Months
<1>10. MonthOf(t) = m
  BY <1>6, <1>7, <1>8, <1>9 DEF MonthOf
<1>11. QED  BY <1>6, <1>7, <1>10

\* A minute of a later day is later.
LEMMA LaterDay ==
  ASSUME NEW now \in Nat, NEW day \in Nat, DayOf(now) < day, NEW h \in Nat, NEW mi \in Nat
  PROVE  OnDay(day, h, mi) > now
<1>1. PICK p \in Nat \ {0} : p = PerDay
  BY PerDayPositive
<1>2. DayOf(now) \in Nat /\ now < DayOf(now) * p + p
  BY <1>1, WithinPeriod DEF DayOf
<1>3. ASSUME NEW d \in Nat, NEW e \in Nat, d < e PROVE d * p + p <= e * p
  BY <1>3, SMTT(30)
<1>4. h * MinutesPerHour \in Nat
  BY CalendarIsInOrder
<1>5. day * p \in Nat
  OBVIOUS
<1>6. QED  BY <1>1, <1>2, <1>3, <1>4, <1>5 DEF OnDay

\* A minute of this day or a later one is less than a day ago.
LEMMA NotADayAgo ==
  ASSUME NEW now \in Nat, NEW day \in Nat, DayOf(now) <= day, NEW h \in Nat, NEW mi \in Nat
  PROVE  OnDay(day, h, mi) \in Nat /\ OnDay(day, h, mi) + PerDay > now
<1>1. PICK p \in Nat \ {0} : p = PerDay
  BY PerDayPositive
<1>2. DayOf(now) \in Nat /\ now < DayOf(now) * p + p
  BY <1>1, WithinPeriod DEF DayOf
<1>3. ASSUME NEW d \in Nat, NEW e \in Nat, d <= e PROVE d * p <= e * p
  BY <1>3, SMTT(30)
<1>4. h * MinutesPerHour \in Nat
  BY CalendarIsInOrder
<1>5. day * p \in Nat /\ DayOf(now) * p \in Nat
  BY <1>2
<1>6. QED  BY <1>1, <1>2, <1>3, <1>4, <1>5 DEF OnDay

\* The next run is after the moment the writer has in hand.
LEMMA NextRunIsLater ==
  ASSUME NEW s \in Schedules, NEW now \in 0..MaxTime
  PROVE  NextRun(s, now) \in Nat /\ NextRun(s, now) > now
<1>0. now \in Nat /\ s.minute \in Nat /\ MinutesPerHour \in Nat \ {0} /\ DaysPerWeek \in Nat \ {0}
      /\ HoursPerDay \in Nat \ {0}
  BY BoundsAreNumbers, SchedulesAreInRange, CalendarIsInOrder
<1>1. DayOf(now) \in Nat
  BY <1>0, PerDayPositive, WithinPeriod DEF DayOf
<1>2. CASE s.type = "minutely"
  BY <1>0, <1>2, SchedulesAreInRange DEF NextRun
<1>3. CASE s.type = "hourly"
  <2>1. MinuteOf(now) \in 0..(MinutesPerHour - 1) /\ now - MinuteOf(now) \in Nat
    <3>1. now % MinutesPerHour \in 0..(MinutesPerHour - 1) /\ now % MinutesPerHour <= now
      BY <1>0, Remainder
    <3>2. QED  BY <1>0, <3>1 DEF MinuteOf
  <2>2. NextRun(s, now) = Later(now - MinuteOf(now) + s.minute, now, MinutesPerHour)
    BY <1>3 DEF NextRun
  <2>3. QED  BY <1>0, <2>1, <2>2 DEF Later
<1>4. s.type \in {"daily", "weekly", "monthly"} => Hour(s) \in Nat
  BY <1>0, SchedulesAreInRange DEF Hour
<1>5. CASE s.type = "daily"
  <2>1. NextRun(s, now) = Later(OnDay(DayOf(now), Hour(s), s.minute), now, PerDay)
    BY <1>5 DEF NextRun
  <2>2. PICK t \in Nat : t = OnDay(DayOf(now), Hour(s), s.minute) /\ t + PerDay > now
    <3>1. PICK h \in Nat : h = Hour(s)
      BY <1>4, <1>5
    <3>2. PICK day \in Nat : day = DayOf(now) /\ DayOf(now) <= day
      BY <1>1
    <3>3. QED  BY <1>0, <3>1, <3>2, NotADayAgo
  <2>3. QED  BY <1>0, <2>1, <2>2, PerDayPositive DEF Later
<1>6. CASE s.type = "weekly"
  <2>1. PICK ahead \in Nat : ahead = (s.weekday - Weekday(now)) % DaysPerWeek
    <3>1. s.weekday \in Nat /\ Weekday(now) \in Nat
      <4>1. s.weekday \in Nat
        BY <1>0, <1>6, SchedulesAreInRange
      <4>2. DayOf(now) % DaysPerWeek \in Nat
        BY <1>0, <1>1, Remainder
      <4>3. QED  BY <4>1, <4>2 DEF Weekday
    <3>2. QED  BY <1>0, <3>1
  <2>2. NextRun(s, now) = Later(OnDay(DayOf(now) + ahead, Hour(s), s.minute), now, DaysPerWeek * PerDay)
    BY <1>6, <2>1 DEF NextRun, NextWeekly
  <2>3. DaysPerWeek * PerDay \in Nat /\ DaysPerWeek * PerDay >= PerDay
    <3>1. ASSUME NEW w \in Nat \ {0}, NEW p \in Nat \ {0} PROVE w * p \in Nat /\ w * p >= p
      BY SMTT(30)
    <3>2. QED  BY <1>0, <3>1, PerDayPositive
  <2>4. PICK t \in Nat : t = OnDay(DayOf(now) + ahead, Hour(s), s.minute) /\ t + PerDay > now
    <3>1. PICK h \in Nat : h = Hour(s)
      BY <1>4, <1>6
    <3>2. PICK day \in Nat : day = DayOf(now) + ahead /\ DayOf(now) <= day
      BY <1>1
    <3>3. QED  BY <1>0, <3>1, <3>2, NotADayAgo
  <2>5. QED  BY <1>0, <2>2, <2>3, <2>4, PerDayPositive DEF Later
<1>7. CASE s.type = "monthly"
  <2>1. PICK m \in 1..(Len(Starts) - 2) : m = MonthOf(now)
    BY EveryDayHasItsMonth
  <2>2. /\ m \in Months /\ Starts[m] \in Nat /\ Starts[m + 1] \in Nat /\ Starts[m] < Starts[m + 1]
        /\ DayOf(now) < Starts[m + 1]
    BY <2>1, EveryDayHasItsMonth, CalendarIsInOrder, SMTT(30) DEF Months
  <2>3. DayIn(s, m) \in Nat \ {0}
    BY <1>7, <2>2, SchedulesAreInRange DEF DayIn, Least, Lengths
  <2>4. CASE ThisMonth(s, now) <= now
    <3>1. PICK day \in Nat : day = Starts[m + 1] + DayIn(s, m) - 1 /\ DayOf(now) < day
      BY <1>1, <2>2, <2>3
    <3>2. NextRun(s, now) = OnDay(day, Hour(s), s.minute)
      BY <1>7, <2>1, <2>4, <3>1 DEF NextRun, NextMonthly
    <3>3. PICK h \in Nat : h = Hour(s)
      BY <1>4, <1>7
    <3>4. OnDay(day, h, s.minute) \in Nat
      <4>1. DayOf(now) <= day
        BY <1>1, <3>1
      <4>2. QED  BY <1>0, <4>1, NotADayAgo
    <3>5. QED  BY <1>0, <3>1, <3>2, <3>3, <3>4, LaterDay
  <2>5. CASE ~(ThisMonth(s, now) <= now)
    <3>1. NextRun(s, now) = ThisMonth(s, now)
      BY <1>7, <2>5 DEF NextRun, NextMonthly
    <3>2. ThisMonth(s, now) \in Nat
      <4>1. PICK day \in Nat : day = Starts[m] + DayIn(s, m) - 1
        BY <2>2, <2>3
      <4>2. ThisMonth(s, now) = day * PerDay + Hour(s) * MinutesPerHour + s.minute
        BY <2>1, <4>1 DEF ThisMonth, OnDay
      <4>3. day * PerDay \in Nat /\ Hour(s) * MinutesPerHour \in Nat
        BY <1>0, <1>4, <1>7, PerDayPositive
      <4>4. QED  BY <1>0, <4>2, <4>3
    <3>3. QED  BY <1>0, <2>5, <3>1, <3>2
  <2>6. QED  BY <2>4, <2>5
<1>8. QED  BY <1>2, <1>3, <1>5, <1>6, <1>7, SchedulesAreInRange

-----------------------------------------------------------------------------
(* The inductive invariant *)

\* What schedules may do is the same in every state.
LEMMA AlwaysNoneRaises == NoneRaises' <=> NoneRaises
BY DEF NoneRaises, Raises, ThisMonth, DayIn, MonthOf, DayOf, OnDay, Hour, Least, Lengths, Months, PerDay

LEMMA Init_IInv == Init => IInv
<1> SUFFICES ASSUME Init PROVE IInv
  OBVIOUS
<1>1. TypeOK
  BY BoundsAreNumbers DEF Init, TypeOK
<1>2. InPass /\ OneInPass /\ RunInThePast
  BY DEF Init, InPass, OneInPass, RunInThePast
<1>3. OwedIsPaid
  BY DEF Init, OwedIsPaid, Owed
<1>4. QED  BY <1>1, <1>2, <1>3 DEF IInv

\* Runs that are owed or were made again stay paid when no fault is forgotten.
LEMMA PaidApart ==
  ASSUME IInv, lost' = lost, stops' + unwritten' >= stops + unwritten,
         stops' + unwritten' \in Nat,
         \A r \in Reports : again'[r] = again[r],
         \A r \in Reports : Owed(r)' => Owed(r) \/ stops' + unwritten' > stops + unwritten
  PROVE  OwedIsPaid'
<1>1. \A r \in Reports : again[r] \in Nat
  BY DEF IInv, TypeOK
<1>2. stops + unwritten \in Nat
  BY DEF IInv, TypeOK
<1>3. QED  BY <1>1, <1>2 DEF IInv, OwedIsPaid

LEMMA PeopleKeep ==
  ASSUME IInv, NEW r \in Reports,
         Create(r) \/ Pause(r) \/ Resume(r) \/ ResumeForOther(r) \/ Delete(r)
  PROVE  IInv'
<1> USE DEF rows, passes, history, faults
<1>0. TypeOK
  BY DEF IInv
<1>1. UNCHANGED <<clock, plan, jobLock, passes, history, faults>> /\ changes' \in Nat
  BY <1>0 DEF TypeOK, Create, Pause, Resume, ResumeForOther, Delete, Changes
<1>2. NextRun(plan[r], clock) \in Nat /\ NextRun(plan[r], clock) > clock
  BY <1>0, NextRunIsLater DEF TypeOK
<1>3. PICK word \in {"active", "paused", "deleted"} :
        /\ state' = [state EXCEPT ![r] = word]
        /\ next' = next \/ next' = [next EXCEPT ![r] = NextRun(plan[r], clock)]
        /\ state[r] \in {"active", "paused"} \/ next' # next \/ next'[r] = NextRun(plan[r], clock)
  <2>1. next \in [Reports -> Nat]
    BY <1>0 DEF TypeOK
  <2>2. CASE Create(r)
    BY <2>1, <2>2 DEF Create
  <2>3. CASE ~Create(r)
    BY <2>3 DEF Pause, Resume, ResumeForOther, Delete, Changes
  <2>4. QED  BY <2>2, <2>3
<1>4. TypeOK'
  BY <1>0, <1>1, <1>2, <1>3 DEF TypeOK
<1>5. InPass' /\ OneInPass' /\ RunInThePast'
  BY <1>1 DEF IInv, InPass, OneInPass, RunInThePast
<1>6. \A q \in Reports : Owed(q)' => Owed(q)
  <2> SUFFICES ASSUME NEW q \in Reports, Owed(q)' PROVE Owed(q)
    OBVIOUS
  <2>1. CASE \E c \in Copies : q \in due[c] /\ slot[c][q] <= last[q]
    BY <2>1 DEF Owed
  <2>2. CASE state'[q] \in {"active", "paused"} /\ next'[q] <= last[q] /\ \A c \in Copies : doing[c] # q
    <3>1. CASE q # r
      BY <1>0, <1>3, <2>2, <3>1 DEF Owed, TypeOK
    <3>2. CASE q = r /\ next'[r] = NextRun(plan[r], clock)
      <4>1. last[r] <= clock /\ last[r] \in Nat /\ clock \in Nat
        BY <1>0, BoundsAreNumbers DEF IInv, RunInThePast, TypeOK
      <4>2. QED  BY <1>2, <2>2, <3>2, <4>1
    <3>3. CASE q = r /\ next'[r] # NextRun(plan[r], clock)
      <4>1. next' = next /\ state[r] \in {"active", "paused"}
        BY <1>0, <1>3, <3>3 DEF TypeOK
      <4>2. QED  BY <2>2, <3>3, <4>1 DEF Owed
    <3>4. QED  BY <3>1, <3>2, <3>3
  <2>3. QED  BY <1>1, <2>1, <2>2 DEF Owed
<1>7. stops + unwritten \in Nat
  BY <1>0 DEF TypeOK
<1>8. OwedIsPaid'
  BY <1>1, <1>6, <1>7, PaidApart
<1>9. QED  BY <1>4, <1>5, <1>8 DEF IInv

\* The clock goes on; the lock is lost.
LEMMA OutsideKeeps ==
  ASSUME IInv, Tick \/ LoseLock \/ UNCHANGED vars
  PROVE  IInv'
<1> USE DEF rows, passes, history, faults, vars
<1>0. TypeOK
  BY DEF IInv
<1>1. CASE Tick \/ UNCHANGED vars
  <2>1. UNCHANGED <<rows, jobLock, passes, history, changes, faults>> /\ clock' \in 0..MaxTime /\ clock <= clock'
    BY <1>0, <1>1, BoundsAreNumbers DEF Tick, TypeOK
  <2>2. TypeOK'
    BY <1>0, <2>1 DEF TypeOK
  <2>3. InPass' /\ OneInPass'
    <3>1. \A c \in Copies : asOf[c] \in Nat /\ clock \in Nat /\ clock' \in Nat
      BY <1>0, <2>1, BoundsAreNumbers DEF TypeOK
    <3>2. QED  BY <2>1, <3>1 DEF IInv, InPass, OneInPass
  <2>4. RunInThePast'
    <3>1. \A r \in Reports : last[r] \in Nat /\ clock \in Nat /\ clock' \in Nat
      BY <1>0, <2>1, BoundsAreNumbers DEF TypeOK
    <3>2. QED  BY <2>1, <3>1 DEF IInv, RunInThePast
  <2>5. OwedIsPaid'
    BY <2>1 DEF IInv, OwedIsPaid, Owed
  <2>6. QED  BY <2>2, <2>3, <2>4, <2>5 DEF IInv
<1>2. CASE LoseLock
  <2>1. UNCHANGED <<clock, rows, passes, history, changes, stops, unwritten>> /\ jobLock' = None
        /\ lost' \in Nat /\ lost' # 0
    BY <1>0, <1>2 DEF LoseLock, TypeOK
  <2>2. TypeOK'
    BY <1>0, <2>1 DEF TypeOK
  <2>3. QED  BY <2>1, <2>2 DEF IInv, InPass, OneInPass, RunInThePast, OwedIsPaid
<1>3. QED  BY <1>1, <1>2

LEMMA StartKeeps ==
  ASSUME IInv, NEW c \in Copies, Start(c)
  PROVE  IInv'
<1> USE DEF rows, passes, history, faults, Goes
<1>0. TypeOK
  BY DEF IInv
<1>1. /\ jobLock = None /\ jobLock' = c /\ at[c] = "idle" /\ at' = [at EXCEPT ![c] = "next"]
      /\ asOf' = [asOf EXCEPT ![c] = clock] /\ due' = [due EXCEPT ![c] = DueAt(clock)]
      /\ UNCHANGED <<clock, rows, doing, history, changes, faults>>
  BY DEF Start
<1>2. PICK times : /\ times = [r \in Reports |-> IF r \in DueAt(clock) THEN next[r] ELSE 0]
                   /\ slot' = [slot EXCEPT ![c] = times]
  BY DEF Start
<1>3. clock \in Nat /\ clock \in 0..MaxTime /\ DueAt(clock) \subseteq Reports
  BY <1>0, BoundsAreNumbers DEF TypeOK, DueAt
<1>4. /\ times \in [Reports -> 0..MaxTime]
      /\ \A r \in DueAt(clock) : times[r] = next[r] /\ next[r] <= clock /\ state[r] = "active"
  <2>1. next \in [Reports -> Nat]
    BY <1>0 DEF TypeOK
  <2>2. QED  BY <1>2, <1>3, <2>1, BoundsAreNumbers DEF DueAt
<1>5. TypeOK'
  BY <1>0, <1>1, <1>2, <1>3, <1>4 DEF TypeOK
<1>6. InPass'
  <2> SUFFICES ASSUME NEW d \in Copies
               PROVE  /\ doing'[d] # None <=> at'[d] \in {"save", "failed"}
                      /\ doing'[d] \notin due'[d]
                      /\ at'[d] = "idle" => due'[d] = {}
                      /\ asOf'[d] <= clock'
                      /\ \A r \in due'[d] : slot'[d][r] <= asOf'[d]
    BY DEF InPass
  <2>1. CASE d = c
    <3>1. doing'[c] = None /\ at'[c] = "next" /\ due'[c] = DueAt(clock) /\ asOf'[c] = clock /\ slot'[c] = times
      BY <1>0, <1>1, <1>2 DEF TypeOK, IInv, InPass
    <3>2. QED  BY <1>1, <1>3, <1>4, <2>1, <3>1, NoneIsApart
  <2>2. CASE d # c
    BY <1>0, <1>1, <1>2, <2>2 DEF IInv, InPass, TypeOK
  <2>3. QED  BY <2>1, <2>2
<1>7. OneInPass'
  BY <1>0, <1>1, NoneIsApart DEF IInv, OneInPass, TypeOK
<1>8. RunInThePast'
  BY <1>0, <1>1 DEF IInv, RunInThePast, TypeOK
<1>9. \A r \in Reports : Owed(r)' => Owed(r) \/ lost # 0
  <2> SUFFICES ASSUME NEW r \in Reports, Owed(r)', lost = 0 PROVE Owed(r)
    OBVIOUS
  <2>1. CASE state[r] \in {"active", "paused"} /\ next[r] <= last[r] /\ \A d \in Copies : doing[d] # r
    BY <2>1 DEF Owed
  <2>2. CASE \E d \in Copies : r \in due'[d] /\ slot'[d][r] <= last[r]
    <3>1. PICK d \in Copies : r \in due'[d] /\ slot'[d][r] <= last[r]
      BY <2>2
    <3>2. CASE d = c
      <4>1. r \in DueAt(clock) /\ slot'[c] = times
        BY <1>0, <1>1, <1>2, <3>1, <3>2 DEF TypeOK
      <4>2. state[r] = "active" /\ next[r] <= last[r]
        BY <1>4, <3>1, <3>2, <4>1
      <4>3. \A e \in Copies : doing[e] = None
        BY <1>1, NoneIsApart DEF IInv, OneInPass, InPass
      <4>4. QED  BY <4>2, <4>3, NoneIsApart DEF Owed
    <3>3. CASE d # c
      BY <1>0, <1>1, <1>2, <3>1, <3>3 DEF Owed, TypeOK
    <3>4. QED  BY <3>2, <3>3
  <2>3. QED  BY <1>1, <2>1, <2>2 DEF Owed
<1>10. OwedIsPaid'
  BY <1>1, <1>9 DEF IInv, OwedIsPaid
<1>11. QED  BY <1>5, <1>6, <1>7, <1>8, <1>10 DEF IInv

LEMMA RunKeeps ==
  ASSUME IInv, NEW c \in Copies, Run(c)
  PROVE  IInv'
<1> USE DEF rows, passes, history, faults, Goes
<1>0. TypeOK
  BY DEF IInv
<1>1. PICK r \in due[c] :
        /\ due' = [due EXCEPT ![c] = @ \ {r}]
        /\ doing' = [doing EXCEPT ![c] = r]
        /\ IF slot[c][r] > last[r]
           THEN last' = [last EXCEPT ![r] = slot[c][r]] /\ UNCHANGED again
           ELSE again' = [again EXCEPT ![r] = @ + 1] /\ UNCHANGED last
  BY DEF Run
<1>2. PICK to \in {"save", "failed"} : at[c] = "next" /\ at' = [at EXCEPT ![c] = to]
  BY DEF Run
<1>3. UNCHANGED <<clock, rows, jobLock, asOf, slot, changes, faults>> /\ r \in Reports /\ r # None
  BY <1>0, <1>1, NoneIsApart DEF Run, TypeOK
<1>4. slot[c][r] \in 0..MaxTime /\ last[r] \in 0..MaxTime /\ again[r] \in Nat
      /\ slot[c][r] <= asOf[c] /\ asOf[c] <= clock
      /\ asOf[c] \in Nat /\ clock \in Nat
  BY <1>0, <1>1, <1>3, BoundsAreNumbers DEF TypeOK, IInv, InPass
<1>5. /\ last'[r] \in {last[r], slot[c][r]} /\ last'[r] >= slot[c][r]
      /\ last' \in [Reports -> 0..MaxTime] /\ again' \in [Reports -> Nat]
      /\ \A q \in Reports : q # r => last'[q] = last[q] /\ again'[q] = again[q]
  <2>1. last \in [Reports -> 0..MaxTime] /\ again \in [Reports -> Nat]
    BY <1>0 DEF TypeOK
  <2>2. CASE slot[c][r] > last[r]
    <3>1. last' = [last EXCEPT ![r] = slot[c][r]] /\ again' = again
      BY <1>1, <2>2
    <3>2. QED  BY <1>3, <1>4, <2>1, <3>1, BoundsAreNumbers
  <2>3. CASE ~(slot[c][r] > last[r])
    <3>1. again' = [again EXCEPT ![r] = @ + 1] /\ last' = last
      BY <1>1, <2>3
    <3>2. QED  BY <1>3, <1>4, <2>1, <2>3, <3>1, BoundsAreNumbers
  <2>4. QED  BY <2>2, <2>3
<1>6. TypeOK'
  BY <1>0, <1>1, <1>2, <1>3, <1>5 DEF TypeOK
<1>7. InPass'
  <2> SUFFICES ASSUME NEW d \in Copies
               PROVE  /\ doing'[d] # None <=> at'[d] \in {"save", "failed"}
                      /\ doing'[d] \notin due'[d]
                      /\ at'[d] = "idle" => due'[d] = {}
                      /\ asOf'[d] <= clock'
                      /\ \A q \in due'[d] : slot'[d][q] <= asOf'[d]
    BY DEF InPass
  <2>1. CASE d = c
    BY <1>0, <1>1, <1>2, <1>3, <2>1 DEF IInv, InPass, TypeOK
  <2>2. CASE d # c
    BY <1>0, <1>1, <1>2, <1>3, <2>2 DEF IInv, InPass, TypeOK
  <2>3. QED  BY <2>1, <2>2
<1>8. OneInPass'
  BY <1>0, <1>2, <1>3 DEF IInv, OneInPass, TypeOK
<1>9. RunInThePast'
  <2>1. \A q \in Reports : last'[q] <= clock
    BY <1>4, <1>5 DEF IInv, RunInThePast
  <2>2. ASSUME lost = 0, NEW d \in Copies, NEW q \in Reports, at'[d] # "idle"
        PROVE  last'[q] <= asOf[d]
    <3>1. d = c
      BY <1>0, <1>2, <2>2 DEF IInv, OneInPass, TypeOK
    <3>2. last[q] <= asOf[c]
      BY <1>2, <2>2 DEF IInv, RunInThePast
    <3>3. QED  BY <1>4, <1>5, <3>1, <3>2
  <2>3. QED  BY <1>3, <2>1, <2>2 DEF RunInThePast
<1>10. OwedIsPaid'
  <2> SUFFICES ASSUME NoneRaises', lost' = 0, NEW q \in Reports
               PROVE  /\ again'[q] <= stops' + unwritten'
                      /\ Owed(q)' => again'[q] + 1 <= stops' + unwritten'
    BY DEF OwedIsPaid
  <2>0. NoneRaises /\ lost = 0 /\ stops' = stops /\ unwritten' = unwritten
    BY <1>3, AlwaysNoneRaises
  <2>1. again'[r] <= stops + unwritten
    <3>1. CASE slot[c][r] > last[r]
      BY <1>1, <1>3, <2>0, <3>1 DEF IInv, OwedIsPaid
    <3>2. CASE ~(slot[c][r] > last[r])
      <4>1. Owed(r)
        BY <1>1, <1>4, <3>2 DEF Owed
      <4>2. again'[r] = again[r] + 1
        BY <1>0, <1>1, <1>3, <3>2 DEF TypeOK
      <4>3. QED  BY <1>3, <2>0, <4>1, <4>2 DEF IInv, OwedIsPaid
    <3>3. QED  BY <3>1, <3>2
  <2>2. \A d \in Copies : d # c => due[d] = {} /\ due'[d] = {}
    BY <1>0, <1>1, <1>2, <2>0 DEF IInv, OneInPass, InPass, TypeOK
  <2>3. due'[c] = due[c] \ {r} /\ doing'[c] = r /\ \A d \in Copies : d # c => doing'[d] = doing[d]
    BY <1>0, <1>1 DEF TypeOK
  <2>4. ~Owed(r)'
    BY <2>2, <2>3 DEF Owed
  <2>5. q # r /\ Owed(q)' => Owed(q)
    <3> SUFFICES ASSUME q # r, Owed(q)' PROVE Owed(q)
      OBVIOUS
    <3>1. doing[c] = None
      BY <1>2 DEF IInv, InPass
    <3>2. CASE \E d \in Copies : q \in due'[d] /\ slot[d][q] <= last'[q]
      BY <1>5, <2>2, <2>3, <3>2 DEF Owed
    <3>3. CASE state[q] \in {"active", "paused"} /\ next[q] <= last'[q] /\ \A d \in Copies : doing'[d] # q
      BY <1>5, <2>3, <3>1, <3>3, NoneIsApart DEF Owed
    <3>4. QED  BY <1>3, <3>2, <3>3 DEF Owed
  <2>6. QED  BY <1>5, <2>0, <2>1, <2>4, <2>5 DEF IInv, OwedIsPaid
<1>11. QED  BY <1>6, <1>7, <1>8, <1>9, <1>10 DEF IInv

\* The pass goes on with the next report, or ends: nothing is run.
LEMMA NothingRun ==
  ASSUME IInv, NEW c \in Copies, UNCHANGED <<clock, lost, last>>,
         \/ at[c] # "idle" /\ jobLock' = jobLock
         \/ at'[c] = "idle" /\ jobLock' = IF jobLock = c THEN None ELSE jobLock,
         \A d \in Copies : d # c =>
           /\ at'[d] = at[d] /\ asOf'[d] = asOf[d] /\ due'[d] = due[d] /\ slot'[d] = slot[d] /\ doing'[d] = doing[d],
         doing'[c] = None /\ at'[c] \notin {"save", "failed"},
         \/ at'[c] = "idle" /\ due'[c] = {} /\ asOf'[c] = 0
         \/ at'[c] # "idle" /\ due'[c] = due[c] /\ asOf'[c] = asOf[c] /\ slot'[c] = slot[c]
  PROVE  InPass' /\ OneInPass' /\ RunInThePast'
<1>1. InPass'
  <2> SUFFICES ASSUME NEW d \in Copies
               PROVE  /\ doing'[d] # None <=> at'[d] \in {"save", "failed"}
                      /\ doing'[d] \notin due'[d]
                      /\ at'[d] = "idle" => due'[d] = {}
                      /\ asOf'[d] <= clock'
                      /\ \A r \in due'[d] : slot'[d][r] <= asOf'[d]
    BY DEF InPass
  <2>1. CASE d # c
    BY <2>1 DEF IInv, InPass
  <2>2. CASE d = c
    <3>1. None \notin due[c] /\ 0 <= clock
      BY NoneIsApart, BoundsAreNumbers DEF IInv, TypeOK
    <3>2. QED  BY <2>2, <3>1 DEF IInv, InPass
  <2>3. QED  BY <2>1, <2>2
<1>2. OneInPass'
  BY DEF IInv, OneInPass
<1>3. RunInThePast'
  BY DEF IInv, OneInPass, RunInThePast
<1>4. QED  BY <1>1, <1>2, <1>3

LEMMA WriteKeeps ==
  ASSUME IInv, NEW c \in Copies, Save(c) \/ Reschedule(c)
  PROVE  IInv'
<1> USE DEF rows, passes, history, faults
<1>0. TypeOK /\ at[c] \in {"save", "failed"}
  BY DEF IInv, Save, Reschedule
<1>1. PICK r : r = doing[c]
  OBVIOUS
<1>2. r \in Reports /\ r # None /\ r \notin due[c]
  BY <1>0, <1>1 DEF TypeOK, IInv, InPass
<1>3. /\ next' = IF state[r] = "deleted" THEN next ELSE [next EXCEPT ![r] = NextRun(plan[r], asOf[c])]
      /\ at' = [at EXCEPT ![c] = "next"] /\ doing' = [doing EXCEPT ![c] = None]
      /\ UNCHANGED <<clock, plan, state, jobLock, asOf, due, slot, history, changes, faults>>
  BY <1>1 DEF Save, Reschedule, Write
<1>4. NextRun(plan[r], asOf[c]) \in Nat /\ NextRun(plan[r], asOf[c]) > asOf[c]
  BY <1>0, <1>2, NextRunIsLater DEF TypeOK
<1>5. next' \in [Reports -> Nat] /\ \A q \in Reports : q # r => next'[q] = next[q]
  BY <1>0, <1>2, <1>3, <1>4 DEF TypeOK
<1>6. TypeOK'
  BY <1>0, <1>3, <1>5 DEF TypeOK
<1>7. InPass' /\ OneInPass' /\ RunInThePast'
  BY <1>0, <1>3, NothingRun DEF TypeOK
<1>8. \A q \in Reports : Owed(q)' => Owed(q) \/ lost # 0
  <2> SUFFICES ASSUME NEW q \in Reports, Owed(q)', lost = 0 PROVE Owed(q)
    OBVIOUS
  <2>1. CASE \E d \in Copies : q \in due[d] /\ slot[d][q] <= last[q]
    BY <2>1 DEF Owed
  <2>2. CASE state[q] \in {"active", "paused"} /\ next'[q] <= last[q] /\ \A d \in Copies : doing'[d] # q
    <3>1. q # r
      <4>1. SUFFICES ASSUME q = r PROVE FALSE
        OBVIOUS
      <4>2. next'[r] = NextRun(plan[r], asOf[c])
        BY <1>0, <1>2, <1>3, <2>2, <4>1 DEF TypeOK
      <4>3. last[r] <= asOf[c] /\ last[r] \in Nat /\ asOf[c] \in Nat
        BY <1>0, <1>2, BoundsAreNumbers DEF IInv, RunInThePast, TypeOK
      <4>4. QED  BY <1>4, <2>2, <4>1, <4>2, <4>3
    <3>2. next[q] <= last[q] /\ \A d \in Copies : doing[d] # q
      BY <1>0, <1>1, <1>3, <1>5, <2>2, <3>1 DEF TypeOK
    <3>3. QED  BY <2>2, <3>2 DEF Owed
  <2>3. QED  BY <1>3, <2>1, <2>2 DEF Owed
<1>9. OwedIsPaid'
  BY <1>3, <1>8 DEF IInv, OwedIsPaid
<1>10. QED  BY <1>6, <1>7, <1>9 DEF IInv

LEMMA SaveFailsKeeps ==
  ASSUME IInv, NEW c \in Copies, SaveFails(c)
  PROVE  IInv'
<1> USE DEF rows, passes, history, faults, Goes
<1>0. TypeOK
  BY DEF IInv
<1>1. at[c] = "save" /\ at' = [at EXCEPT ![c] = "failed"]
      /\ UNCHANGED <<clock, rows, jobLock, asOf, due, slot, doing, history, changes, faults>>
  BY DEF SaveFails
<1>2. TypeOK'
  BY <1>0, <1>1 DEF TypeOK
<1>3. InPass' /\ OneInPass' /\ RunInThePast'
  BY <1>0, <1>1 DEF TypeOK, IInv, InPass, OneInPass, RunInThePast
<1>4. OwedIsPaid'
  BY <1>1 DEF IInv, OwedIsPaid, Owed
<1>5. QED  BY <1>2, <1>3, <1>4 DEF IInv

\* The next run is not written, or the pass is cut off: a fault that pays for one more run of each report.
LEMMA FaultKeeps ==
  ASSUME IInv, NEW c \in Copies, GiveUp(c) \/ Stop(c)
  PROVE  IInv'
<1> USE DEF rows, passes, history, faults, Goes
<1>0. TypeOK
  BY DEF IInv
<1>1. CASE GiveUp(c)
  <2>1. doing[c] \in Reports
    BY <1>0, <1>1 DEF GiveUp, TypeOK, IInv, InPass
  <2>2. /\ at[c] = "failed" /\ at' = [at EXCEPT ![c] = "next"] /\ unwritten' \in {unwritten, unwritten + 1}
        /\ doing' = [doing EXCEPT ![c] = None]
        /\ UNCHANGED <<clock, rows, jobLock, asOf, due, slot, history, changes, stops, lost>>
    BY <1>1 DEF GiveUp
  <2>3. TypeOK'
    BY <1>0, <2>2 DEF TypeOK
  <2>4. InPass' /\ OneInPass' /\ RunInThePast'
    BY <1>0, <2>2, NothingRun DEF TypeOK
  <2>5. stops \in Nat /\ unwritten \in Nat
    BY <1>0 DEF TypeOK
  <2>6. ASSUME NoneRaises PROVE OwedIsPaid'
    <3>1. ~Raises(plan[doing[c]], asOf[c])
      BY <1>0, <2>1, <2>6 DEF TypeOK, NoneRaises
    <3>2. unwritten' = unwritten + 1
      BY <1>1, <3>1 DEF GiveUp
    <3>3. QED  BY <2>2, <2>5, <3>2, PaidApart
  <2>7. ASSUME ~NoneRaises PROVE OwedIsPaid'
    BY <2>7, AlwaysNoneRaises DEF OwedIsPaid
  <2>8. QED  BY <2>3, <2>4, <2>6, <2>7 DEF IInv
<1>2. CASE Stop(c)
  <2>1. /\ at[c] # "idle" /\ at' = [at EXCEPT ![c] = "idle"] /\ stops' = stops + 1
        /\ asOf' = [asOf EXCEPT ![c] = 0] /\ due' = [due EXCEPT ![c] = {}]
        /\ slot' = [slot EXCEPT ![c] = [r \in Reports |-> 0]]
        /\ doing' = [doing EXCEPT ![c] = None]
        /\ jobLock' = IF jobLock = c THEN None ELSE jobLock
        /\ UNCHANGED <<clock, rows, history, changes, lost, unwritten>>
    BY <1>2 DEF Stop, Leaves
  <2>2. TypeOK'
    BY <1>0, <2>1, BoundsAreNumbers DEF TypeOK
  <2>3. InPass' /\ OneInPass' /\ RunInThePast'
    BY <1>0, <2>1, NothingRun DEF TypeOK
  <2>4. stops \in Nat /\ unwritten \in Nat
    BY <1>0 DEF TypeOK
  <2>5. OwedIsPaid'
    BY <2>1, <2>4, PaidApart
  <2>6. QED  BY <2>2, <2>3, <2>5 DEF IInv
<1>3. QED  BY <1>1, <1>2

LEMMA EndKeeps ==
  ASSUME IInv, NEW c \in Copies, End(c)
  PROVE  IInv'
<1> USE DEF rows, passes, history, faults
<1>0. TypeOK
  BY DEF IInv
<1>1. /\ at[c] = "next" /\ due[c] = {} /\ at' = [at EXCEPT ![c] = "idle"]
      /\ asOf' = [asOf EXCEPT ![c] = 0] /\ due' = [due EXCEPT ![c] = {}]
      /\ slot' = [slot EXCEPT ![c] = [r \in Reports |-> 0]]
      /\ doing' = [doing EXCEPT ![c] = None]
      /\ jobLock' = IF jobLock = c THEN None ELSE jobLock
      /\ UNCHANGED <<clock, rows, history, changes, faults>>
  BY DEF End, Leaves
<1>2. TypeOK'
  BY <1>0, <1>1, BoundsAreNumbers DEF TypeOK
<1>3. InPass' /\ OneInPass' /\ RunInThePast'
  BY <1>0, <1>1, NothingRun DEF TypeOK
<1>4. doing' = doing
  BY <1>0, <1>1 DEF TypeOK, IInv, InPass
<1>5. \A r \in Reports : Owed(r)' => Owed(r)
  BY <1>0, <1>1, <1>4 DEF TypeOK, Owed
<1>6. OwedIsPaid'
  BY <1>1, <1>5 DEF IInv, OwedIsPaid
<1>7. QED  BY <1>2, <1>3, <1>6 DEF IInv

LEMMA Next_IInv == IInv /\ [Next]_vars => IInv'
<1> SUFFICES ASSUME IInv, [Next]_vars PROVE IInv'
  OBVIOUS
<1>1. CASE Tick \/ LoseLock \/ UNCHANGED vars
  BY <1>1, OutsideKeeps
<1>2. ASSUME NEW r \in Reports, Create(r) \/ Pause(r) \/ Resume(r) \/ ResumeForOther(r) \/ Delete(r)
      PROVE  IInv'
  BY <1>2, PeopleKeep
<1>3. ASSUME NEW c \in Copies, Pass(c) \/ Stop(c) PROVE IInv'
  BY <1>3, StartKeeps, RunKeeps, WriteKeeps, SaveFailsKeeps, FaultKeeps, EndKeeps DEF Pass
<1>4. QED  BY <1>1, <1>2, <1>3 DEF Next

-----------------------------------------------------------------------------
(* The theorems *)

\* The rows of the reports and what a pass holds in memory are always of their types.
THEOREM TypeCorrect == Spec => []TypeOK
<1>1. IInv => TypeOK
  BY DEF IInv
<1>2. QED  BY <1>1, Init_IInv, Next_IInv, PTL DEF Spec

\* As long as the job lock is held and no schedule comes upon a month without its day, a report is run
\* again for a time it was run for already at most once for each pass that died and each next run that
\* could not be written, whatever people pause, resume or delete meanwhile.
THEOREM OncePerSlotHolds ==
  ASSUME NoneRaises
  PROVE  Spec => []OncePerSlot
<1>1. IInv => OncePerSlot
  BY DEF IInv, OwedIsPaid, OncePerSlot
<1>2. QED  BY <1>1, Init_IInv, Next_IInv, PTL DEF Spec

-----------------------------------------------------------------------------
(* Days, hours and months *)

\* A number has one quotient and one remainder.
LEMMA OneQuotient ==
  ASSUME NEW q \in Nat, NEW p \in Nat \ {0}, NEW r \in 0..(p - 1)
  PROVE  (q * p + r) \div p = q /\ (q * p + r) % p = r
<1>1. PICK t \in Nat : t = q * p + r
  OBVIOUS
<1>2. PICK d \in Nat : d = t \div p /\ d * p <= t /\ t < d * p + p
  BY WithinPeriod
<1>3. ASSUME NEW a \in Nat, NEW b \in Nat, a < b PROVE a * p + p <= b * p
  BY <1>3, SMTT(30)
<1>4. d * p \in Nat /\ q * p \in Nat
  OBVIOUS
<1>5. ~(d < q) /\ ~(q < d)
  BY <1>1, <1>2, <1>3, <1>4
<1>6. d = q
  BY <1>5
<1>7. t % p = t - d * p
  BY <1>2, SMTT(30)
<1>8. QED  BY <1>1, <1>2, <1>4, <1>6, <1>7

LEMMA QuotientAndRemainder ==
  ASSUME NEW t \in Nat, NEW p \in Nat \ {0}
  PROVE  \E q \in Nat, r \in 0..(p - 1) : q = t \div p /\ r = t % p /\ t = q * p + r
<1>1. PICK q \in Nat, r \in 0..(p - 1) : q = t \div p /\ r = t % p
  BY WithinPeriod, Remainder
<1>2. r = t - q * p
  BY <1>1, SMTT(30)
<1>3. PICK x \in Nat : x = q * p
  OBVIOUS
<1>4. t = x + r
  BY <1>2, <1>3
<1>5. QED  BY <1>1, <1>3, <1>4

\* Of the moments with one remainder the later ones are a period later.
LEMMA PeriodsApart ==
  ASSUME NEW p \in Nat, NEW r \in Nat, NEW a \in Nat, NEW b \in Nat, a * p + r < b * p + r
  PROVE  a < b /\ a * p + r + p <= b * p + r
<1>1. ASSUME NEW i \in Nat, NEW j \in Nat, i <= j PROVE i * p <= j * p
  BY <1>1, SMTT(30)
<1>2. a * p \in Nat /\ b * p \in Nat
  OBVIOUS
<1>3. ~(b <= a)
  BY <1>1, <1>2
<1>4. (a + 1) * p <= b * p /\ (a + 1) * p = a * p + p
  <2>1. a + 1 <= b
    BY <1>3
  <2>2. (a + 1) * p = a * p + p
    BY SMTT(30)
  <2>3. QED  BY <1>1, <2>1, <2>2
<1>5. QED  BY <1>2, <1>3, <1>4

\* The day, hour and minute of a moment.
LEMMA Coordinates ==
  ASSUME NEW t \in Nat
  PROVE  /\ DayOf(t) \in Nat /\ HourOf(t) \in 0..(HoursPerDay - 1) /\ MinuteOf(t) \in 0..(MinutesPerHour - 1)
         /\ t = OnDay(DayOf(t), HourOf(t), MinuteOf(t))
<1>1. PICK M \in Nat \ {0}, H \in Nat \ {0} : M = MinutesPerHour /\ H = HoursPerDay
  BY CalendarIsInOrder
<1>2. PICK P \in Nat \ {0} : P = PerDay /\ P = H * M
  BY <1>1, PerDayPositive DEF PerDay
<1>3. PICK d \in Nat, s \in 0..(P - 1) : d = t \div P /\ s = t % P /\ t = d * P + s
  BY QuotientAndRemainder
<1>4. PICK h \in Nat, mi \in 0..(M - 1) : h = s \div M /\ s = h * M + mi
  BY QuotientAndRemainder
<1>5. h < H
  <2>1. h * M < H * M
    <3>1. h * M \in Nat /\ H * M \in Nat /\ s < P
      BY <1>3
    <3>2. QED  BY <1>2, <1>4, <3>1
  <2>2. ASSUME NEW i \in Nat, NEW j \in Nat, i <= j PROVE i * M <= j * M
    BY <2>2, SMTT(30)
  <2>3. h * M \in Nat /\ H * M \in Nat
    OBVIOUS
  <2>4. QED  BY <2>1, <2>2, <2>3
<1>6. t = (d * H + h) * M + mi /\ d * H + h \in Nat
  <2>1. d * (H * M) = (d * H) * M
    BY SMTT(30)
  <2>2. (d * H + h) * M = (d * H) * M + h * M
    BY SMTT(30)
  <2>3. d * H \in Nat /\ h * M \in Nat /\ (d * H) * M \in Nat
    OBVIOUS
  <2>4. d * P = (d * H) * M
    BY <1>2, <2>1
  <2>5. t = (d * H) * M + h * M + mi
    <3>1. PICK x \in Nat, y \in Nat : x = d * P /\ y = h * M
      BY <2>3
    <3>2. t = x + s /\ s = y + mi
      BY <1>3, <1>4, <3>1
    <3>3. t = x + y + mi
      BY <3>1, <3>2
    <3>4. QED  BY <2>4, <3>1, <3>3
  <2>6. d * H + h \in Nat
    BY <2>3
  <2>7. QED  BY <2>2, <2>5, <2>6
<1>7. t % M = mi
  BY <1>6, OneQuotient
<1>8. DayOf(t) = d /\ HourOf(t) = h /\ MinuteOf(t) = mi
  BY <1>1, <1>2, <1>3, <1>4, <1>7 DEF DayOf, HourOf, MinuteOf
<1>9. h * M \in Nat /\ d * P \in Nat
  OBVIOUS
<1>10. t = d * P + h * M + mi
  BY <1>3, <1>4, <1>9
<1>11. QED  BY <1>1, <1>2, <1>5, <1>8, <1>10 DEF OnDay

LEMMA OnDayIs ==
  ASSUME NEW d \in Nat, NEW h \in 0..(HoursPerDay - 1), NEW mi \in 0..(MinutesPerHour - 1)
  PROVE  LET t == OnDay(d, h, mi)
         IN t \in Nat /\ DayOf(t) = d /\ HourOf(t) = h /\ MinuteOf(t) = mi
<1>1. PICK M \in Nat \ {0}, H \in Nat \ {0} : M = MinutesPerHour /\ H = HoursPerDay
  BY CalendarIsInOrder
<1>2. PICK P \in Nat \ {0} : P = PerDay /\ P = H * M
  BY <1>1, PerDayPositive DEF PerDay
<1>3. h \in Nat /\ h < H /\ mi \in Nat /\ mi < M /\ h * M \in Nat /\ d * P \in Nat
  BY <1>1
<1>4. PICK s \in Nat : s = h * M + mi
  BY <1>3
<1>5. s \in 0..(P - 1)
  <2>1. ASSUME NEW i \in Nat, NEW j \in Nat, i < j PROVE i * M + M <= j * M
    BY <2>1, SMTT(30)
  <2>2. h * M + M <= H * M
    BY <1>3, <2>1
  <2>3. QED  BY <1>2, <1>3, <1>4, <2>2
<1>6. PICK t \in Nat : t = d * P + s /\ t = OnDay(d, h, mi)
  BY <1>1, <1>2, <1>3, <1>4 DEF OnDay
<1>7. t \div P = d /\ t % P = s
  <2>1. (d * P + s) \div P = d /\ (d * P + s) % P = s
    BY <1>5, OneQuotient
  <2>2. QED  BY <1>6, <2>1
<1>8. s \div M = h
  BY <1>3, <1>4, OneQuotient
<1>9. t = (d * H + h) * M + mi /\ d * H + h \in Nat
  <2>1. d * (H * M) = (d * H) * M
    BY SMTT(30)
  <2>2. (d * H + h) * M = (d * H) * M + h * M
    BY <1>3, SMTT(30)
  <2>3. d * H \in Nat /\ (d * H) * M \in Nat
    OBVIOUS
  <2>4. d * P = (d * H) * M
    BY <1>2, <2>1
  <2>5. t = (d * H) * M + h * M + mi
    BY <1>3, <1>4, <1>6, <2>3, <2>4
  <2>6. d * H + h \in Nat
    BY <1>3, <2>3
  <2>7. QED  BY <2>2, <2>5, <2>6
<1>10. t % M = mi
  BY <1>3, <1>9, OneQuotient
<1>11. QED  BY <1>1, <1>2, <1>6, <1>7, <1>8, <1>10 DEF DayOf, HourOf, MinuteOf

\* Days follow each other.
LEMMA DaysInOrder ==
  ASSUME NEW t \in Nat, NEW u \in Nat, t <= u
  PROVE  DayOf(t) <= DayOf(u)
<1>1. PICK p \in Nat \ {0} : p = PerDay
  BY PerDayPositive
<1>2. PICK d \in Nat, e \in Nat : d = DayOf(t) /\ e = DayOf(u) /\ d * p <= t /\ u < e * p + p
  BY <1>1, WithinPeriod DEF DayOf
<1>3. ASSUME NEW i \in Nat, NEW j \in Nat, i < j PROVE i * p + p <= j * p
  BY <1>3, SMTT(30)
<1>4. d * p \in Nat /\ e * p \in Nat
  OBVIOUS
<1>5. QED  BY <1>2, <1>3, <1>4

\* The month of a moment is the one its day is in.
LEMMA MonthIs ==
  ASSUME NEW t \in Nat, NEW m \in Months, Starts[m] <= DayOf(t), DayOf(t) < Starts[m + 1]
  PROVE  MonthOf(t) = m
<1>0. DayOf(t) \in Nat /\ Len(Starts) \in Nat /\ \A i \in 1..Len(Starts) : Starts[i] \in Nat
  <2>1. DayOf(t) \in Nat
    BY Coordinates
  <2>2. QED  BY <2>1, CalendarIsInOrder
<1>1. \A i, j \in 1..Len(Starts) : i < j => Starts[i] < Starts[j]
  <2>1. DOMAIN Starts = 1..Len(Starts)
    BY CalendarIsInOrder
  <2>2. QED  BY <2>1, CalendarIsInOrder
<1>2. \A i, j \in 1..Len(Starts) : i <= j => Starts[i] <= Starts[j]
  BY <1>0, <1>1
<1>3. ASSUME NEW n \in Months, Starts[n] <= DayOf(t), DayOf(t) < Starts[n + 1] PROVE n = m
  <2>1. n \in Nat /\ m \in Nat /\ n \in 1..Len(Starts) /\ n + 1 \in 1..Len(Starts)
        /\ m \in 1..Len(Starts) /\ m + 1 \in 1..Len(Starts)
    BY <1>0 DEF Months
  <2>2. ~(n + 1 <= m) /\ ~(m + 1 <= n)
    BY <1>0, <1>2, <1>3, <2>1, SMTT(30)
  <2>3. QED  BY <2>1, <2>2
<1>4. QED  BY <1>3 DEF MonthOf

-----------------------------------------------------------------------------
(* The next run is the first minute the schedule names *)

\* No report is for midnight, which compute_next_run takes for no hour.
NoMidnight == \A s \in Schedules : s.type \in {"daily", "weekly", "monthly"} => s.hour # 0

\* No monthly report is of a day that some month has not.
EveryMonthHasTheDay == \A s \in Schedules, m \in Months : s.type = "monthly" => s.day <= Lengths[m]

LEMMA HourIsNamed ==
  ASSUME NoMidnight, NEW s \in Schedules, s.type \in {"daily", "weekly", "monthly"}
  PROVE  /\ Hour(s) = (IF s.hour = None THEN DefaultHour[s.type] ELSE s.hour)
         /\ Hour(s) \in 0..(HoursPerDay - 1) /\ s.minute \in 0..(MinutesPerHour - 1)
BY SchedulesAreInRange DEF NoMidnight, Hour

\* What a schedule of days names is its hour and minute on some day.
LEMMA NamedIsOnDay ==
  ASSUME NoMidnight, NEW s \in Schedules, s.type \in {"daily", "weekly", "monthly"}, NEW t \in Nat, Names(s, t)
  PROVE  t = OnDay(DayOf(t), Hour(s), s.minute)
BY HourIsNamed, Coordinates DEF Names

\* Of two such moments the later one is on a later day.
LEMMA LaterOnDay ==
  ASSUME NEW d \in Nat, NEW e \in Nat, NEW h \in Nat, NEW mi \in Nat, OnDay(d, h, mi) < OnDay(e, h, mi)
  PROVE  d < e
<1>1. PICK p \in Nat : p = PerDay
  BY PerDayPositive
<1>2. PICK r \in Nat : r = h * MinutesPerHour + mi
  <2>1. h * MinutesPerHour \in Nat
    BY CalendarIsInOrder
  <2>2. QED  BY <2>1
<1>3. OnDay(d, h, mi) = d * p + r /\ OnDay(e, h, mi) = e * p + r
  <2>1. PICK x \in Nat, y \in Nat, z \in Nat : x = d * p /\ y = e * p /\ z = h * MinutesPerHour
    BY CalendarIsInOrder
  <2>2. OnDay(d, h, mi) = x + z + mi /\ OnDay(e, h, mi) = y + z + mi
    BY <1>1, <2>1 DEF OnDay
  <2>3. QED  BY <1>2, <2>1, <2>2
<1>4. QED  BY <1>3, PeriodsApart

LEMMA FirstHourly ==
  ASSUME NEW s \in Schedules, NEW now \in 0..MaxTime, s.type = "hourly"
  PROVE  FirstNamed(s, now, NextRun(s, now))
<1>1. PICK M \in Nat \ {0}, mi \in 0..(MinutesPerHour - 1) : M = MinutesPerHour /\ mi = s.minute
  BY CalendarIsInOrder, SchedulesAreInRange
<1>2. now \in Nat /\ NextRun(s, now) \in Nat /\ NextRun(s, now) > now
  BY BoundsAreNumbers, NextRunIsLater
<1>3. PICK q \in Nat, r \in 0..(M - 1), x \in Nat : q = now \div M /\ r = now % M /\ x = q * M /\ now = x + r
  BY <1>2, QuotientAndRemainder
<1>4. NextRun(s, now) = Later(x + mi, now, M)
  BY <1>1, <1>3 DEF NextRun, MinuteOf
<1>5. PICK k \in {q, q + 1} : NextRun(s, now) = k * M + mi /\ (k = q + 1 => x + mi <= now)
  <2>1. (q + 1) * M = x + M
    BY <1>3, SMTT(30)
  <2>2. CASE x + mi <= now
    <3>1. NextRun(s, now) = (q + 1) * M + mi
      BY <1>1, <1>3, <1>4, <2>1, <2>2 DEF Later
    <3>2. QED  BY <2>2, <3>1
  <2>3. CASE ~(x + mi <= now)
    <3>1. NextRun(s, now) = q * M + mi /\ q # q + 1
      BY <1>1, <1>3, <1>4, <2>3 DEF Later
    <3>2. QED  BY <3>1
  <2>4. QED  BY <2>2, <2>3
<1>6. Names(s, NextRun(s, now))
  <2>1. k \in Nat /\ mi \in 0..(M - 1)
    BY <1>1
  <2>2. (k * M + mi) % M = mi
    BY <2>1, OneQuotient
  <2>3. QED  BY <1>1, <1>5, <2>2 DEF Names, MinuteOf
<1>7. ASSUME NEW u \in (now + 1)..(NextRun(s, now) - 1), Names(s, u) PROVE FALSE
  <2>1. u \in Nat /\ now < u /\ u < NextRun(s, now) /\ u % M = mi
    BY <1>1, <1>2, <1>7 DEF Names, MinuteOf
  <2>2. PICK e \in Nat : u = e * M + mi
    BY <2>1, QuotientAndRemainder
  <2>3. e < k
    BY <1>5, <2>1, <2>2, PeriodsApart
  <2>4. ASSUME NEW i \in Nat, NEW j \in Nat, i <= j PROVE i * M <= j * M
    BY <2>4, SMTT(30)
  <2>5. PICK y \in Nat : y = e * M
    OBVIOUS
  <2>6. e <= q /\ y <= x
    BY <1>3, <1>5, <2>3, <2>4, <2>5
  <2>7. CASE k = q + 1
    BY <1>3, <1>5, <2>1, <2>2, <2>5, <2>6, <2>7
  <2>8. CASE k = q
    <3>1. e * M + M <= q * M
      <4>1. ASSUME NEW i \in Nat, NEW j \in Nat, i < j PROVE i * M + M <= j * M
        BY <4>1, SMTT(30)
      <4>2. QED  BY <2>3, <2>8, <4>1
    <3>2. QED  BY <1>3, <2>1, <2>2, <2>5, <3>1
  <2>9. QED  BY <2>7, <2>8
<1>8. QED  BY <1>2, <1>6, <1>7 DEF FirstNamed

LEMMA FirstDaily ==
  ASSUME NoMidnight, NEW s \in Schedules, NEW now \in 0..MaxTime, s.type = "daily"
  PROVE  FirstNamed(s, now, NextRun(s, now))
<1>1. now \in Nat /\ NextRun(s, now) \in Nat /\ NextRun(s, now) > now
  BY BoundsAreNumbers, NextRunIsLater
<1>2. PICK h \in 0..(HoursPerDay - 1), mi \in 0..(MinutesPerHour - 1), d \in Nat :
        h = Hour(s) /\ mi = s.minute /\ d = DayOf(now)
  BY <1>1, HourIsNamed, Coordinates
<1>3. h \in Nat /\ mi \in Nat
  BY <1>2, CalendarIsInOrder
<1>4. PICK k \in {d, d + 1} : NextRun(s, now) = OnDay(k, h, mi) /\ (k = d + 1 => OnDay(d, h, mi) <= now)
  <2>1. NextRun(s, now) = Later(OnDay(d, h, mi), now, PerDay)
    BY <1>2 DEF NextRun
  <2>2. OnDay(d + 1, h, mi) = OnDay(d, h, mi) + PerDay
    <3>1. PICK p \in Nat, x \in Nat, z \in Nat : p = PerDay /\ x = d * p /\ z = h * MinutesPerHour
      BY <1>3, CalendarIsInOrder, PerDayPositive
    <3>2. (d + 1) * p = x + p
      BY <3>1, SMTT(30)
    <3>3. QED  BY <1>3, <3>1, <3>2 DEF OnDay
  <2>3. d # d + 1
    OBVIOUS
  <2>4. QED  BY <2>1, <2>2, <2>3 DEF Later
<1>5. Names(s, NextRun(s, now))
  <2>1. HourOf(OnDay(k, h, mi)) = h /\ MinuteOf(OnDay(k, h, mi)) = mi
    BY OnDayIs
  <2>2. QED  BY <1>2, <1>4, <2>1, HourIsNamed DEF Names
<1>6. ASSUME NEW u \in (now + 1)..(NextRun(s, now) - 1), Names(s, u) PROVE FALSE
  <2>1. u \in Nat /\ now < u /\ u < NextRun(s, now)
    BY <1>1, <1>6
  <2>2. PICK e \in Nat : e = DayOf(u) /\ u = OnDay(e, h, mi)
    BY <1>2, <1>6, <2>1, NamedIsOnDay, Coordinates
  <2>3. d <= e
    BY <1>1, <1>2, <2>1, <2>2, DaysInOrder
  <2>4. e < k
    BY <1>3, <1>4, <2>1, <2>2, LaterOnDay
  <2>5. k = d + 1 /\ e = d
    BY <2>3, <2>4
  <2>6. QED  BY <1>1, <1>4, <2>1, <2>2, <2>5
<1>7. QED  BY <1>1, <1>5, <1>6 DEF FirstNamed

\* The days until the next of a weekday.
LEMMA DaysAhead ==
  ASSUME NEW q \in Nat, NEW W \in Nat \ {0}, NEW r \in 0..(W - 1), NEW w \in 0..(W - 1)
  PROVE  \E a \in 0..(W - 1), e \in Nat : a = (w - r) % W /\ q * W + r + a = e * W + w
<1>1. PICK x \in Nat : x = q * W
  OBVIOUS
<1>2. CASE r <= w
  <2>1. PICK a \in 0..(W - 1) : a = w - r
    BY <1>2
  <2>2. a % W = a
    <3>1. (0 * W + a) % W = a
      BY OneQuotient
    <3>2. 0 * W + a = a
      OBVIOUS
    <3>3. QED  BY <3>1, <3>2
  <2>3. q * W + r + a = q * W + w
    BY <1>1, <2>1
  <2>4. QED  BY <2>1, <2>2, <2>3
<1>3. CASE w < r
  <2>1. PICK a \in 0..(W - 1) : a = w - r + W
    BY <1>3
  <2>2. a = (w - r) % W
    BY <2>1, SMTT(30)
  <2>3. (q + 1) * W = x + W
    BY <1>1, SMTT(30)
  <2>4. q * W + r + a = (q + 1) * W + w /\ q + 1 \in Nat
    BY <1>1, <2>1, <2>3
  <2>5. QED  BY <2>2, <2>4
<1>4. QED  BY <1>2, <1>3

LEMMA FirstWeekly ==
  ASSUME NoMidnight, NEW s \in Schedules, NEW now \in 0..MaxTime, s.type = "weekly"
  PROVE  FirstNamed(s, now, NextRun(s, now))
<1>1. now \in Nat /\ NextRun(s, now) \in Nat /\ NextRun(s, now) > now
  BY BoundsAreNumbers, NextRunIsLater
<1>2. PICK h \in 0..(HoursPerDay - 1), mi \in 0..(MinutesPerHour - 1), d \in Nat :
        h = Hour(s) /\ mi = s.minute /\ d = DayOf(now)
  BY <1>1, HourIsNamed, Coordinates
<1>3. h \in Nat /\ mi \in Nat
  BY <1>2, CalendarIsInOrder
<1>4. PICK W \in Nat \ {0} : W = DaysPerWeek
  BY CalendarIsInOrder
<1>5. PICK w \in 0..(W - 1) : w = s.weekday
  BY <1>4, SchedulesAreInRange
<1>6. PICK a \in 0..(W - 1), e \in Nat : a = (s.weekday - Weekday(now)) % DaysPerWeek /\ d + a = e * W + w
  <2>1. PICK q \in Nat, r \in 0..(W - 1) : r = Weekday(now) /\ d = q * W + r
    <3>1. \E q \in Nat, r \in 0..(W - 1) : q = d \div W /\ r = d % W /\ d = q * W + r
      BY QuotientAndRemainder, Zenon
    <3>2. d % W = Weekday(now)
      BY <1>2, <1>4 DEF Weekday
    <3>3. QED  BY <3>1, <3>2
  <2>2. PICK a \in 0..(W - 1), e \in Nat : a = (w - r) % W /\ q * W + r + a = e * W + w
    <3>1. \E a \in 0..(W - 1), e \in Nat : a = (w - r) % W /\ q * W + r + a = e * W + w
      BY DaysAhead, ZenonT(60)
    <3>2. QED  BY <3>1
  <2>3. a = (s.weekday - Weekday(now)) % DaysPerWeek
    BY <1>4, <1>5, <2>1, <2>2
  <2>4. d + a = e * W + w
    BY <2>1, <2>2
  <2>5. QED  BY <2>3, <2>4
<1>7. PICK x \in Nat : x = e * W /\ (e + 1) * W = x + W /\ d + a = x + w
  <2>1. (e + 1) * W = e * W + W
    BY SMTT(30)
  <2>2. QED  BY <1>6, <2>1
<1>8. PICK k \in {e, e + 1} :
        NextRun(s, now) = OnDay(k * W + w, h, mi) /\ (k = e + 1 => OnDay(x + w, h, mi) <= now)
  <2>1. NextRun(s, now) = Later(OnDay(x + w, h, mi), now, W * PerDay)
    BY <1>2, <1>4, <1>6, <1>7 DEF NextRun, NextWeekly
  <2>2. OnDay((e + 1) * W + w, h, mi) = OnDay(x + w, h, mi) + W * PerDay
    <3>1. PICK p \in Nat, y \in Nat, z \in Nat, v \in Nat :
            p = PerDay /\ y = (x + w) * p /\ z = h * MinutesPerHour /\ v = W * p
      BY <1>3, CalendarIsInOrder, PerDayPositive
    <3>2. (e + 1) * W + w = (x + w) + W
      BY <1>7
    <3>3. ((x + w) + W) * p = y + v
      BY <3>1, SMTT(30)
    <3>4. QED  BY <1>3, <3>1, <3>2, <3>3 DEF OnDay
  <2>3. e # e + 1
    OBVIOUS
  <2>4. QED  BY <1>7, <2>1, <2>2, <2>3 DEF Later
<1>9. k \in Nat /\ k * W + w \in Nat
  BY <1>8
<1>10. Names(s, NextRun(s, now))
  <2>1. LET t == OnDay(k * W + w, h, mi) IN DayOf(t) = k * W + w /\ HourOf(t) = h /\ MinuteOf(t) = mi
    BY <1>9, OnDayIs
  <2>2. (k * W + w) % W = w
    BY <1>9, OneQuotient
  <2>3. QED  BY <1>2, <1>4, <1>5, <1>8, <2>1, <2>2, HourIsNamed DEF Names, Weekday
<1>11. ASSUME NEW u \in (now + 1)..(NextRun(s, now) - 1), Names(s, u) PROVE FALSE
  <2>1. u \in Nat /\ now < u /\ u < NextRun(s, now)
    BY <1>1, <1>11
  <2>2. PICK f \in Nat : f = DayOf(u) /\ u = OnDay(f, h, mi) /\ f % W = w
    BY <1>2, <1>4, <1>5, <1>11, <2>1, NamedIsOnDay, Coordinates DEF Names, Weekday
  <2>3. d <= f
    BY <1>1, <1>2, <2>1, <2>2, DaysInOrder
  <2>4. f < k * W + w
    BY <1>3, <1>8, <1>9, <2>1, <2>2, LaterOnDay
  <2>5. PICK g \in Nat : f = g * W + w
    <3>1. \E g \in Nat, r \in 0..(W - 1) : g = f \div W /\ r = f % W /\ f = g * W + r
      BY QuotientAndRemainder, Zenon
    <3>2. QED  BY <2>2, <3>1
  <2>6. f + W <= k * W + w
    BY <1>9, <2>4, <2>5, PeriodsApart
  <2>7. CASE k = e
    BY <1>7, <2>3, <2>6, <2>7
  <2>8. CASE k = e + 1
    <3>1. f <= x + w
      BY <1>7, <2>6, <2>8
    <3>2. OnDay(x + w, h, mi) < OnDay(f, h, mi)
      <4>1. OnDay(x + w, h, mi) \in Nat
        BY <1>2, OnDayIs
      <4>2. QED  BY <1>1, <1>8, <2>1, <2>2, <2>8, <4>1
    <3>3. x + w < f
      BY <1>3, <3>2, LaterOnDay
    <3>4. QED  BY <3>1, <3>3
  <2>9. QED  BY <2>7, <2>8
<1>12. QED  BY <1>1, <1>10, <1>11 DEF FirstNamed

\* A day both of two months have is in each of them.
LEMMA DayWithin ==
  ASSUME NEW a \in Nat, NEW b \in Nat, NEW c \in Nat, NEW n \in Nat \ {0}, n <= b - a, n <= c - b
  PROVE  /\ a + n - 1 \in Nat /\ a <= a + n - 1 /\ a + n - 1 < b
         /\ b + n - 1 \in Nat /\ b <= b + n - 1 /\ b + n - 1 < c
         /\ b < c
OBVIOUS

LEMMA FirstMonthly ==
  ASSUME NoMidnight, EveryMonthHasTheDay, NEW s \in Schedules, NEW now \in 0..MaxTime, s.type = "monthly"
  PROVE  FirstNamed(s, now, NextRun(s, now))
<1>1. now \in Nat /\ NextRun(s, now) \in Nat /\ NextRun(s, now) > now
  BY BoundsAreNumbers, NextRunIsLater
<1>2. PICK h \in 0..(HoursPerDay - 1), mi \in 0..(MinutesPerHour - 1), d \in Nat :
        h = Hour(s) /\ mi = s.minute /\ d = DayOf(now)
  BY <1>1, HourIsNamed, Coordinates
<1>3. h \in Nat /\ mi \in Nat
  BY <1>2, CalendarIsInOrder
<1>4. PICK m \in Nat : m \in 1..(Len(Starts) - 2) /\ m = MonthOf(now) /\ Starts[m] <= d /\ d < Starts[m + 1]
  BY <1>2, EveryDayHasItsMonth
<1>5. PICK o \in Nat : o = m + 1 /\ o # m /\ o \in Months /\ m \in Months
  <2>1. Len(Starts) \in Nat
    BY CalendarIsInOrder
  <2>2. QED  BY <1>4, <2>1 DEF Months
<1>6. PICK a \in Nat, b \in Nat, c \in Nat : a = Starts[m] /\ b = Starts[o] /\ c = Starts[o + 1]
  <2>1. Len(Starts) \in Nat /\ \A i \in 1..Len(Starts) : Starts[i] \in Nat
    BY CalendarIsInOrder
  <2>2. m \in 1..Len(Starts) /\ o \in 1..Len(Starts) /\ o + 1 \in 1..Len(Starts)
    BY <1>5, <2>1 DEF Months
  <2>3. QED  BY <2>1, <2>2
<1>7. PICK n \in Nat \ {0} : n = s.day /\ n <= b - a /\ n <= c - b /\ DayIn(s, m) = n /\ DayIn(s, o) = n
  <2>1. Lengths[m] = b - a /\ Lengths[o] = c - b
    BY <1>5, <1>6 DEF Lengths
  <2>2. PICK n \in Nat \ {0} : n = s.day /\ n <= b - a /\ n <= c - b
    BY <1>5, <2>1, SchedulesAreInRange DEF EveryMonthHasTheDay
  <2>3. QED  BY <2>1, <2>2 DEF DayIn, Least
<1>8. PICK f \in Nat, g \in Nat : /\ f = a + n - 1 /\ a <= f /\ f < b /\ g = b + n - 1 /\ b <= g /\ g < c /\ b < c
  BY <1>7, DayWithin
<1>9. ASSUME NEW t \in Nat, a <= DayOf(t), DayOf(t) < c
      PROVE  \/ DayOf(t) < b /\ MonthOf(t) = m /\ DayOfMonth(t) = DayOf(t) - a + 1
             \/ b <= DayOf(t) /\ MonthOf(t) = o /\ DayOfMonth(t) = DayOf(t) - b + 1
  <2>1. DayOf(t) \in Nat
    BY Coordinates
  <2>2. CASE DayOf(t) < b
    <3>1. MonthOf(t) = m
      BY <1>5, <1>6, <1>9, <2>2, MonthIs
    <3>2. QED  BY <1>6, <2>2, <3>1 DEF DayOfMonth
  <2>3. CASE b <= DayOf(t)
    <3>1. MonthOf(t) = o
      BY <1>5, <1>6, <1>9, <2>3, MonthIs
    <3>2. QED  BY <1>6, <2>3, <3>1 DEF DayOfMonth
  <2>4. QED  BY <2>1, <2>2, <2>3
<1>10. \/ NextRun(s, now) = OnDay(f, h, mi)
       \/ NextRun(s, now) = OnDay(g, h, mi) /\ OnDay(f, h, mi) <= now
  <2>1. ThisMonth(s, now) = OnDay(f, h, mi)
    BY <1>2, <1>4, <1>6, <1>7, <1>8 DEF ThisMonth
  <2>2. Starts[MonthOf(now) + 1] + DayIn(s, MonthOf(now)) - 1 = g
    BY <1>4, <1>5, <1>6, <1>7, <1>8
  <2>3. NextRun(s, now) = NextMonthly(s, now)
    BY DEF NextRun
  <2>4. QED  BY <1>2, <2>1, <2>2, <2>3 DEF NextMonthly
<1>11. PICK e \in {f, g} : NextRun(s, now) = OnDay(e, h, mi) /\ (e = g => OnDay(f, h, mi) <= now)
  <2>1. f # g
    BY <1>8
  <2>2. QED  BY <1>10, <2>1
<1>12. e \in Nat /\ a <= e /\ e < c
  BY <1>8
<1>13. Names(s, NextRun(s, now))
  <2>1. PICK t \in Nat : t = OnDay(e, h, mi) /\ DayOf(t) = e /\ HourOf(t) = h /\ MinuteOf(t) = mi
    BY <1>12, OnDayIs
  <2>2. (MonthOf(t) = m \/ MonthOf(t) = o) /\ DayOfMonth(t) = n
    <3>1. CASE e = f
      BY <1>8, <1>9, <1>12, <2>1, <3>1
    <3>2. CASE e = g
      BY <1>8, <1>9, <1>12, <2>1, <3>2
    <3>3. QED  BY <3>1, <3>2
  <2>3. DayOfMonth(t) = DayIn(s, MonthOf(t))
    BY <1>7, <2>2
  <2>4. QED  BY <1>2, <1>11, <2>1, <2>3, HourIsNamed DEF Names
<1>14. ASSUME NEW u \in (now + 1)..(NextRun(s, now) - 1), Names(s, u) PROVE FALSE
  <2>1. u \in Nat /\ now < u /\ u < NextRun(s, now)
    BY <1>1, <1>14
  <2>2. PICK x \in Nat : x = DayOf(u) /\ u = OnDay(x, h, mi)
    BY <1>2, <1>14, <2>1, NamedIsOnDay, Coordinates
  <2>3. d <= x
    BY <1>1, <1>2, <2>1, <2>2, DaysInOrder
  <2>4. x < e
    BY <1>3, <1>11, <1>12, <2>1, <2>2, LaterOnDay
  <2>5. a <= x /\ x < c
    <3>1. a <= d
      BY <1>4, <1>6
    <3>2. QED  BY <1>12, <2>3, <2>4, <3>1
  <2>6. DayOfMonth(u) = DayIn(s, MonthOf(u))
    BY <1>14 DEF Names
  <2>7. x = f \/ x = g
    BY <1>7, <1>8, <1>9, <2>1, <2>2, <2>5, <2>6
  <2>8. x = f /\ e = g
    BY <1>8, <2>4, <2>7
  <2>9. u <= now
    BY <1>11, <2>2, <2>8
  <2>10. QED  BY <1>1, <2>1, <2>9
<1>15. QED  BY <1>1, <1>13, <1>14 DEF FirstNamed

\* compute_next_run answers with the first minute its schedule names.
LEMMA NextRunIsFirst ==
  ASSUME NoMidnight, EveryMonthHasTheDay, NEW s \in Schedules, NEW now \in 0..MaxTime
  PROVE  FirstNamed(s, now, NextRun(s, now))
<1>1. s.type = "minutely" => FirstNamed(s, now, NextRun(s, now))
  BY DEF FirstNamed, NextRun
<1>2. s.type \in {"minutely", "hourly", "daily", "weekly", "monthly"}
  BY SchedulesAreInRange
<1>3. QED  BY <1>1, <1>2, FirstHourly, FirstDaily, FirstWeekly, FirstMonthly

\* Whatever writes a next run, a person or a pass, writes the first minute the schedule names after the moment it
\* has in hand: no day, week or month is left out.  It is not so of a report for midnight, which comes at another hour,
\* nor of one for a day that some month has not, which stays at the shorter month's last day or raises.
THEOREM NothingLeftOutHolds ==
  ASSUME NoMidnight, EveryMonthHasTheDay
  PROVE  Spec => NothingLeftOut
<1> DEFINE Writes == \A r \in Reports :
                       next'[r] # next[r] =>
                         \E now \in {clock} \cup {asOf[c] : c \in {d \in Copies : doing[d] = r}} :
                           FirstNamed(plan[r], now, next'[r])
<1>1. IInv /\ [Next]_vars => [Writes]_vars
  <2> SUFFICES ASSUME IInv, Next, NEW r \in Reports, next'[r] # next[r]
               PROVE  \E now \in {clock} \cup {asOf[c] : c \in {d \in Copies : doing[d] = r}} :
                        FirstNamed(plan[r], now, next'[r])
    BY DEF Writes
  <2>0. TypeOK
    BY DEF IInv
  <2>1. ASSUME NEW q \in Reports, Create(q) \/ Resume(q)
        PROVE  FirstNamed(plan[r], clock, next'[r])
    <3>1. next' = [next EXCEPT ![q] = NextRun(plan[q], clock)]
      BY <2>1 DEF Create, Resume
    <3>2. q = r /\ next'[r] = NextRun(plan[r], clock)
      BY <2>0, <3>1 DEF TypeOK
    <3>3. QED  BY <2>0, <3>2, NextRunIsFirst DEF TypeOK
  <2>2. ASSUME NEW c \in Copies, Save(c) \/ Reschedule(c)
        PROVE  doing[c] = r /\ FirstNamed(plan[r], asOf[c], next'[r])
    <3>1. next' = [next EXCEPT ![doing[c]] = NextRun(plan[doing[c]], asOf[c])]
      BY <2>2 DEF Save, Reschedule, Write
    <3>2. doing[c] = r /\ next'[r] = NextRun(plan[r], asOf[c])
      BY <2>0, <3>1 DEF TypeOK
    <3>3. QED  BY <2>0, <2>2, <3>2, NextRunIsFirst DEF TypeOK
  <2>3. ASSUME NEW q \in Reports, Pause(q) \/ ResumeForOther(q) \/ Delete(q) PROVE FALSE
    BY <2>3 DEF Pause, ResumeForOther, Delete
  <2>4. ASSUME NEW c \in Copies, Start(c) \/ Run(c) \/ SaveFails(c) \/ GiveUp(c) \/ End(c) \/ Stop(c) PROVE FALSE
    BY <2>4 DEF Start, Run, SaveFails, GiveUp, End, Stop, Leaves, rows
  <2>5. ~Tick /\ ~LoseLock
    BY DEF Tick, LoseLock, rows
  <2>6. QED  BY <2>1, <2>2, <2>3, <2>4, <2>5 DEF Next, Pass
<1>2. QED  BY <1>1, Init_IInv, Next_IInv, PTL DEF Spec, NothingLeftOut
=============================================================================
