-------------------------- MODULE ScheduledReports --------------------------
(***************************************************************************)
(* The reports people have asked for "every day at nine": the job of       *)
(* scheduler/jobs.py that runs what is due each minute, in every copy of   *)
(* the app behind the job lock, while people create, pause, resume and     *)
(* delete reports in their chat.                                           *)
(*                                                                         *)
(* An instant is a minute, counted in India's time from the start of the   *)
(* calendar, whose months begin on the given days.                         *)
(***************************************************************************)
EXTENDS Integers, Sequences, FiniteSets

CONSTANTS
  Copies,             \* the running copies of the app
  Reports,            \* the reports people ask for
  Schedules,          \* the schedules they may ask for
  Starts,             \* the day each month starts: the month after the clock's last, and its end, included
  DaysPerWeek, HoursPerDay, MinutesPerHour,
  DefaultHour,        \* the hour of a schedule that names none, by its type
  None,               \* no hour, no copy, no report
  MaxTime,            \* bound: minutes the clock runs
  MaxChanges,         \* bound: how often people pause, resume or delete
  MaxFaults           \* bound: passes that die or are cancelled after 50 seconds, connections that hold the
                      \* job lock lost under a pass, and next runs that could not be written at all

Months == 1..(Len(Starts) - 1)
PerDay == HoursPerDay * MinutesPerHour

ASSUME BoundsAreNumbers == MaxTime \in Nat /\ MaxChanges \in Nat /\ MaxFaults \in Nat
ASSUME CalendarIsInOrder ==
  /\ Starts \in Seq(Nat) /\ Len(Starts) > 2 /\ Starts[1] = 0
  /\ \A m, n \in DOMAIN Starts : m < n => Starts[m] < Starts[n]
  /\ DaysPerWeek \in Nat \ {0} /\ HoursPerDay \in Nat \ {0} /\ MinutesPerHour \in Nat \ {0}
ASSUME CalendarIsLongEnough == MaxTime < Starts[Len(Starts) - 1] * PerDay
ASSUME SchedulesAreInRange ==
  \A s \in Schedules :
    /\ s.type \in {"minutely", "hourly", "daily", "weekly", "monthly"}
    /\ s.hour \in (0..(HoursPerDay - 1)) \cup {None} /\ s.minute \in 0..(MinutesPerHour - 1)
    /\ s.type = "minutely" => s.interval \in Nat \ {0}
    /\ s.type = "weekly" => s.weekday \in 0..(DaysPerWeek - 1)
    /\ s.type = "monthly" => s.day \in Nat \ {0}
    /\ s.type \in {"daily", "weekly", "monthly"} => DefaultHour[s.type] \in 0..(HoursPerDay - 1)
ASSUME NoneIsApart == None \notin Copies \cup Reports

-----------------------------------------------------------------------------
(* The calendar *)

Lengths == [m \in Months |-> Starts[m + 1] - Starts[m]]

DayOf(t) == t \div PerDay
MonthOf(t) == CHOOSE m \in Months : Starts[m] <= DayOf(t) /\ DayOf(t) < Starts[m + 1]
DayOfMonth(t) == DayOf(t) - Starts[MonthOf(t)] + 1
Weekday(t) == DayOf(t) % DaysPerWeek
HourOf(t) == (t % PerDay) \div MinutesPerHour
MinuteOf(t) == t % MinutesPerHour

\* An hour and minute of a day.
OnDay(day, h, mi) == day * PerDay + h * MinutesPerHour + mi

Least(a, b) == IF a <= b THEN a ELSE b

-----------------------------------------------------------------------------
(* compute_next_run *)

\* "hour or 8": midnight counts as no hour.
Hour(s) == IF s.hour \in {None, 0} THEN DefaultHour[s.type] ELSE s.hour

\* Mutant: a moment that has just come is not over yet.
LaterWeak(t, now, period) == IF t < now THEN t + period ELSE t

\* A moment that is over is the next period's.
Later(t, now, period) == IF t <= now THEN t + period ELSE t

\* The day of a monthly report, in a month that is long enough or else its last.
DayIn(s, m) == Least(s.day, Lengths[m])
ThisMonth(s, now) == OnDay(Starts[MonthOf(now)] + DayIn(s, MonthOf(now)) - 1, Hour(s), s.minute)

\* replace(month=...) keeps the day and raises when the next month has no such day.
Raises(s, now) ==
  /\ s.type = "monthly"
  /\ ThisMonth(s, now) <= now
  /\ DayIn(s, MonthOf(now)) > Lengths[MonthOf(now) + 1]

\* Mutant: the weekday of this week, even when it is over.
NextWeeklySame(s, now) ==
  OnDay(DayOf(now) + ((s.weekday - Weekday(now)) % DaysPerWeek), Hour(s), s.minute)

NextWeekly(s, now) ==
  Later(OnDay(DayOf(now) + ((s.weekday - Weekday(now)) % DaysPerWeek), Hour(s), s.minute),
        now, DaysPerWeek * PerDay)

NextMonthly(s, now) ==
  IF ThisMonth(s, now) <= now
  THEN OnDay(Starts[MonthOf(now) + 1] + DayIn(s, MonthOf(now)) - 1, Hour(s), s.minute)
  ELSE ThisMonth(s, now)

NextRun(s, now) ==
  CASE s.type = "minutely" -> now + s.interval
    [] s.type = "hourly"   -> Later(now - MinuteOf(now) + s.minute, now, MinutesPerHour)
    [] s.type = "daily"    -> Later(OnDay(DayOf(now), Hour(s), s.minute), now, PerDay)
    [] s.type = "weekly"   -> NextWeekly(s, now)
    [] s.type = "monthly"  -> NextMonthly(s, now)

-----------------------------------------------------------------------------
VARIABLES
  clock,        \* the minute it is
  plan,         \* the schedule of each report; nothing changes it
  state,        \* is_active, or whether there is a row at all
  next,         \* next_run_at
  jobLock,      \* the copy that holds the advisory lock of the job
  at,           \* where each copy is in its pass
  asOf,         \* the `now` of each pass
  due, slot,    \* the reports it has still to run, and the next_run_at it read for them
  doing,        \* the report it is at
  last, again,  \* history, which no code reads: the latest next_run_at each report was run for, and how
                \* often it was run for one that was not later
  changes, stops, lost, unwritten

rows == <<plan, state, next>>
passes == <<at, asOf, due, slot, doing>>
history == <<last, again>>
faults == <<stops, lost, unwritten>>
vars == <<clock, rows, jobLock, passes, history, changes, faults>>

Faults == stops + lost + unwritten

TypeOK ==
  /\ clock \in 0..MaxTime
  /\ plan \in [Reports -> Schedules]
  /\ state \in [Reports -> {"none", "active", "paused", "deleted"}]
  /\ next \in [Reports -> Nat]
  /\ jobLock \in Copies \cup {None}
  /\ at \in [Copies -> {"idle", "next", "save", "failed"}]
  /\ asOf \in [Copies -> 0..MaxTime]
  /\ due \in [Copies -> SUBSET Reports] /\ slot \in [Copies -> [Reports -> 0..MaxTime]]
  /\ doing \in [Copies -> Reports \cup {None}]
  /\ last \in [Reports -> 0..MaxTime] /\ again \in [Reports -> Nat]
  /\ changes \in Nat /\ stops \in Nat /\ lost \in Nat /\ unwritten \in Nat

Init ==
  /\ clock = 0
  /\ plan \in [Reports -> Schedules]
  /\ state = [r \in Reports |-> "none"]
  /\ next = [r \in Reports |-> 0]
  /\ jobLock = None
  /\ at = [c \in Copies |-> "idle"]
  /\ asOf = [c \in Copies |-> 0]
  /\ due = [c \in Copies |-> {}]
  /\ slot = [c \in Copies |-> [r \in Reports |-> 0]]
  /\ doing = [c \in Copies |-> None]
  /\ last = [r \in Reports |-> 0] /\ again = [r \in Reports |-> 0]
  /\ changes = 0 /\ stops = 0 /\ lost = 0 /\ unwritten = 0

-----------------------------------------------------------------------------
(* Time and people *)

\* A pass is cut off after 50 seconds: it sees the minute change once.
Tick ==
  /\ clock < MaxTime
  /\ \A c \in Copies : at[c] # "idle" => asOf[c] = clock
  /\ clock' = clock + 1
  /\ UNCHANGED <<rows, jobLock, passes, history, changes, faults>>

\* create_scheduled_report; when there is no next run it raises and nothing is made.
Create(r) ==
  /\ state[r] = "none"
  /\ ~Raises(plan[r], clock)
  /\ state' = [state EXCEPT ![r] = "active"]
  /\ next' = [next EXCEPT ![r] = NextRun(plan[r], clock)]
  /\ UNCHANGED <<clock, plan, jobLock, passes, history, changes, faults>>

Changes(r) ==
  /\ state[r] \in {"active", "paused"}
  /\ changes < MaxChanges
  /\ changes' = changes + 1
  /\ UNCHANGED <<clock, plan, jobLock, passes, history, faults>>

Pause(r) ==
  /\ Changes(r)
  /\ state' = [state EXCEPT ![r] = "paused"]
  /\ UNCHANGED next

\* Its owner's resume starts it afresh from now.
Resume(r) ==
  /\ Changes(r)
  /\ ~Raises(plan[r], clock)
  /\ state' = [state EXCEPT ![r] = "active"]
  /\ next' = [next EXCEPT ![r] = NextRun(plan[r], clock)]

\* Somebody else of the organisation resumes it: only is_active is set.
ResumeForOther(r) ==
  /\ Changes(r)
  /\ state' = [state EXCEPT ![r] = "active"]
  /\ UNCHANGED next

Delete(r) ==
  /\ Changes(r)
  /\ state' = [state EXCEPT ![r] = "deleted"]
  /\ UNCHANGED next

-----------------------------------------------------------------------------
(* A pass of the job *)

Goes(c, from, to) == at[c] = from /\ at' = [at EXCEPT ![c] = to]

\* Mutant: only what is due this very minute.
DueNow(t) == {r \in Reports : state[r] = "active" /\ next[r] = t}

DueAt(t) == {r \in Reports : state[r] = "active" /\ next[r] <= t}

\* run_if_free: one copy gets the advisory lock, the others skip this minute.  What is due is read once,
\* at the start.
Start(c) ==
  /\ jobLock = None
  /\ Goes(c, "idle", "next")
  /\ jobLock' = c
  /\ asOf' = [asOf EXCEPT ![c] = clock]
  /\ due' = [due EXCEPT ![c] = DueAt(clock)]
  /\ slot' = [slot EXCEPT ![c] = [r \in Reports |-> IF r \in DueAt(clock) THEN next[r] ELSE 0]]
  /\ UNCHANGED <<clock, rows, doing, history, changes, faults>>

\* The query is run and the answer sent, by email or by chat; either may raise.  The row is not looked at
\* again: a report that was paused or deleted meanwhile is sent all the same.
Run(c) ==
  /\ at[c] = "next"
  /\ \E r \in due[c] :
       /\ due' = [due EXCEPT ![c] = @ \ {r}]
       /\ doing' = [doing EXCEPT ![c] = r]
       /\ IF slot[c][r] > last[r]
          THEN last' = [last EXCEPT ![r] = slot[c][r]] /\ UNCHANGED again
          ELSE again' = [again EXCEPT ![r] = @ + 1] /\ UNCHANGED last
  /\ Goes(c, "next", "save") \/ Goes(c, "next", "failed")
  /\ UNCHANGED <<clock, rows, jobLock, asOf, slot, changes, faults>>

\* The next run is written, if the row is still there.
Write(c) ==
  LET r == doing[c] IN
  /\ ~Raises(plan[r], asOf[c])
  /\ next' = IF state[r] = "deleted" THEN next ELSE [next EXCEPT ![r] = NextRun(plan[r], asOf[c])]
  /\ at' = [at EXCEPT ![c] = "next"]
  /\ doing' = [doing EXCEPT ![c] = None]
  /\ UNCHANGED <<clock, plan, state, jobLock, asOf, due, slot, history, changes, faults>>

Save(c) == at[c] = "save" /\ Write(c)

\* There is no next run, or the database refuses: the handler tries once more.
SaveFails(c) ==
  /\ Goes(c, "save", "failed")
  /\ UNCHANGED <<clock, rows, jobLock, asOf, due, slot, doing, history, changes, faults>>

Reschedule(c) == at[c] = "failed" /\ Write(c)

\* "Failed to reschedule": it is logged, and the pass goes on with the next report.
GiveUp(c) ==
  /\ Goes(c, "failed", "next")
  /\ \/ Raises(plan[doing[c]], asOf[c]) /\ UNCHANGED unwritten
     \/ Faults < MaxFaults /\ unwritten' = unwritten + 1
  /\ doing' = [doing EXCEPT ![c] = None]
  /\ UNCHANGED <<clock, rows, jobLock, asOf, due, slot, history, changes, stops, lost>>

Leaves(c) ==
  /\ at' = [at EXCEPT ![c] = "idle"]
  /\ asOf' = [asOf EXCEPT ![c] = 0]
  /\ due' = [due EXCEPT ![c] = {}]
  /\ slot' = [slot EXCEPT ![c] = [r \in Reports |-> 0]]
  /\ doing' = [doing EXCEPT ![c] = None]
  /\ jobLock' = IF jobLock = c THEN None ELSE jobLock
  /\ UNCHANGED <<clock, rows, history, changes>>

End(c) == at[c] = "next" /\ due[c] = {} /\ Leaves(c) /\ UNCHANGED faults

\* The copy dies, or the pass is cancelled after 50 seconds: the except clause does not see that.
Stop(c) ==
  /\ Faults < MaxFaults
  /\ at[c] # "idle"
  /\ Leaves(c)
  /\ stops' = stops + 1
  /\ UNCHANGED <<lost, unwritten>>

\* The connection of the lock is lost: Postgres lets the lock go, the pass goes on over others.
LoseLock ==
  /\ Faults < MaxFaults
  /\ jobLock # None
  /\ jobLock' = None
  /\ lost' = lost + 1
  /\ UNCHANGED <<clock, rows, passes, history, changes, stops, unwritten>>

-----------------------------------------------------------------------------
Pass(c) ==
  \/ Start(c) \/ Run(c) \/ Save(c) \/ SaveFails(c) \/ Reschedule(c) \/ GiveUp(c) \/ End(c)

Next ==
  \/ Tick
  \/ \E r \in Reports : Create(r) \/ Pause(r) \/ Resume(r) \/ ResumeForOther(r) \/ Delete(r)
  \/ \E c \in Copies : Pass(c) \/ Stop(c)
  \/ LoseLock

Spec == Init /\ [][Next]_vars

\* Every copy's scheduler comes round each minute and every call in a pass has a timeout.
FairSpec == Spec /\ \A c \in Copies : WF_vars(Pass(c))

-----------------------------------------------------------------------------
(* What must hold *)

\* "Sent once and moves to tomorrow": as long as the job lock is held a report is never run twice for one
\* time it was due, nor for an earlier one, whatever is paused, resumed or raised meanwhile.  It is run
\* before its next run is written, so a pass that dies or cannot write may cost one more each.
OncePerSlot == lost = 0 => \A r \in Reports : again[r] <= stops + unwritten

\* The minutes a schedule names; a monthly report of a day the month has not runs on its last.
Names(s, t) ==
  /\ MinuteOf(t) = s.minute
  /\ s.type # "hourly" => HourOf(t) = (IF s.hour = None THEN DefaultHour[s.type] ELSE s.hour)
  /\ s.type = "weekly" => Weekday(t) = s.weekday
  /\ s.type = "monthly" => DayOfMonth(t) = DayIn(s, MonthOf(t))

\* "The next datetime it should run": whatever writes next_run_at writes the first minute the schedule
\* names after the moment the writer has in hand, so no day, week or month is left out.
FirstNamed(s, now, t) ==
  IF s.type = "minutely"
  THEN t = now + s.interval
  ELSE t > now /\ Names(s, t) /\ \A u \in (now + 1)..(t - 1) : ~Names(s, u)

NothingLeftOut ==
  [][\A r \in Reports :
       next'[r] # next[r] =>
         \E now \in {clock} \cup {asOf[c] : c \in {d \in Copies : doing[d] = r}} :
           FirstNamed(plan[r], now, next'[r])]_vars

\* A report that is due is run and moves on to its next time, also when passes die; unless somebody pauses
\* or deletes it.
IsDue(r) == state[r] = "active" /\ next[r] <= clock

DueMovesOn == \A r \in Reports : IsDue(r) ~> ~IsDue(r)
=============================================================================
