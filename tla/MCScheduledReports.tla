------------------------- MODULE MCScheduledReports -------------------------
EXTENDS ScheduledReports
CONSTANTS one, two

\* A small calendar: days of three hours of two minutes, weeks of three days, months of three days but for
\* the second.
SmallMonths == <<0, 3, 5, 8, 11>>
Defaults == [daily |-> 1, weekly |-> 2, monthly |-> 2]

Of(type, hour, minute, day) ==
  [type |-> type, interval |-> 4, hour |-> hour, minute |-> minute, weekday |-> day, day |-> day]

\* Schedules every month can keep, and no midnight.
Kept == {Of("minutely", None, 0, 1), Of("hourly", None, 1, 1), Of("daily", None, 0, 1),
         Of("weekly", None, 1, 0), Of("monthly", 1, 0, 2)}

\* The last day of the longer months.
MonthEnd == {Of("monthly", 1, 0, 3)}
=============================================================================
