---------------------------- MODULE FlowSchedules ----------------------------
(***************************************************************************)
(* Flows on a timer: the job of services/flow_triggers.py that runs, each  *)
(* minute and in one copy of the app at a time, the schedules that are     *)
(* due, while admins save and remove schedules in the panel.               *)
(*                                                                         *)
(* An instant is a part of a day, in the organisation's time zone (one     *)
(* without summer time), counted from the start of the calendar.  What a   *)
(* run then does, and which flows follow it, is in FlowChains.             *)
(***************************************************************************)
EXTENDS Integers, Sequences, FiniteSets, FiniteSetsExt

CONSTANTS
  Flows, Copies, Admins,
  Cadences,           \* the cadences admins save
  Settings,           \* the working days and holidays an organisation may have
  Lengths,            \* days of each month; more of them than the clock reaches
  DaysPerWeek, PerDay,
  None,
  MaxTime,            \* bound: how far the clock runs
  MaxRequests,        \* bound: schedules saved and removed in the panel, and changes of the settings
  MaxFaults           \* bound: passes cut off, and job locks lost under a pass

-----------------------------------------------------------------------------
(* next_run *)

DaysBefore[m \in 1..(Len(Lengths) + 1)] == IF m = 1 THEN 0 ELSE DaysBefore[m - 1] + Lengths[m - 1]
Days == 0..(DaysBefore[Len(Lengths) + 1] - 1)
DayOf(t) == t \div PerDay
MonthOf(d) == CHOOSE m \in DOMAIN Lengths : DaysBefore[m] <= d /\ d < DaysBefore[m + 1]

\* A day beyond the calendar counts as a working day.
IsWork(set, d) == d \notin Days \/ (d % DaysPerWeek \in set.working /\ d \notin set.holidays)

\* It looks two weeks ahead at most.
NextWorkDay(set, d) == Min({w \in d..(d + 14) : IsWork(set, w) \/ w = d + 14})

\* The days a cadence names; the last day of a month that is too short.
Names(c, d) ==
  CASE c.every = "day"   -> TRUE
    [] c.every = "week"  -> d % DaysPerWeek \in c.days
    [] c.every = "month" -> d = DaysBefore[MonthOf(d)] + Min({c.dayOfMonth, Lengths[MonthOf(d)]}) - 1

\* On working days only, a day off is skipped, and a monthly flow moved to the next working day.
Runs(c, set, d) == Names(c, d) /\ (c.workingOnly /\ c.every # "month" => IsWork(set, d))
MomentTable == [c \in Cadences |-> [set \in Settings |-> [d \in Days |->
  PerDay * (IF c.workingOnly /\ c.every = "month" THEN NextWorkDay(set, d) ELSE d) + c.time]]]
MomentOf(c, set, d) == MomentTable[c][set][d]

\* None is the ValueError: no day ever fits.
NextRunTable == [c \in Cadences |-> [set \in Settings |-> [t \in 0..MaxTime |->
  LET fit == {d \in Days : d >= DayOf(t) /\ Runs(c, set, d) /\ MomentOf(c, set, d) > t}
  IN  IF fit = {} THEN None ELSE MomentOf(c, set, Min(fit))]]]

\* The first moment after t, found by looking at each day from today on.
NextRun(c, set, t) == NextRunTable[c][set][t]

-----------------------------------------------------------------------------
VARIABLES
  clock,
  setting,      \* the organisation's working days and holidays
  rows,         \* rows[f]: its row in flow_schedules
  jobLock,      \* the copy that holds the advisory lock of the job
  pass,         \* pass[c]: the pass in copy c: its now, the rows it read that are left, the slot it runs
  panel,        \* panel[a]: the row an admin's request is about to save
  requests, faults,
  claimed, started, again  \* history: slots claimed, those dealt with, and those dealt with once more

bounds == <<requests, faults>>
history == <<claimed, started, again>>
vars == <<clock, setting, rows, jobLock, pass, panel, bounds, history>>

\* `why` is history: from which cadence and settings, and as of when, the next run was computed; so is `save`.
Row == [id : Nat, save : Nat, cadence : Cadences, active : BOOLEAN, next : Nat \cup {None},
        why : [cadence : Cadences, set : Settings, now : 0..MaxTime]]

\* A slot, of a schedule as it was saved.
Slots == [flow : Flows, save : Nat, at : Nat]
Passes == [now : 0..MaxTime, due : SUBSET [flow : Flows, row : Row], slot : Slots \cup {None}]

\* What the constants have to be.
Given ==
  /\ Lengths \in Seq(Nat \ {0}) /\ DaysPerWeek \in Nat \ {0} /\ PerDay \in Nat \ {0}
  /\ {MaxTime, MaxRequests, MaxFaults} \subseteq Nat
  /\ \A c \in Cadences : c.time \in 0..(PerDay - 1)
  /\ None \notin Nat /\ None \notin Slots /\ None \notin Passes

TypeOK ==
  /\ clock \in 0..MaxTime
  /\ setting \in Settings
  /\ \A f \in Flows : rows[f] \in Row \cup {None}
  /\ jobLock \in Copies \cup {None}
  /\ \A c \in Copies : pass[c] # None => /\ pass[c].now \in 0..clock
                                       /\ \A d \in pass[c].due : d.flow \in Flows /\ d.row \in Row
                                       /\ pass[c].slot \in Slots \cup {None}
  /\ \A a \in Admins : panel[a] # None => panel[a].flow \in Flows /\ panel[a].row \in Row
  /\ requests \in 0..MaxRequests /\ faults \in 0..MaxFaults
  /\ claimed \cup started \subseteq Slots /\ again \subseteq started

Init ==
  /\ clock = 0
  /\ setting \in Settings
  /\ rows = [f \in Flows |-> None]
  /\ jobLock = None
  /\ pass = [c \in Copies |-> None]
  /\ panel = [a \in Admins |-> None]
  /\ requests = 0 /\ faults = 0
  /\ claimed = {} /\ started = {} /\ again = {}

-----------------------------------------------------------------------------
(* The panel *)

Request == requests < MaxRequests /\ requests' = requests + 1

Why(c) == [cadence |-> c, set |-> setting, now |-> clock]

\* set_schedule computes the next run; a cadence without one is refused.
AskSchedule(a) == \E f \in Flows, c \in Cadences :
  /\ panel[a] = None /\ Request
  /\ NextRun(c, setting, clock) # None
  /\ panel' = [panel EXCEPT ![a] = [flow |-> f,
       row |-> [id |-> requests', save |-> requests', cadence |-> c, active |-> TRUE,
                next |-> NextRun(c, setting, clock), why |-> Why(c)]]]
  /\ UNCHANGED <<clock, setting, rows, jobLock, pass, faults, history>>

\* ... and saves it later, over the row the flow has by then, or not at all when the request dies.
SaveSchedule(a) ==
  /\ panel[a] # None
  /\ LET f == panel[a].flow
     IN  rows' = [rows EXCEPT ![f] = IF @ = None THEN panel[a].row ELSE [panel[a].row EXCEPT !.id = rows[f].id]]
  /\ panel' = [panel EXCEPT ![a] = None]
  /\ UNCHANGED <<clock, setting, jobLock, pass, bounds, history>>

\* remove_schedule, or set_after, which deletes the schedule too.
RemoveSchedule(f) ==
  /\ Request /\ rows[f] # None
  /\ rows' = [rows EXCEPT ![f] = None]
  /\ UNCHANGED <<clock, setting, jobLock, pass, panel, faults, history>>

ChangeSettings ==
  /\ Request
  /\ setting' \in Settings \ {setting}
  /\ UNCHANGED <<clock, rows, jobLock, pass, panel, faults, history>>

-----------------------------------------------------------------------------
(* The job *)

Tick ==
  /\ clock < MaxTime
  /\ clock' = clock + 1
  /\ UNCHANGED <<setting, rows, jobLock, pass, panel, bounds, history>>

Active(f) == rows[f] # None /\ (rows[f] # None => rows[f].active)
IsDue(f) == Active(f) /\ (Active(f) => rows[f].next <= clock)

\* A copy takes the job's lock and reads what is due.
StartPass(c) ==
  /\ pass[c] = None /\ jobLock = None
  /\ \E f \in Flows : IsDue(f)
  /\ jobLock' = c
  /\ pass' = [pass EXCEPT ![c] = [now |-> clock, slot |-> None,
                 due |-> {[flow |-> f, row |-> rows[f]] : f \in {g \in Flows : IsDue(g)}}]]
  /\ UNCHANGED <<clock, setting, rows, panel, bounds, history>>

InPass(c) == pass[c] # None
Between(c) == InPass(c) /\ (InPass(c) => pass[c].slot = None)
Earliest(c) == {d \in pass[c].due : \A e \in pass[c].due : d.row.next <= e.row.next}

\* Mutant: the claim does not ask whether the row is still at the slot that was read.
ClaimsAnySlot(d) == Active(d.flow) /\ (Active(d.flow) => rows[d.flow].id = d.row.id)

\* The compare-and-set finds the row as it was read.
Claims(d) == Active(d.flow) /\ (Active(d.flow) => rows[d.flow].id = d.row.id /\ rows[d.flow].next = d.row.next)

\* The next run is counted from now.
Following(c, d) == NextRun(d.row.cadence, setting, pass[c].now)

\* _claim_and_run first moves the row on, or switches it off when it has no next run ...
Claim(c) == Between(c) /\ \E d \in Earliest(c) :
  LET f == d.flow
      slot == [flow |-> f, save |-> rows[f].save, at |-> d.row.next]
  IN  /\ IF Claims(d)
         THEN /\ rows' = [rows EXCEPT ![f].next = Following(c, d), ![f].active = Following(c, d) # None,
                           ![f].why = [cadence |-> d.row.cadence, set |-> setting, now |-> pass[c].now]]
              /\ claimed' = claimed \cup {slot}
              /\ pass' = [pass EXCEPT ![c].due = @ \ {d}, ![c].slot = slot]
         ELSE /\ pass' = [pass EXCEPT ![c].due = @ \ {d}]
              /\ UNCHANGED <<rows, claimed>>
      /\ UNCHANGED <<clock, setting, jobLock, panel, bounds, started, again>>

\* ... then runs the flow, or finds it switched off.
StartFlow(c) ==
  /\ InPass(c) /\ ~Between(c)
  /\ started' = started \cup {pass[c].slot}
  /\ again' = again \cup ({pass[c].slot} \cap started)
  /\ pass' = [pass EXCEPT ![c].slot = None]
  /\ UNCHANGED <<clock, setting, rows, jobLock, panel, bounds, claimed>>

EndPass(c) ==
  /\ Between(c) /\ (InPass(c) => pass[c].due = {})
  /\ pass' = [pass EXCEPT ![c] = None]
  /\ jobLock' = IF jobLock = c THEN None ELSE jobLock
  /\ UNCHANGED <<clock, setting, rows, panel, bounds, history>>

\* The copy stops, or the pass is cancelled after 50 seconds.
CutPass(c) ==
  /\ InPass(c) /\ faults < MaxFaults
  /\ pass' = [pass EXCEPT ![c] = None]
  /\ jobLock' = IF jobLock = c THEN None ELSE jobLock
  /\ faults' = faults + 1
  /\ UNCHANGED <<clock, setting, rows, panel, requests, history>>

\* The connection that holds the lock breaks; the pass goes on.
LoseLock(c) ==
  /\ jobLock = c /\ faults < MaxFaults
  /\ jobLock' = None
  /\ faults' = faults + 1
  /\ UNCHANGED <<clock, setting, rows, pass, panel, requests, history>>

-----------------------------------------------------------------------------
Working(c) == StartPass(c) \/ Claim(c) \/ StartFlow(c) \/ EndPass(c)

Next ==
  \/ Tick \/ ChangeSettings
  \/ \E a \in Admins : AskSchedule(a) \/ SaveSchedule(a)
  \/ \E f \in Flows : RemoveSchedule(f)
  \/ \E c \in Copies : Working(c) \/ CutPass(c) \/ LoseLock(c)

Spec == Init /\ [][Next]_vars

-----------------------------------------------------------------------------
(* Properties *)

\* A slot of a schedule, as it was saved, is dealt with at most once, whatever copies hold the job's lock or think
\* they do; and one that was claimed is lost only with a pass that was cut off right then.
Held == {pass[c].slot : c \in {d \in Copies : InPass(d) /\ ~Between(d)}}
OncePerSlot == again = {} /\ Cardinality(claimed \ (started \cup Held)) <= faults

\* The days a cadence has a moment for that is later than h.now, and the moments, each found on its own.
LaterDays(h) == {d \in Days : Runs(h.cadence, h.set, d) /\ MomentOf(h.cadence, h.set, d) > h.now}
Moments(h) == {MomentOf(h.cadence, h.set, d) : d \in LaterDays(h)}

\* "The first moment after `after` (aware) the cadence says to run" (next_run): it is not, for a monthly flow that
\* was moved off a day that is over to one that is not.
FirstMoment == \A f \in Flows : Active(f) => rows[f].next = Min(Moments(rows[f].why))

\* A row's next run is a moment of its cadence after `now`, so slots that were missed cost one run and not one each;
\* the only moments left out before it are those a monthly flow was moved to from a day that is over.
NoMomentLost == \A f \in Flows : Active(f) =>
  LET h == rows[f].why
  IN  /\ rows[f].next \in Moments(h)
      /\ \A d \in LaterDays(h) : MomentOf(h.cadence, h.set, d) < rows[f].next => h.cadence.every = "month" /\ d < DayOf(h.now)
=============================================================================
