------------------------------- MODULE Timers -------------------------------
(***************************************************************************)
(* What the scheduler starts by itself, side by side: the reminder plan of *)
(* a ticket (ReminderPlans), the flows on a timer (FlowSchedules) and the  *)
(* flows that follow others (FlowChains).  They share no state, only the   *)
(* copies of the app.                                                      *)
(***************************************************************************)
EXTENDS ReminderPlans

CONSTANTS
  Flows, Panels,      \* the flows admins put on a timer, and the admins who do
  Cadences, Settings, Lengths, DaysPerWeek, PerDay,
  MaxClock, MaxSaves, MaxCuts,    \* bounds: MaxTime, MaxRequests and MaxFaults of FlowSchedules
  Linked, Linkers,    \* the flows admins let follow each other, and the admins who do
  Starts, Depths,
  MaxChoices, MaxEdits, MaxRuns   \* bounds: MaxRequests, MaxEdits and MaxRuns of FlowChains

VARIABLES
  clock, setting, rows, flowLock, pass, panel, requests, faults, claimed, started, again,
  depth, on, needs, timed, after, choice, stack, choices, edits, runs, raced

ofTimed == <<clock, setting, rows, flowLock, pass, panel, requests, faults, claimed, started, again>>
ofChained == <<depth, on, needs, timed, after, choice, stack, choices, edits, runs, raced>>

Timed == INSTANCE FlowSchedules WITH
  Admins <- Panels, MaxTime <- MaxClock, MaxRequests <- MaxSaves, MaxFaults <- MaxCuts, jobLock <- flowLock

Chained == INSTANCE FlowChains WITH
  Flows <- Linked, Admins <- Linkers, MaxRequests <- MaxChoices, panel <- choice, requests <- choices

ASSUME TimedGiven == Timed!Given
ASSUME ChainedGiven == Chained!Given

\* A flow's slot is run at most once and lost only with a pass that was cut off, and the next run of a schedule is
\* the first moment of its cadence, but for a monthly flow that was moved.
EachMomentOnce == Timed!OncePerSlot /\ Timed!NoMomentLost

\* Flows that follow each other come to an end: a flow has one way to start, follows itself through no others, and a
\* chain that is there all the same is cut.
ChainsEnd == Chained!ChainIsCut /\ Chained!OneWayToStart
=============================================================================
