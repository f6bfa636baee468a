------------------------------ MODULE InTheEnd ------------------------------
(***************************************************************************)
(* A person's chat (Conversation) and the reminders about late cases       *)
(* (CaseReminders), side by side: in both something must happen in the     *)
(* end.  They share no state.                                              *)
(***************************************************************************)
EXTENDS Conversation

CONSTANTS
  Copies, Rounds, Cases, OrgOf, PeopleOf, Configs, MaxFailures,
  MaxFaults               \* bound: that of CaseReminders

VARIABLES config, late, closed, marked, failures, jobLock, pass, faults, heard, misses

ofCases == <<config, late, closed, marked, failures, jobLock, pass, faults, heard, misses>>
everything == <<vars, ofCases>>

Case == INSTANCE CaseReminders WITH told <- heard

ASSUME CaseGiven == Case!Given

\* Nobody hears the same about a case twice without a fault, and a case is marked as told for a reason.
MarkedRight == Case!ToldOnce /\ Case!MarkedForAReason

\* A case that is late is marked or closed in the end.
DueIsMarked == Case!DueIsMarked
=============================================================================
