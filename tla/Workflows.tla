----------------------------- MODULE Workflows -----------------------------
(***************************************************************************)
(* The flows of an organisation, side by side: carrying one out            *)
(* (GatedFlows), changing them in the panel (FlowEditing), and what those  *)
(* of a housing society do with a ticket and its people (Tickets).  The    *)
(* three share no state: what a change does to a request that is under way *)
(* is the edit of GatedFlows.                                              *)
(***************************************************************************)
EXTENDS GatedFlows

CONSTANTS
  Editable, Blocks, PanelRoles, Admins, Texts, Needs, Uses, Firsts, Ticked,
  MaxRequests, MaxCuts,         \* bounds: MaxRequests and MaxFaults of FlowEditing
  Ids, Residents, Covering, Routed, Level2,
  MaxFilings, MaxPasses, MaxPlans, MaxBreaks    \* bounds: those of Tickets, the last its MaxFaults

VARIABLES
  row, kept, permissions, page, request, requests, cuts, sketch, behind, made, crossed,
  unique, tickets, on, been, heard, word, overtaken, crowded, acting, plan, filings, passes, plans, breaks

ofEdited == <<row, kept, permissions, page, request, requests, cuts, sketch, behind, made, crossed>>
ofTickets ==
  <<unique, tickets, on, been, heard, word, overtaken, crowded, acting, plan, filings, passes, plans, breaks>>

Edit == INSTANCE FlowEditing WITH
  Flows <- Editable, Roles <- PanelRoles, MaxFaults <- MaxCuts, faults <- cuts,
  draft <- sketch, late <- behind, raced <- crossed

Ticket == INSTANCE Tickets WITH
  People <- Residents, MaxFaults <- MaxBreaks, raced <- overtaken, run <- acting, faults <- breaks

ASSUME EditGiven == Edit!Given
ASSUME TicketGiven == Ticket!Given

\* No version of a flow is lost by saving, restoring or deleting it, and an edit starts from the version it replaces.
NoEditLost == Edit!ReplacedIsKept /\ Edit!EditsBuildOnTheLast

\* Who has a flow has what its own steps ask for (not what those of its blocks do), and the blocks it runs are there,
\* as long as requests come one at a time.
NeedsAreMet == Edit!TickedCanUse /\ Edit!BlocksAreThere

\* Who has handled a ticket stays on it, and who is on it knows who has it.
KeptInTheLoop == Ticket!NobodyDropsOut /\ Ticket!LastWordIsTrue

\* Two complaints saved one after the other have numbers of their own.
NumbersDiffer == Ticket!TypeOK /\ Ticket!NumbersDiffer
=============================================================================
