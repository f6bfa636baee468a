----------------------------- MODULE FlowChains -----------------------------
(***************************************************************************)
(* Flows that start after another flow: flow_chains, the requests of the   *)
(* panel that choose how a flow starts, and the runs of                    *)
(* services/flow_triggers.py, in which a flow that finishes starts those   *)
(* that follow it, inside its own run.                                     *)
(*                                                                         *)
(* When a schedule is due is in FlowSchedules; here a flow with a schedule *)
(* may start at any time.                                                  *)
(***************************************************************************)
EXTENDS Naturals, Sequences, FiniteSets, SequencesExt

CONSTANTS
  Flows,
  Admins,             \* admins with the panel open
  Starts,             \* runs that go on at the same time: of the job, of the panel, of people's chats
  Depths,             \* what orgs.settings.flows.max_chain_depth may be
  None,
  MaxRequests,        \* bound: requests that choose how a flow starts
  MaxEdits,           \* bound: flows edited, switched, and triggers removed
  MaxRuns             \* bound: flows started

\* What the constants have to be.
Given ==
  /\ IsFiniteSet(Flows) /\ None \notin Flows
  /\ Depths \subseteq Nat \ {0} /\ {MaxRequests, MaxEdits, MaxRuns} \subseteq Nat

VARIABLES
  depth,        \* the organisation's max_chain_depth; nothing here changes it
  on,           \* the flows that are switched on
  needs,        \* needs[f]: what its steps need a person for
  timed,        \* the flows with a row in flow_schedules
  after,        \* after[f]: the flow its row in flow_chains names
  panel,        \* panel[a]: the trigger an admin's request is about to save
  stack,        \* stack[s]: the flows of a run, each started by the one before it
  requests, edits, runs,
  raced         \* history: two requests to save a trigger were under way at once

bounds == <<requests, edits, runs>>
vars == <<depth, on, needs, timed, after, panel, stack, bounds, raced>>

\* A flow that needs nobody, one that waits for a code or an approval, one with the newer "ask someone" step.
Needs == {"nobody", "gate", "ask"}

\* A flow as it was read when the one before it finished.
Kids == [flow : Flows, on : BOOLEAN, needs : Needs]

\* A flow in its steps (kids = None), which can succeed without a person or not, or starting what follows it.
Frames == [flow : Flows, alone : BOOLEAN, ends : BOOLEAN, kids : {None} \cup SUBSET Kids]

TypeOK ==
  /\ depth \in Depths
  /\ on \subseteq Flows
  /\ needs \in [Flows -> Needs]
  /\ timed \subseteq Flows
  /\ after \in [Flows -> Flows \cup {None}]
  /\ panel \in [Admins -> [flow : Flows, after : Flows \cup {None}, replaced : BOOLEAN] \cup {None}]
  /\ \A s \in Starts : \A i \in DOMAIN stack[s] : stack[s][i] \in Frames
  /\ requests \in 0..MaxRequests /\ edits \in 0..MaxEdits /\ runs \in 0..MaxRuns
  /\ raced \in BOOLEAN

Init ==
  /\ depth \in Depths
  /\ on = Flows
  /\ needs = [f \in Flows |-> "nobody"]
  /\ timed = {}
  /\ after = [f \in Flows |-> None]
  /\ panel = [a \in Admins |-> None]
  /\ stack = [s \in Starts |-> <<>>]
  /\ requests = 0 /\ edits = 0 /\ runs = 0
  /\ raced = FALSE

-----------------------------------------------------------------------------
(* How a flow starts *)

\* unfit_reasons: a step that waits for a code or an approval; an "ask someone" step is not on its list.
Unfit(need) == need = "gate"

\* The flows found by following the "after" links up from p, without f's own.
Above(p, f) ==
  LET up[n \in 0..Cardinality(Flows)] ==
        IF n = 0 THEN {p} ELSE up[n - 1] \cup {after[x] : x \in up[n - 1] \ {f, None}}
  IN  up[Cardinality(Flows)] \ {None}

\* chain_problem: f would go round in circles.
ChainProblem(f, p) == f \in Above(p, f)

\* set_schedule (p = None) and set_after check everything first ...
AskTrigger(a) == \E f \in Flows, p \in Flows \cup {None} :
  /\ panel[a] = None /\ requests < MaxRequests
  /\ ~Unfit(needs[f])
  /\ p # None => ~ChainProblem(f, p)
  /\ panel' = [panel EXCEPT ![a] = [flow |-> f, after |-> p, replaced |-> FALSE]]
  /\ requests' = requests + 1
  /\ raced' = (raced \/ \E b \in Admins : panel[b] # None)
  /\ UNCHANGED <<depth, on, needs, timed, after, stack, edits, runs>>

Asked(a, done) == panel[a] # None /\ (panel[a] # None => panel[a].replaced = done)

\* Mutant: choosing a schedule leaves the flow it followed.
ReplaceScheduleOnly(a) ==
  /\ Asked(a, FALSE)
  /\ panel' = [panel EXCEPT ![a].replaced = TRUE]
  /\ timed' = IF panel[a].after = None THEN timed ELSE timed \ {panel[a].flow}
  /\ UNCHANGED <<depth, on, needs, after, stack, bounds, raced>>

\* ... then delete the other way to start ...
Replace(a) ==
  /\ Asked(a, FALSE)
  /\ panel' = [panel EXCEPT ![a].replaced = TRUE]
  /\ LET f == panel[a].flow
     IN  IF panel[a].after = None
         THEN after' = [after EXCEPT ![f] = None] /\ UNCHANGED timed
         ELSE timed' = timed \ {f} /\ UNCHANGED after
  /\ UNCHANGED <<depth, on, needs, stack, bounds, raced>>

\* ... and save this one.
SaveTrigger(a) ==
  /\ Asked(a, TRUE)
  /\ LET f == panel[a].flow
     IN  IF panel[a].after = None
         THEN timed' = timed \cup {f} /\ UNCHANGED after
         ELSE after' = [after EXCEPT ![f] = panel[a].after] /\ UNCHANGED timed
  /\ panel' = [panel EXCEPT ![a] = None]
  /\ UNCHANGED <<depth, on, needs, stack, bounds, raced>>

\* The request dies between its statements.
CutRequest(a) ==
  /\ panel[a] # None
  /\ panel' = [panel EXCEPT ![a] = None]
  /\ UNCHANGED <<depth, on, needs, timed, after, stack, bounds, raced>>

Edit == edits < MaxEdits /\ edits' = edits + 1

RemoveTrigger(f) ==
  /\ Edit
  /\ \/ f \in timed /\ timed' = timed \ {f} /\ UNCHANGED after
     \/ after[f] # None /\ after' = [after EXCEPT ![f] = None] /\ UNCHANGED timed
  /\ UNCHANGED <<depth, on, needs, panel, stack, requests, runs, raced>>

\* The editor refuses steps that need a person in a flow that starts by itself.
EditFlow(f) == \E n \in Needs \ {needs[f]} :
  /\ Edit
  /\ f \in timed \/ after[f] # None => ~Unfit(n)
  /\ needs' = [needs EXCEPT ![f] = n]
  /\ UNCHANGED <<depth, on, timed, after, panel, stack, requests, runs, raced>>

SwitchFlow(f) ==
  /\ Edit
  /\ on' = IF f \in on THEN on \ {f} ELSE on \cup {f}
  /\ UNCHANGED <<depth, needs, timed, after, panel, stack, requests, runs, raced>>

-----------------------------------------------------------------------------
(* Runs *)

AsItIs(f) == [flow |-> f, on |-> f \in on, needs |-> needs[f]]
InChain(s) == {stack[s][i].flow : i \in DOMAIN stack[s]}
Deepest(s) == Last(stack[s])
InSteps(s) == stack[s] # <<>> /\ (stack[s] # <<>> => Deepest(s).kids = None)
Following(s) == stack[s] # <<>> /\ ~InSteps(s)

\* run_flow: switched on, not in this chain already, and nothing that needs a person.
MayRun(s, k) == k.on /\ ~Unfit(k.needs) /\ k.flow \notin InChain(s)

Alone(k) == [flow |-> k.flow, alone |-> TRUE, ends |-> k.needs = "nobody", kids |-> None]

\* The job, or "Run it now" in the panel.
RunBySchedule(s, f) ==
  /\ stack[s] = <<>> /\ runs < MaxRuns
  /\ f \in timed /\ MayRun(s, AsItIs(f))
  /\ stack' = [stack EXCEPT ![s] = <<Alone(AsItIs(f))>>]
  /\ runs' = runs + 1
  /\ UNCHANGED <<depth, on, needs, timed, after, panel, requests, edits, raced>>

\* A person starts it in the chat, and is there for what its steps need.
RunInChat(s, f) ==
  /\ stack[s] = <<>> /\ runs < MaxRuns
  /\ f \in on
  /\ stack' = [stack EXCEPT ![s] = <<[flow |-> f, alone |-> FALSE, ends |-> TRUE, kids |-> None]>>]
  /\ runs' = runs + 1
  /\ UNCHANGED <<depth, on, needs, timed, after, panel, requests, edits, raced>>

\* The steps succeed, and after_done reads the flows that follow.
StepsDone(s) ==
  /\ InSteps(s) /\ (InSteps(s) => Deepest(s).ends)
  /\ stack' = [stack EXCEPT ![s][Len(stack[s])].kids =
                 {AsItIs(k) : k \in {f \in Flows : after[f] = Deepest(s).flow}}]
  /\ UNCHANGED <<depth, on, needs, timed, after, panel, bounds, raced>>

\* The steps fail, or stop to wait for someone: nothing follows.
StepsFail(s) ==
  /\ InSteps(s)
  /\ stack' = [stack EXCEPT ![s] = Front(@)]
  /\ UNCHANGED <<depth, on, needs, timed, after, panel, bounds, raced>>

\* The first flow has depth 0, and each that follows one more.
DepthLeft(s) == Len(stack[s]) <= depth

\* Each flow that follows runs inside this one, is refused, or is beyond the depth.
NextKid(s) ==
  /\ Following(s) /\ (Following(s) => Deepest(s).kids # {})
  /\ \E k \in Deepest(s).kids :
       LET rest == [stack[s] EXCEPT ![Len(stack[s])].kids = @ \ {k}]
       IN  stack' = [stack EXCEPT ![s] = IF DepthLeft(s) /\ MayRun(s, k) THEN Append(rest, Alone(k)) ELSE rest]
  /\ UNCHANGED <<depth, on, needs, timed, after, panel, bounds, raced>>

KidsDone(s) ==
  /\ Following(s) /\ (Following(s) => Deepest(s).kids = {})
  /\ stack' = [stack EXCEPT ![s] = Front(@)]
  /\ UNCHANGED <<depth, on, needs, timed, after, panel, bounds, raced>>

\* The copy stops, or the job is cancelled after 50 seconds.
CutRun(s) ==
  /\ stack[s] # <<>>
  /\ stack' = [stack EXCEPT ![s] = <<>>]
  /\ UNCHANGED <<depth, on, needs, timed, after, panel, bounds, raced>>

-----------------------------------------------------------------------------
Choosing(a) == AskTrigger(a) \/ Replace(a) \/ SaveTrigger(a) \/ CutRequest(a)
Editing(f) == RemoveTrigger(f) \/ EditFlow(f) \/ SwitchFlow(f)
Going(s) == StepsDone(s) \/ StepsFail(s) \/ NextKid(s) \/ KidsDone(s)

Next ==
  \/ \E a \in Admins : Choosing(a)
  \/ \E f \in Flows : Editing(f)
  \/ \E s \in Starts, f \in Flows : RunBySchedule(s, f) \/ RunInChat(s, f)
  \/ \E s \in Starts : Going(s) \/ CutRun(s)

Spec == Init /\ [][Next]_vars

-----------------------------------------------------------------------------
(* Properties *)

\* No flow runs inside its own chain, and no chain is deeper than the organisation's limit, whatever the rows say.
ChainIsCut == \A s \in Starts :
  /\ IsInjective([i \in DOMAIN stack[s] |-> stack[s][i].flow])
  /\ Len(stack[s]) <= depth + 1

\* As long as no two requests to choose how a flow starts were under way at once, no flow has both a schedule and a
\* flow to follow, and none follows itself through others.
OneWayToStart == ~raced => \A f \in Flows :
  after[f] # None => f \notin timed /\ f \notin Above(after[f], f)

\* "A flow that starts by itself has nobody to ask" (the head of services/flow_triggers.py): it may, with a step
\* that asks someone, which unfit_reasons does not know.
NeedsNobody == \A s \in Starts : \A i \in DOMAIN stack[s] : stack[s][i].alone => stack[s][i].ends
=============================================================================
