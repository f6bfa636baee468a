------------------------------- MODULE Tickets -------------------------------
(***************************************************************************)
(* The people of a ticket: somebody files it (file_a_complaint), it gets   *)
(* its number and the handler the routing rules name, people pass it on    *)
(* (case_pass_on, from the chat or the dashboard), and a reminder plan     *)
(* hands it to a backup.  A flow runs step by step and each step is for    *)
(* good, so that flows of several people, and the plan, may interleave     *)
(* anywhere; a step may fail and a message may not arrive.                 *)
(*                                                                         *)
(* Timeline rows, photos and the closing of tickets are left out: they     *)
(* change neither who is on a ticket nor who has it.                       *)
(***************************************************************************)
EXTENDS Naturals, FiniteSets, FiniteSetsExt

CONSTANTS
  Ids,         \* the rows of cases there may be
  People,
  Covering,    \* those whose role covers every case
  Routed,      \* the handler the routing rules name, or None
  Level2,      \* those they put on it besides
  None,
  MaxFilings,  \* bound: complaints filed
  MaxPasses,   \* bound: tickets passed on by people
  MaxPlans,    \* bound: hand-overs by a reminder plan
  MaxFaults    \* bound: runs that break off, messages that do not arrive

Roles == {"requester", "assignee", "level2", "helper"}

\* Rows of cases, flows between two of their steps, hand-overs of a plan.
Rows == [number : Nat, handler : People \cup {None}]
Runs == [flow : {"file", "pass"}, at : {"number", "insert", "level2", "authorize", "keep", "give", "look", "tell"},
         ticket : Ids \cup {None}, number : Nat, seen : People \cup {None}, new : People \cup {None},
         left : SUBSET People, has : SUBSET People]
Plans == [at : {"target", "give", "tell"}, old : People \cup {None}, new : People \cup {None}]

Given ==
  /\ Covering \subseteq People /\ Routed \in People \cup {None} /\ Level2 \subseteq People \ {Routed}
  /\ None \notin People /\ None \notin Ids /\ None \notin Rows /\ None \notin Runs /\ None \notin Plans
  /\ People \cap {"plan", "told", "mixed"} = {}

VARIABLES
  unique,      \* has the table a unique rule on the number?  cases has, a table made in the panel has not
  tickets,     \* [number, handler] of each ticket, or None
  on,          \* case_parties: who is on each ticket as what, the rows that have not ended
  been,        \* whoever has been its handler
  heard,       \* whom each person last heard the ticket is with
  word,        \* "told" when the last change of handler has been made known, the run or plan that is to tell
               \* of it, or "mixed" when two change it at once, one broke off, a message did not arrive, or somebody
               \* is put on it whom nobody tells
  raced,       \* has a handler been replaced by somebody who had read another one?
  crowded,     \* were two complaints saved at once?
  run,         \* each person's flow, or None
  plan,        \* the plan's hand-over of each ticket, or None
  filings, passes, plans, faults

bounds == <<filings, passes, plans, faults>>
vars == <<unique, tickets, on, been, heard, word, raced, crowded, run, plan, bounds>>

There == {t \in Ids : tickets[t] # None}
OnIt(t) == {row[1] : row \in on[t]}
As(t, role) == {p \in People : <<p, role>> \in on[t]}

Running(p, at) == run[p] # None /\ run[p].at = at

TypeOK ==
  /\ unique \in BOOLEAN /\ crowded \in BOOLEAN /\ raced \in [Ids -> BOOLEAN]
  /\ tickets \in [Ids -> Rows \cup {None}] /\ run \in [People -> Runs \cup {None}]
  /\ plan \in [Ids -> Plans \cup {None}]
  /\ on \in [Ids -> SUBSET (People \X Roles)] /\ been \in [Ids -> SUBSET People]
  /\ heard \in [Ids -> [People -> People \cup {None}]]
  /\ word \in [Ids -> People \cup {"plan", "told", "mixed"}]
  /\ \A t \in There : As(t, "assignee") = {tickets[t].handler} \ {None}

Init ==
  /\ unique \in BOOLEAN /\ crowded = FALSE
  /\ tickets = [t \in Ids |-> None] /\ on = [t \in Ids |-> {}] /\ been = [t \in Ids |-> {}]
  /\ heard = [t \in Ids |-> [p \in People |-> None]]
  /\ word = [t \in Ids |-> "told"] /\ raced = [t \in Ids |-> FALSE]
  /\ run = [p \in People |-> None] /\ plan = [t \in Ids |-> None]
  /\ filings = 0 /\ passes = 0 /\ plans = 0 /\ faults = 0

-----------------------------------------------------------------------------
(* What several steps do *)

To(p, at) == run' = [run EXCEPT ![p].at = at]

\* Is somebody else still telling people who has the ticket?
Telling(t, who) ==
  \/ plan[t] # None /\ plan[t].at = "tell" /\ who # "plan"
  \/ \E p \in People : run[p] # None /\ run[p].ticket = t /\ run[p].at \in {"level2", "look", "tell"} /\ p # who

\* The rows of case_parties after a change of handler: the trigger ends the old one's and adds the new one's.
Synced(t, new) == {row \in on[t] : row[2] # "assignee"} \cup {<<new, "assignee">>}

\* UPDATE cases SET assigned_to_id, with what it does to the rows, by somebody who had read the handler to be seen.
HandTo(t, new, seen, rows, who) ==
  /\ tickets' = [tickets EXCEPT ![t].handler = new]
  /\ on' = [on EXCEPT ![t] = Synced(t, new) \cup rows]
  /\ been' = [been EXCEPT ![t] = @ \cup {new}]
  /\ raced' = [raced EXCEPT ![t] = @ \/ tickets[t].handler # seen]
  /\ word' = [word EXCEPT ![t] = IF tickets[t].handler # seen \/ Telling(t, who) THEN "mixed" ELSE who]

\* A change that whoever makes it will not make known, or not to everybody.
Unheard(t, who) == word' = [word EXCEPT ![t] = IF @ = who THEN "mixed" ELSE @]

-----------------------------------------------------------------------------
(* file_a_complaint *)

StartFile(p) ==
  /\ run[p] = None /\ filings < MaxFilings
  /\ run' = [run EXCEPT ![p] = [flow |-> "file", at |-> "number", ticket |-> None, number |-> 0, seen |-> None,
                                new |-> Routed, left |-> {}, has |-> {}]]
  /\ filings' = filings + 1
  /\ UNCHANGED <<unique, tickets, on, been, heard, word, raced, crowded, plan, passes, plans, faults>>

\* Mutant: the highest number there is.
NextNumberLast == Max({0} \cup {tickets[t].number : t \in There})

NextNumber == Max({0} \cup {tickets[t].number : t \in There}) + 1

\* The highest number is read.  The advisory lock before it is taken in a statement of its own, and given back
\* with it.
Number(p) ==
  /\ Running(p, "number")
  /\ run' = [run EXCEPT ![p].number = NextNumber, ![p].at = "insert"]
  /\ UNCHANGED <<unique, tickets, on, been, heard, word, raced, crowded, plan, bounds>>

\* INSERT INTO cases, with the row the trigger adds for who raised it; a number that is taken breaks the unique rule
\* and the flow ends.
Insert(p) ==
  /\ Running(p, "insert")
  /\ crowded' = (crowded \/ \E q \in People \ {p} : Running(q, "insert"))
  /\ \/ /\ unique /\ \E t \in There : tickets[t].number = run[p].number
        /\ run' = [run EXCEPT ![p] = None]
        /\ UNCHANGED <<tickets, on>>
     \/ /\ unique => \A t \in There : tickets[t].number # run[p].number
        /\ \E t \in Ids \ There :
             /\ \A u \in Ids \ There : t <= u
             /\ tickets' = [tickets EXCEPT ![t] = [number |-> run[p].number, handler |-> None]]
             /\ on' = [on EXCEPT ![t] = {<<p, "requester">>}]
             /\ run' = [run EXCEPT ![p].ticket = t, ![p].at = "give"]
  /\ UNCHANGED <<unique, been, heard, word, raced, plan, bounds>>

\* case_apply_route: the case goes to whom the rules named before it was saved.
GiveRouted(p) ==
  /\ Running(p, "give") /\ run[p].flow = "file"
  /\ IF run[p].new # None
     THEN HandTo(run[p].ticket, run[p].new, None, {}, p)
     ELSE UNCHANGED <<tickets, on, been, raced, word>>
  /\ To(p, "level2")
  /\ UNCHANGED <<unique, heard, crowded, plan, bounds>>

\* case.add_parties.  When the case has been given to somebody else meanwhile, nobody tells them who has it.
AddLevel2(p) ==
  /\ Running(p, "level2")
  /\ LET t == run[p].ticket
     IN /\ on' = [on EXCEPT ![t] = @ \cup (Level2 \X {"level2"})]
        /\ word' = [word EXCEPT ![t] = IF tickets[t].handler = run[p].new \/ Level2 \subseteq OnIt(t)
                                       THEN @ ELSE "mixed"]
  /\ To(p, "look")
  /\ UNCHANGED <<unique, tickets, been, heard, raced, crowded, plan, bounds>>

-----------------------------------------------------------------------------
(* case_pass_on *)

\* case_find: the case is read as it is now.
Find(p) ==
  /\ run[p] = None /\ passes < MaxPasses
  /\ \E t \in There, new \in People :
       run' = [run EXCEPT ![p] = [flow |-> "pass", at |-> "authorize", ticket |-> t, number |-> 0,
                                  seen |-> tickets[t].handler, new |-> new, left |-> {}, has |-> {}]]
  /\ passes' = passes + 1
  /\ UNCHANGED <<unique, tickets, on, been, heard, word, raced, crowded, plan, filings, plans, faults>>

\* case.authorize: a role that covers all cases, or being on this one as somebody who may.
Authorize(p) ==
  /\ Running(p, "authorize")
  /\ IF p \in Covering \cup As(run[p].ticket, "assignee") \cup As(run[p].ticket, "level2")
     THEN To(p, "keep")
     ELSE run' = [run EXCEPT ![p] = None]
  /\ UNCHANGED <<unique, tickets, on, been, heard, word, raced, crowded, plan, bounds>>

\* Mutant: the one who passes it on is kept.
KeepOldActor(p) ==
  /\ Running(p, "keep")
  /\ on' = [on EXCEPT ![run[p].ticket] = @ \cup {<<p, "helper">>}]
  /\ To(p, "give")
  /\ UNCHANGED <<unique, tickets, been, heard, word, raced, crowded, plan, bounds>>

\* The handler case_find read stays on the case as a helper, or is put on it again.
KeepOld(p) ==
  /\ Running(p, "keep")
  /\ LET t == run[p].ticket
     IN /\ on' = [on EXCEPT ![t] = @ \cup ({run[p].seen} \ {None}) \X {"helper"}]
        /\ word' = [word EXCEPT ![t] = IF run[p].seen \in OnIt(t) \cup {None} THEN @ ELSE "mixed"]
  /\ To(p, "give")
  /\ UNCHANGED <<unique, tickets, been, heard, raced, crowded, plan, bounds>>

\* case_assign
Give(p) ==
  /\ Running(p, "give") /\ run[p].flow = "pass"
  /\ HandTo(run[p].ticket, run[p].new, run[p].seen, {}, p)
  /\ To(p, "look")
  /\ UNCHANGED <<unique, heard, crowded, plan, bounds>>

-----------------------------------------------------------------------------
(* notify.parties *)

\* Who is on the case is read, once; the one who does this is not told.
Look(p) ==
  /\ Running(p, "look")
  /\ LET t == run[p].ticket
     IN run' = [run EXCEPT ![p].left = OnIt(t) \ {p}, ![p].has = As(t, "assignee"), ![p].at = "tell"]
  /\ UNCHANGED <<unique, tickets, on, been, heard, word, raced, crowded, plan, bounds>>

\* "Now with you" for whoever had the case when the people were read, "now with {assignee_name}" for the others; who
\* hears of a new case is not told who has it.  One who cannot be reached does not stop the rest.
Tell(p) ==
  /\ Running(p, "tell")
  /\ \E q \in run[p].left :
       LET t == run[p].ticket
           whose == IF q \in run[p].has THEN q ELSE IF run[p].flow = "pass" THEN run[p].new ELSE heard[t][q]
       IN /\ run' = [run EXCEPT ![p].left = @ \ {q}]
          /\ \/ heard' = [heard EXCEPT ![t][q] = whose] /\ UNCHANGED <<word, faults>>
             \/ /\ faults < MaxFaults /\ faults' = faults + 1
                /\ Unheard(t, p) /\ UNCHANGED heard
  /\ UNCHANGED <<unique, tickets, on, been, raced, crowded, plan, filings, passes, plans>>

\* The flow's answer names the new handler to the one who ran it, if there is one.
Answer(p) ==
  /\ Running(p, "tell") /\ run[p].left = {}
  /\ heard' = [heard EXCEPT ![run[p].ticket][p] = IF run[p].new = None THEN @ ELSE run[p].new]
  /\ word' = [word EXCEPT ![run[p].ticket] = IF @ = p THEN "told" ELSE @]
  /\ run' = [run EXCEPT ![p] = None]
  /\ UNCHANGED <<unique, tickets, on, been, raced, crowded, plan, bounds>>

\* A step fails, or the app stops: the steps before it stay done.
BreakOff(p) ==
  /\ run[p] # None /\ faults < MaxFaults
  /\ run' = [run EXCEPT ![p] = None]
  /\ IF run[p].ticket = None THEN UNCHANGED word ELSE Unheard(run[p].ticket, p)
  /\ faults' = faults + 1
  /\ UNCHANGED <<unique, tickets, on, been, heard, raced, crowded, plan, filings, passes, plans>>

-----------------------------------------------------------------------------
(* The hand-over of a reminder plan *)

\* run_org reads the tickets when the pass begins.
PlanReads(t) ==
  /\ t \in There /\ plan[t] = None /\ plans < MaxPlans
  /\ plan' = [plan EXCEPT ![t] = [at |-> "target", old |-> tickets[t].handler, new |-> None]]
  /\ plans' = plans + 1
  /\ UNCHANGED <<unique, tickets, on, been, heard, word, raced, crowded, run, filings, passes, faults>>

\* fire: the first backup who is not the handler the pass read; with none it hands nothing over.
PlanTargets(t) ==
  /\ plan[t] # None /\ plan[t].at = "target"
  /\ LET backups == As(t, "level2") \ {plan[t].old}
     IN IF backups = {} THEN plan' = [plan EXCEPT ![t] = None]
        ELSE \E q \in backups : plan' = [plan EXCEPT ![t].new = q, ![t].at = "give"]
  /\ UNCHANGED <<unique, tickets, on, been, heard, word, raced, crowded, run, bounds>>

\* _hand_over: one transaction; the handler the pass read stays on the ticket as a backup.
PlanGives(t) ==
  /\ plan[t] # None /\ plan[t].at = "give"
  /\ HandTo(t, plan[t].new, plan[t].old, ({plan[t].old} \ {None}) \X {"level2"}, "plan")
  /\ plan' = [plan EXCEPT ![t].at = "tell"]
  /\ UNCHANGED <<unique, heard, crowded, run, bounds>>

\* The two of them hear of it, the others only if the step says so.
PlanTells(t) ==
  /\ plan[t] # None /\ plan[t].at = "tell"
  /\ heard' = [heard EXCEPT ![t] = [p \in People |-> IF p \in {plan[t].old, plan[t].new} THEN plan[t].new ELSE @[p]]]
  /\ Unheard(t, "plan")
  /\ plan' = [plan EXCEPT ![t] = None]
  /\ UNCHANGED <<unique, tickets, on, been, raced, crowded, run, bounds>>

-----------------------------------------------------------------------------
Next ==
  \/ \E p \in People :
       \/ StartFile(p) \/ Number(p) \/ Insert(p) \/ GiveRouted(p) \/ AddLevel2(p)
       \/ Find(p) \/ Authorize(p) \/ KeepOld(p) \/ Give(p)
       \/ Look(p) \/ Tell(p) \/ Answer(p) \/ BreakOff(p)
  \/ \E t \in Ids : PlanReads(t) \/ PlanTargets(t) \/ PlanGives(t) \/ PlanTells(t)

Spec == Init /\ [][Next]_vars

-----------------------------------------------------------------------------
(* What must hold *)

\* Whoever has handled a ticket is still on it, unless a hand-over was made by somebody who had read another handler.
NobodyDropsOut == \A t \in There : raced[t] \/ been[t] \subseteq OnIt(t)

\* Once a change of handler has been made known, by one at a time and without a fault, and nobody was put on the ticket
\* whom nobody tells, whoever is on it and was told anything believes what is so, and the handler knows.
LastWordIsTrue ==
  \A t \in There : word[t] = "told" =>
    /\ \A p \in OnIt(t) : heard[t][p] \in {None, tickets[t].handler}
    /\ tickets[t].handler # None => heard[t][tickets[t].handler] = tickets[t].handler

\* Two records have the same number only if they were saved at once, in a table without a unique rule.
NumbersDiffer ==
  \A t, u \in There : t # u /\ tickets[t].number = tickets[u].number => crowded /\ ~unique
=============================================================================
