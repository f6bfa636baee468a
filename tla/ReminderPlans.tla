--------------------------- MODULE ReminderPlans ---------------------------
(***************************************************************************)
(* One ticket under a reminder plan: services/reminder_plans.py, run every *)
(* minute by every copy of the app behind the job lock of                  *)
(* scheduler/locks.py, while people work on the ticket and the trigger of  *)
(* housing-0013 keeps its clock.                                           *)
(*                                                                         *)
(* The clock counts in units of the plan: Share[s] is the number of units  *)
(* at which the share of step s is reached, Every[s] the period of a       *)
(* repeating step.  A ticket with a time limit uses the share steps, one   *)
(* without the repeating steps.                                            *)
(***************************************************************************)
EXTENDS Naturals, FiniteSets

CONSTANTS
  Copies,       \* the running copies of the app
  People,       \* who may handle the ticket
  ShareSteps,   \* steps with at_percent, by their number in the plan
  RepeatSteps,  \* steps with every_minutes
  Share, Every, \* when the steps are due
  OnlyIf,       \* each step's condition
  Reassigning,  \* the steps that hand the ticket to its backup; the others only send messages
  None,         \* no copy, no person, no step
  MaxTime,      \* bound: units the clock runs
  MaxReopens,   \* bound: how often the ticket is reopened
  MaxAssigns,   \* bound: how often people give the ticket to somebody else
  MaxFaults     \* bound: passes that die or are cancelled after 50 seconds, and connections that hold a
                \* job lock lost under a pass

Steps == ShareSteps \cup RepeatSteps

ASSUME BoundsAreNumbers == MaxTime \in Nat /\ MaxReopens \in Nat
ASSUME StepsAreNumbered == Steps \subseteq Nat
ASSUME SharesAreNumbers == Share \in [ShareSteps -> Nat]
ASSUME PeriodsArePositive == \A s \in RepeatSteps : Every[s] \in Nat \ {0}
ASSUME NoneIsApart == None \notin Copies \cup People

\* A row of case_reminder_log: step, tat_cycle, repeat_no.
Keys == (ShareSteps \X (0..MaxReopens) \X {0}) \cup (RepeatSteps \X (0..MaxReopens) \X (1..MaxTime))
ASSUME NoneIsNoKey == None \notin Keys

Statuses == {"new", "working", "paused", "closed"}

VARIABLES
  ticket,       \* its status, clock (elapsed, cycle), time limit (timed), handler and how many hand-overs
                \* it has seen (since, for assigned_at)
  backups,      \* who steps in
  acted,        \* the hand-over under which each person last did something on the ticket, 0 for never
  log,          \* the outcome written for each key, or "none"
  jobLock,      \* the copy that holds the advisory lock of the job
  at,           \* where each copy is in its pass over the ticket
  snap,         \* the ticket as each copy read it
  todo, skip,   \* the keys each copy has to run, and to mark skipped
  doing,        \* the key each copy is firing
  sent, moved,  \* how often each key sent its messages, and handed the ticket over
  assigns, stops, lost

work == <<ticket, backups, acted>>
passes == <<snap, todo, skip, doing>>
effects == <<log, sent, moved>>
bounds == <<assigns, stops, lost>>
vars == <<work, jobLock, at, passes, effects, bounds>>

Tickets == [status : Statuses, elapsed : 0..MaxTime, cycle : 0..MaxReopens, timed : BOOLEAN,
            handler : People, since : Nat]

TypeOK ==
  /\ ticket \in Tickets
  /\ backups \subseteq People /\ acted \in [People -> Nat]
  /\ log \in [Keys -> {"none", "done", "skipped", "failed"}]
  /\ jobLock \in Copies \cup {None}
  /\ at \in [Copies -> {"idle", "ticket", "log", "plan", "check", "act", "tell", "finish", "failed"}]
  /\ snap \in [Copies -> Tickets \cup {None}]
  /\ todo \in [Copies -> SUBSET Keys] /\ skip \in [Copies -> SUBSET Keys]
  /\ doing \in [Copies -> Keys \cup {None}]
  /\ sent \in [Keys -> Nat] /\ moved \in [Keys -> Nat]
  /\ assigns \in Nat /\ stops \in Nat /\ lost \in Nat

\* A ticket was raised and given to somebody; other people are its backups.
Init ==
  /\ \E limit \in BOOLEAN, p \in People :
       /\ ticket = [status |-> "new", elapsed |-> 0, cycle |-> 0, timed |-> limit,
                       handler |-> p, since |-> 1]
       /\ backups \in SUBSET (People \ {p})
  /\ acted = [p \in People |-> 0]
  /\ log = [k \in Keys |-> "none"]
  /\ jobLock = None
  /\ at = [c \in Copies |-> "idle"]
  /\ snap = [c \in Copies |-> None]
  /\ todo = [c \in Copies |-> {}] /\ skip = [c \in Copies |-> {}]
  /\ doing = [c \in Copies |-> None]
  /\ sent = [k \in Keys |-> 0] /\ moved = [k \in Keys |-> 0]
  /\ assigns = 0 /\ stops = 0 /\ lost = 0

-----------------------------------------------------------------------------
(* People, the clock and the trigger *)

Passing == UNCHANGED <<jobLock, at, passes, effects, bounds>>

\* Time goes by; while its status is one that pauses, the ticket's clock stands still.
Tick ==
  /\ ticket.status \in {"new", "working"}
  /\ ticket.elapsed < MaxTime
  /\ ticket' = [ticket EXCEPT !.elapsed = @ + 1]
  /\ UNCHANGED <<backups, acted>> /\ Passing

\* A comment, a photo or a change of status counts as having acted.
Act ==
  /\ ticket.status # "closed"
  /\ \E p \in People : acted' = [acted EXCEPT ![p] = ticket.since]
  /\ \E s \in {ticket.status, "working", "paused", "closed"} : ticket' = [ticket EXCEPT !.status = s]
  /\ UNCHANGED backups /\ Passing

\* A closed ticket is opened again: a fresh clock, and the next cycle for its reminders.
Reopen ==
  /\ ticket.status = "closed"
  /\ ticket.cycle < MaxReopens
  /\ ticket' = [ticket EXCEPT !.status = "working", !.elapsed = 0, !.cycle = @ + 1]
  /\ UNCHANGED <<backups, acted>> /\ Passing

\* A new handler gets a new assigned_at.
Given(t, p) == IF p = t.handler THEN t ELSE [t EXCEPT !.handler = p, !.since = @ + 1]

\* The dashboard or a flow gives the ticket to somebody else.
Assign ==
  /\ assigns < MaxAssigns
  /\ \E p \in People \ {ticket.handler} : ticket' = Given(ticket, p)
  /\ assigns' = assigns + 1
  /\ UNCHANGED <<backups, acted, jobLock, at, passes, effects, stops, lost>>

-----------------------------------------------------------------------------
(* What is due: due_steps *)

\* The share steps whose share is reached and that have no row in this cycle.
ReachedSteps(t, logged) ==
  {s \in ShareSteps : t.elapsed >= Share[s] /\ <<s, t.cycle, 0>> \notin logged}

\* Mutant: everything that is due runs at once.
AllReached(S) == S

\* The furthest of them: the one with the highest share, of equal ones the last of the plan.
Furthest(S) == {s \in S : \A x \in S : Share[x] < Share[s] \/ (Share[x] = Share[s] /\ x <= s)}

\* Mutant: a repeating step runs at the start of the ticket too (no n >= 1).
ToRunFromZero(t, logged) ==
  IF t.timed
  THEN {<<s, t.cycle, 0>> : s \in Furthest(ReachedSteps(t, logged))}
  ELSE {<<s, t.cycle, t.elapsed \div Every[s]>> : s \in RepeatSteps} \ logged

\* With a time limit only the furthest runs; without one every repeating step runs once per period.
ToRun(t, logged) ==
  IF t.timed
  THEN {<<s, t.cycle, 0>> : s \in Furthest(ReachedSteps(t, logged))}
  ELSE {<<s, t.cycle, t.elapsed \div Every[s]>> : s \in {x \in RepeatSteps : t.elapsed >= Every[x]}} \ logged

ToSkip(t, logged) ==
  IF t.timed
  THEN {<<s, t.cycle, 0>> : s \in ReachedSteps(t, logged)} \ ToRun(t, logged)
  ELSE {}

-----------------------------------------------------------------------------
(* A pass of the job *)

Goes(c, from, to) == at[c] = from /\ at' = [at EXCEPT ![c] = to]

\* run_if_free: one copy gets the advisory lock, the others skip this minute.
Start(c) ==
  /\ jobLock = None
  /\ Goes(c, "idle", "ticket")
  /\ jobLock' = c
  /\ UNCHANGED <<work, passes, effects, bounds>>

\* run_org reads the open tickets that are not paused...
ReadTicket(c) ==
  /\ ticket.status \notin {"paused", "closed"}
  /\ Goes(c, "ticket", "log")
  /\ snap' = [snap EXCEPT ![c] = ticket]
  /\ UNCHANGED <<work, jobLock, todo, skip, doing, effects, bounds>>

\* ... and then their rows, and works out what is due.  In the organisation's quiet hours a step that
\* only sends messages waits for the morning, and nothing is written about it.
ReadLog(c) ==
  LET logged == {k \in Keys : log[k] # "none"}
      onlyTell == {k \in Keys : k[1] \notin Reassigning}
  IN
  /\ Goes(c, "log", "plan")
  /\ \E waiting \in {{}, onlyTell} : todo' = [todo EXCEPT ![c] = ToRun(snap[c], logged) \ waiting]
  /\ skip' = [skip EXCEPT ![c] = ToSkip(snap[c], logged)]
  /\ UNCHANGED <<work, jobLock, snap, doing, effects, bounds>>

\* _claim of a step that was passed together with a later one: "skipped", unless it has a row.
Skip(c) ==
  /\ at[c] = "plan"
  /\ \E k \in skip[c] :
       /\ log' = [log EXCEPT ![k] = IF @ = "none" THEN "skipped" ELSE @]
       /\ skip' = [skip EXCEPT ![c] = @ \ {k}]
  /\ UNCHANGED <<work, jobLock, at, snap, todo, doing, sent, moved, bounds>>

\* Mutants: the answer of _claim is not asked; the row is written by _finish only.
ClaimAnyway(c) ==
  /\ skip[c] = {}
  /\ at[c] = "plan"
  /\ \E k \in todo[c] :
       /\ todo' = [todo EXCEPT ![c] = @ \ {k}]
       /\ log' = [log EXCEPT ![k] = "done"]
       /\ doing' = [doing EXCEPT ![c] = k]
       /\ at' = [at EXCEPT ![c] = "check"]
  /\ UNCHANGED <<work, jobLock, snap, skip, sent, moved, bounds>>

ClaimUnwritten(c) ==
  /\ skip[c] = {}
  /\ at[c] = "plan"
  /\ \E k \in todo[c] :
       /\ todo' = [todo EXCEPT ![c] = @ \ {k}]
       /\ \/ /\ log[k] = "none"
             /\ doing' = [doing EXCEPT ![c] = k]
             /\ at' = [at EXCEPT ![c] = "check"]
          \/ log[k] # "none" /\ UNCHANGED <<doing, at>>
  /\ UNCHANGED <<work, jobLock, snap, skip, effects, bounds>>

\* fire begins: the row is written before anything is sent; a row of another copy ends it.
Claim(c) ==
  /\ skip[c] = {}
  /\ at[c] = "plan"
  /\ \E k \in todo[c] :
       /\ todo' = [todo EXCEPT ![c] = @ \ {k}]
       /\ \/ /\ log[k] = "none"
             /\ log' = [log EXCEPT ![k] = "done"]
             /\ doing' = [doing EXCEPT ![c] = k]
             /\ at' = [at EXCEPT ![c] = "check"]
          \/ log[k] # "none" /\ UNCHANGED <<log, doing, at>>
  /\ UNCHANGED <<work, jobLock, snap, skip, sent, moved, bounds>>

\* _acted: did the handler the pass has read do anything since the moment they had got it?
ActedSince(t) == acted[t.handler] >= t.since

\* The step's condition, asked about the ticket as the pass has read it.
Holds(t, s) ==
  /\ OnlyIf[s] = "no_action" => ~ActedSince(t)
  /\ OnlyIf[s] = "not_started" => t.status = "new"

Check(c) ==
  /\ at[c] = "check"
  /\ \/ Holds(snap[c], doing[c][1]) /\ Goes(c, "check", "act") /\ UNCHANGED <<log, doing>>
     \/ /\ ~Holds(snap[c], doing[c][1]) /\ Goes(c, "check", "plan")
        /\ log' = [log EXCEPT ![doing[c]] = "skipped"]
        /\ doing' = [doing EXCEPT ![c] = None]
  /\ UNCHANGED <<work, jobLock, snap, todo, skip, sent, moved, bounds>>

\* _hand_over: the ticket goes to a backup, whoever has it by now; the handler the pass has read stays
\* on as a backup.
HandOver(c) ==
  /\ Goes(c, "act", "tell")
  /\ doing[c][1] \in Reassigning
  /\ \E p \in backups \ {snap[c].handler} : ticket' = Given(ticket, p)
  /\ backups' = backups \cup {snap[c].handler}
  /\ moved' = [moved EXCEPT ![doing[c]] = @ + 1]
  /\ UNCHANGED <<acted, jobLock, passes, log, sent, bounds>>

\* A step that does not reassign, or a ticket without a backup.
NoHandOver(c) ==
  /\ Goes(c, "act", "tell")
  /\ doing[c][1] \in Reassigning => backups \subseteq {snap[c].handler}
  /\ UNCHANGED <<work, jobLock, passes, effects, bounds>>

\* Mutant: nobody told is a failure, whatever was handed over.
TellOnly(c) ==
  /\ at[c] = "tell"
  /\ \/ Goes(c, "tell", "finish") /\ sent' = [sent EXCEPT ![doing[c]] = @ + 1]
     \/ Goes(c, "tell", "failed") /\ UNCHANGED sent
  /\ UNCHANGED <<work, jobLock, passes, log, moved, bounds>>

\* One message to each person concerned.  When none of them can be told and nothing was handed over the
\* step has failed.
Tell(c) ==
  /\ at[c] = "tell"
  /\ \/ Goes(c, "tell", "finish") /\ sent' = [sent EXCEPT ![doing[c]] = @ + 1]
     \/ Goes(c, "tell", IF moved[doing[c]] > 0 THEN "finish" ELSE "failed") /\ UNCHANGED sent
  /\ UNCHANGED <<work, jobLock, passes, log, moved, bounds>>

\* _finish writes how it went.
Finish(c) ==
  /\ at[c] \in {"finish", "failed"}
  /\ at' = [at EXCEPT ![c] = "plan"]
  /\ log' = [log EXCEPT ![doing[c]] = IF at[c] = "failed" THEN "failed" ELSE "done"]
  /\ doing' = [doing EXCEPT ![c] = None]
  /\ UNCHANGED <<work, jobLock, snap, todo, skip, sent, moved, bounds>>

\* Mutant: a session lock, which nobody lets go.
LeavesLocked(c) ==
  /\ at' = [at EXCEPT ![c] = "idle"]
  /\ todo' = [todo EXCEPT ![c] = {}] /\ skip' = [skip EXCEPT ![c] = {}]
  /\ doing' = [doing EXCEPT ![c] = None]
  /\ snap' = [snap EXCEPT ![c] = None]
  /\ UNCHANGED <<work, jobLock, effects>>

\* The end of the pass; the lock goes with the transaction.
Leaves(c) ==
  /\ at' = [at EXCEPT ![c] = "idle"]
  /\ todo' = [todo EXCEPT ![c] = {}] /\ skip' = [skip EXCEPT ![c] = {}]
  /\ doing' = [doing EXCEPT ![c] = None]
  /\ snap' = [snap EXCEPT ![c] = None]
  /\ jobLock' = IF jobLock = c THEN None ELSE jobLock
  /\ UNCHANGED <<work, effects>>

End(c) ==
  /\ \/ at[c] = "ticket" /\ ticket.status \in {"paused", "closed"}
     \/ at[c] = "plan" /\ todo[c] = {} /\ skip[c] = {}
  /\ Leaves(c)
  /\ UNCHANGED bounds

\* The copy dies, or the pass is cancelled after 50 seconds.
Stop(c) ==
  /\ stops + lost < MaxFaults
  /\ at[c] # "idle"
  /\ Leaves(c)
  /\ stops' = stops + 1
  /\ UNCHANGED <<assigns, lost>>

\* A step raises: the pass goes on with the next one and the row stays as the claim wrote it.
StepFails(c) ==
  /\ at[c] \in {"check", "act", "tell", "finish", "failed"}
  /\ at' = [at EXCEPT ![c] = "plan"]
  /\ doing' = [doing EXCEPT ![c] = None]
  /\ UNCHANGED <<work, jobLock, snap, todo, skip, effects, bounds>>

\* The connection of the lock is lost: Postgres lets the lock go, the pass goes on over others.
LoseLock ==
  /\ stops + lost < MaxFaults
  /\ jobLock # None
  /\ jobLock' = None
  /\ lost' = lost + 1
  /\ UNCHANGED <<work, at, passes, effects, assigns, stops>>

-----------------------------------------------------------------------------
Pass(c) ==
  \/ Start(c) \/ ReadTicket(c) \/ ReadLog(c) \/ Skip(c) \/ Claim(c) \/ Check(c)
  \/ HandOver(c) \/ NoHandOver(c) \/ Tell(c) \/ Finish(c) \/ End(c)

Next ==
  \/ Tick \/ Act \/ Reopen \/ Assign
  \/ \E c \in Copies : Pass(c) \/ Stop(c) \/ StepFails(c)
  \/ LoseLock

Spec == Init /\ [][Next]_vars

\* Every copy's scheduler comes round each minute and every call in a pass has a timeout.
FairSpec == Spec /\ \A c \in Copies : WF_vars(Pass(c))

-----------------------------------------------------------------------------
(* What must hold *)

\* "Each step runs once per ticket and cycle": even when two copies run the job at once and a pass is
\* cut off anywhere, a key's messages are sent once at most, and it hands the ticket over once at most.
OncePerCycle == \A k \in Keys : sent[k] <= 1 /\ moved[k] <= 1

\* The same as the shared abstract specification: the row is the taking, the messages are the work.
Claims == INSTANCE ClaimOnce WITH
            Work <- Keys, taken <- {k \in Keys : log[k] # "none"}, done <- sent
ImplementsClaimOnce == Claims!Spec

\* "Only the furthest runs": as long as the job lock is held, a step of a smaller share never sends
\* its messages after one of a larger share did in the same cycle.
InOrder ==
  [][lost = 0 =>
       \A k, l \in Keys : /\ k[1] \in ShareSteps /\ l[1] \in ShareSteps /\ k[2] = l[2]
                          /\ Share[k[1]] < Share[l[1]]
                          /\ sent[l] > 0 /\ ticket.timed
                          => sent'[k] = sent[k]]_vars

\* A row says "failed" or "skipped" only of a step that told nobody and handed nothing over, whatever
\* another copy or an earlier pass did: the panel never shows less than what happened.
NotUnderstated ==
  \A k \in Keys : log[k] \in {"skipped", "failed"} => sent[k] = 0 /\ moved[k] = 0

\* "If nobody has acted, give it to the backup": at the moment a step with that condition hands the
\* ticket over, the person it is taken from has not acted on it.
TakenFromIdle ==
  [][\A k \in Keys : moved'[k] > moved[k] /\ OnlyIf[k[1]] = "no_action"
                       => ~ActedSince(ticket)]_vars

\* "A step that hands the ticket over still runs", in the quiet hours too: when its share is reached it
\* gets its row, unless the ticket pauses, closes or starts a new cycle.
Due(s, n) ==
  /\ ticket.timed /\ ticket.status \in {"new", "working"} /\ ticket.cycle = n
  /\ ticket.elapsed >= Share[s]

DueIsLogged ==
  \A s \in ShareSteps \cap Reassigning, n \in 0..MaxReopens :
    Due(s, n) ~> (log[<<s, n, 0>>] # "none" \/ ~Due(s, n))
=============================================================================
