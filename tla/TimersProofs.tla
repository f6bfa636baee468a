---------------------------- MODULE TimersProofs ----------------------------
(***************************************************************************)
(* What holds of what the scheduler starts by itself.                      *)
(*                                                                         *)
(* Of the reminder plan of a ticket (ReminderPlans), for any number of     *)
(* copies, people, steps, faults and cycles: one invariant, IInv.          *)
(*                                                                         *)
(* Of flows on a timer (FlowSchedules, as Timed), for any calendar,        *)
(* cadences, flows, copies and admins: the types, and that a slot is run   *)
(* once and lost only with a pass that was cut off, from SchedInv.         *)
(*                                                                         *)
(* Of flows that follow others (FlowChains, as Chained), for any flows,    *)
(* admins and runs: the types and that chains are cut, from ChainInv; that *)
(* a flow has one way to start and follows itself through no others, from  *)
(* StartInv, on top of ChainInv.                                           *)
(***************************************************************************)
EXTENDS Timers, Sequences, FiniteSetTheorems, NaturalsInduction, WellFoundedInduction, TLAPS

-----------------------------------------------------------------------------
(* The reminder plan *)

Firing == {"check", "act", "tell", "finish", "failed"}

\* A copy fires a key from its claim to its _finish, about the ticket it has read; two copies never
\* fire the same one.
OneFires ==
  /\ \A c \in Copies : doing[c] # None <=> at[c] \in Firing
  /\ \A c \in Copies : at[c] \notin {"idle", "ticket"} => snap[c] \in Tickets
  /\ \A c, d \in Copies : doing[c] # None /\ doing[c] = doing[d] => c = d

\* What is done for a key is done by the copy that fires it, in the order of fire, under a row that says
\* "done"; nothing is done for a key without a row.
FiredInOrder ==
  /\ \A c \in Copies : doing[c] # None => log[doing[c]] = "done"
  /\ \A c \in Copies : at[c] \in {"check", "act", "failed"} => moved[doing[c]] = 0
  /\ \A c \in Copies : at[c] \in {"check", "act", "tell", "failed"} => sent[doing[c]] = 0
  /\ \A k \in Keys : log[k] = "none" => sent[k] = 0 /\ moved[k] = 0

IInv == TypeOK /\ OneFires /\ FiredInOrder /\ OncePerCycle /\ NotUnderstated

-----------------------------------------------------------------------------
(* Keys *)

LEMMA PeriodCount ==
  ASSUME NEW t \in Nat, NEW e \in Nat \ {0}, t >= e
  PROVE  t \div e \in 1..t
BY SMTT(30)

\* What is due is a key of the log.
LEMMA ToRunIsKeys ==
  ASSUME NEW t \in Tickets, NEW logged \in SUBSET Keys
  PROVE  ToRun(t, logged) \subseteq Keys /\ ToSkip(t, logged) \subseteq Keys
<1>1. t.cycle \in 0..MaxReopens /\ t.elapsed \in 0..MaxTime /\ t.timed \in BOOLEAN
  BY DEF Tickets
<1>2. \A s \in ShareSteps : <<s, t.cycle, 0>> \in Keys
  BY <1>1 DEF Keys
<1>3. ReachedSteps(t, logged) \subseteq ShareSteps
  BY DEF ReachedSteps
<1>4. ASSUME NEW s \in RepeatSteps, t.elapsed >= Every[s]
      PROVE  <<s, t.cycle, t.elapsed \div Every[s]>> \in Keys
  <2>1. t.elapsed \in Nat /\ Every[s] \in Nat \ {0}
    BY <1>1, BoundsAreNumbers, PeriodsArePositive
  <2>2. t.elapsed \div Every[s] \in 1..t.elapsed
    BY <1>4, <2>1, PeriodCount
  <2>3. t.elapsed \div Every[s] \in 1..MaxTime
    BY <1>1, <2>2, BoundsAreNumbers
  <2>4. QED  BY <1>1, <2>3 DEF Keys
<1>5. Furthest(ReachedSteps(t, logged)) \subseteq ShareSteps
  BY <1>3 DEF Furthest
<1>6. ToRun(t, logged) \subseteq Keys
  BY <1>2, <1>4, <1>5 DEF ToRun
<1>7. QED  BY <1>2, <1>3, <1>6 DEF ToSkip

-----------------------------------------------------------------------------
(* The inductive invariant *)

LEMMA Init_IInv == Init => IInv
<1> SUFFICES ASSUME Init PROVE IInv
  OBVIOUS
<1>1. TypeOK
  BY BoundsAreNumbers DEF Init, TypeOK, Tickets, Statuses
<1>2. OneFires /\ FiredInOrder
  BY DEF Init, OneFires, FiredInOrder, Firing
<1>3. OncePerCycle /\ NotUnderstated
  BY DEF Init, OncePerCycle, NotUnderstated
<1>4. QED  BY <1>1, <1>2, <1>3 DEF IInv

\* A ticket given to somebody is a ticket.
LEMMA GivenIsTicket ==
  ASSUME NEW t \in Tickets, NEW p \in People
  PROVE  Given(t, p) \in Tickets
<1>1. t.since + 1 \in Nat
  BY DEF Tickets
<1>2. CASE p # t.handler
  <2>1. Given(t, p) = [t EXCEPT !.handler = p, !.since = t.since + 1]
    BY <1>2 DEF Given
  <2>2. QED  BY <1>1, <2>1 DEF Tickets
<1>3. QED  BY <1>2 DEF Given

\* People and the clock touch the ticket only.
LEMMA PeopleKeep ==
  ASSUME IInv, Tick \/ Act \/ Reopen \/ Assign
  PROVE  IInv'
<1> USE DEF IInv, TypeOK, work, passes, effects, bounds, Passing
<1>1. ticket' \in Tickets
  <2> USE BoundsAreNumbers DEF Tickets, Statuses
  <2>1. CASE Tick
    <3>1. ticket.elapsed + 1 \in 0..MaxTime
      BY <2>1 DEF Tick
    <3>2. QED  BY <2>1, <3>1 DEF Tick
  <2>2. CASE Act
    <3>1. PICK s \in {ticket.status, "working", "paused", "closed"} : ticket' = [ticket EXCEPT !.status = s]
      BY <2>2 DEF Act
    <3>2. QED  BY <3>1
  <2>3. CASE Reopen
    <3>1. ticket.cycle + 1 \in 0..MaxReopens /\ 0 \in 0..MaxTime
      BY <2>3 DEF Reopen
    <3>2. QED  BY <2>3, <3>1 DEF Reopen
  <2>4. CASE Assign
    BY <2>4, GivenIsTicket DEF Assign
  <2>5. QED  BY <2>1, <2>2, <2>3, <2>4
<1>2. UNCHANGED <<at, passes, effects>>
  BY DEF Tick, Act, Reopen, Assign
<1>3. backups' \subseteq People /\ acted' \in [People -> Nat] /\ UNCHANGED <<jobLock, stops, lost>>
        /\ assigns' \in Nat
  BY DEF Tick, Act, Reopen, Assign, Tickets
<1>4. TypeOK'
  BY <1>1, <1>2, <1>3
<1>5. QED  BY <1>2, <1>4 DEF OneFires, FiredInOrder, OncePerCycle, NotUnderstated

\* Reading, skipping, waiting and ending: no key is fired that was not before.
LEMMA ReadingKeeps ==
  ASSUME IInv, NEW c \in Copies, Start(c) \/ ReadTicket(c) \/ ReadLog(c) \/ Skip(c)
  PROVE  IInv'
<1> USE DEF IInv, TypeOK, work, passes, effects, bounds, Goes
<1>1. CASE Start(c)
  BY <1>1 DEF Start, OneFires, Firing, FiredInOrder, OncePerCycle, NotUnderstated
<1>2. CASE ReadTicket(c)
  BY <1>2 DEF ReadTicket, OneFires, Firing, FiredInOrder, OncePerCycle, NotUnderstated
<1>3. CASE ReadLog(c)
  <2>1. snap[c] \in Tickets
    BY <1>3 DEF ReadLog, OneFires
  <2>2. {k \in Keys : log[k] # "none"} \in SUBSET Keys
    OBVIOUS
  <2>3. todo' \in [Copies -> SUBSET Keys] /\ skip' \in [Copies -> SUBSET Keys]
    BY <1>3, <2>1, <2>2, ToRunIsKeys DEF ReadLog
  <2>4. at' = [at EXCEPT ![c] = "plan"] /\ at[c] = "log"
    BY <1>3 DEF ReadLog
  <2>5. UNCHANGED <<work, jobLock, snap, doing, effects, bounds>>
    BY <1>3 DEF ReadLog
  <2>6. QED  BY <2>1, <2>3, <2>4, <2>5 DEF OneFires, Firing, FiredInOrder, OncePerCycle, NotUnderstated
<1>4. CASE Skip(c)
  BY <1>4 DEF Skip, OneFires, Firing, FiredInOrder, OncePerCycle, NotUnderstated
<1>5. QED  BY <1>1, <1>2, <1>3, <1>4

\* fire begins with a key that had no row, so nobody fires it and nothing was done for it.
LEMMA ClaimKeeps ==
  ASSUME IInv, NEW c \in Copies, Claim(c)
  PROVE  IInv'
<1> USE DEF IInv, TypeOK, work, passes, effects, bounds
<1>1. PICK k \in todo[c] :
        /\ todo' = [todo EXCEPT ![c] = @ \ {k}]
        /\ \/ /\ log[k] = "none"
              /\ log' = [log EXCEPT ![k] = "done"]
              /\ doing' = [doing EXCEPT ![c] = k]
              /\ at' = [at EXCEPT ![c] = "check"]
           \/ log[k] # "none" /\ UNCHANGED <<log, doing, at>>
  BY DEF Claim
<1>2. k \in Keys /\ k # None /\ at[c] = "plan" /\ UNCHANGED <<work, jobLock, snap, skip, sent, moved, bounds>>
  BY NoneIsNoKey DEF Claim
<1>3. CASE log[k] # "none"
  BY <1>1, <1>2, <1>3 DEF OneFires, Firing, FiredInOrder, OncePerCycle, NotUnderstated
<1>4. CASE log[k] = "none"
  <2>1. doing[c] = None /\ \A d \in Copies : doing[d] # k
    BY <1>2, <1>4 DEF OneFires, Firing, FiredInOrder
  <2>2. TypeOK'
    BY <1>1, <1>2, <1>4
  <2>3. OneFires'
    BY <1>1, <1>2, <1>4, <2>1 DEF OneFires, Firing
  <2>4. FiredInOrder'
    BY <1>1, <1>2, <1>4, <2>1 DEF OneFires, Firing, FiredInOrder
  <2>5. OncePerCycle' /\ NotUnderstated'
    BY <1>1, <1>2, <1>4 DEF OncePerCycle, NotUnderstated
  <2>6. QED  BY <2>2, <2>3, <2>4, <2>5
<1>5. QED  BY <1>3, <1>4

LEMMA CheckKeeps ==
  ASSUME IInv, NEW c \in Copies, Check(c)
  PROVE  IInv'
<1> USE DEF IInv, TypeOK, work, passes, effects, bounds, Goes
<1>1. doing[c] \in Keys /\ log[doing[c]] = "done" /\ sent[doing[c]] = 0 /\ moved[doing[c]] = 0
  BY DEF Check, OneFires, Firing, FiredInOrder
<1>2. UNCHANGED <<work, jobLock, snap, todo, skip, sent, moved, bounds>> /\ at[c] = "check"
  BY DEF Check
<1>3. CASE at' = [at EXCEPT ![c] = "act"] /\ UNCHANGED <<log, doing>>
  BY <1>1, <1>2, <1>3 DEF OneFires, Firing, FiredInOrder, OncePerCycle, NotUnderstated
<1>4. CASE /\ at' = [at EXCEPT ![c] = "plan"]
           /\ log' = [log EXCEPT ![doing[c]] = "skipped"]
           /\ doing' = [doing EXCEPT ![c] = None]
  <2>1. TypeOK' /\ OneFires'
    BY <1>1, <1>2, <1>4 DEF OneFires, Firing
  <2>2. \A d \in Copies : doing'[d] # None => doing'[d] # doing[c] /\ doing'[d] = doing[d] /\ d # c
    BY <1>1, <1>2, <1>4, NoneIsNoKey DEF OneFires, Firing
  <2>3. FiredInOrder'
    BY <1>1, <1>2, <1>4, <2>2 DEF OneFires, Firing, FiredInOrder
  <2>4. OncePerCycle' /\ NotUnderstated'
    BY <1>1, <1>2, <1>4 DEF OncePerCycle, NotUnderstated
  <2>5. QED  BY <2>1, <2>3, <2>4
<1>5. QED  BY <1>3, <1>4 DEF Check

\* The hand-over is of the key's only copy, which has not handed anything over before.
LEMMA HandOverKeeps ==
  ASSUME IInv, NEW c \in Copies, HandOver(c) \/ NoHandOver(c)
  PROVE  IInv'
<1> USE DEF IInv, TypeOK, work, passes, effects, bounds, Goes
<1>1. at[c] = "act" /\ at' = [at EXCEPT ![c] = "tell"] /\ UNCHANGED <<jobLock, passes, log, sent, bounds>>
  BY DEF HandOver, NoHandOver
<1>2. doing[c] \in Keys /\ log[doing[c]] = "done" /\ sent[doing[c]] = 0 /\ moved[doing[c]] = 0
  BY <1>1 DEF OneFires, Firing, FiredInOrder
<1>3. moved' \in [Keys -> Nat] /\ moved'[doing[c]] <= 1 /\ \A k \in Keys : k # doing[c] => moved'[k] = moved[k]
  BY <1>2 DEF HandOver, NoHandOver
<1>4. snap[c] \in Tickets
  BY <1>1 DEF OneFires
<1>5. ticket' \in Tickets /\ backups' \subseteq People /\ acted' = acted
  <2>1. CASE HandOver(c)
    <3>1. PICK p \in backups \ {snap[c].handler} : ticket' = Given(ticket, p)
      BY <2>1 DEF HandOver
    <3>2. ticket' \in Tickets
      BY <3>1, GivenIsTicket
    <3>3. QED  BY <1>4, <2>1, <3>2 DEF HandOver, Tickets
  <2>2. QED  BY <2>1 DEF NoHandOver
<1>6. TypeOK' /\ OneFires'
  BY <1>1, <1>3, <1>5 DEF OneFires, Firing
<1>7. \A d \in Copies : d # c /\ at[d] \in Firing => doing[d] # doing[c] /\ doing[d] \in Keys
  BY <1>1, <1>2 DEF OneFires, Firing
<1>8. FiredInOrder'
  BY <1>1, <1>2, <1>3, <1>7 DEF FiredInOrder, Firing
<1>9. OncePerCycle' /\ NotUnderstated'
  BY <1>1, <1>2, <1>3 DEF OncePerCycle, NotUnderstated
<1>10. QED  BY <1>6, <1>8, <1>9

LEMMA TellKeeps ==
  ASSUME IInv, NEW c \in Copies, Tell(c)
  PROVE  IInv'
<1> USE DEF IInv, TypeOK, work, passes, effects, bounds, Goes
<1>0. at[c] = "tell" /\ doing[c] \in Keys /\ moved[doing[c]] \in Nat
  BY DEF Tell, OneFires, Firing
<1>1. /\ at[c] = "tell" /\ UNCHANGED <<work, jobLock, passes, log, moved, bounds>>
      /\ \/ at' = [at EXCEPT ![c] = "finish"]
         \/ at' = [at EXCEPT ![c] = "failed"] /\ moved[doing[c]] = 0 /\ UNCHANGED sent
  BY <1>0 DEF Tell
<1>2. doing[c] \in Keys /\ log[doing[c]] = "done" /\ sent[doing[c]] = 0
  BY <1>1 DEF OneFires, Firing, FiredInOrder
<1>3. sent' \in [Keys -> Nat] /\ sent'[doing[c]] <= 1 /\ \A k \in Keys : k # doing[c] => sent'[k] = sent[k]
  BY <1>2 DEF Tell
<1>4. TypeOK' /\ OneFires'
  BY <1>1, <1>3 DEF OneFires, Firing
<1>5. \A d \in Copies : d # c /\ at[d] \in Firing => doing[d] # doing[c] /\ doing[d] \in Keys
  BY <1>1, <1>2 DEF OneFires, Firing
<1>6. FiredInOrder'
  BY <1>1, <1>2, <1>3, <1>5 DEF FiredInOrder, Firing
<1>7. OncePerCycle' /\ NotUnderstated'
  BY <1>1, <1>2, <1>3 DEF OncePerCycle, NotUnderstated
<1>8. QED  BY <1>4, <1>6, <1>7

\* The row is written "failed" only where nobody was told and nothing was handed over.
LEMMA FinishKeeps ==
  ASSUME IInv, NEW c \in Copies, Finish(c)
  PROVE  IInv'
<1> USE DEF IInv, TypeOK, work, passes, effects, bounds
<1>1. /\ at[c] \in {"finish", "failed"} /\ at' = [at EXCEPT ![c] = "plan"]
      /\ log' = [log EXCEPT ![doing[c]] = IF at[c] = "failed" THEN "failed" ELSE "done"]
      /\ doing' = [doing EXCEPT ![c] = None]
      /\ UNCHANGED <<work, jobLock, snap, todo, skip, sent, moved, bounds>>
  BY DEF Finish
<1>2. doing[c] \in Keys /\ (at[c] = "failed" => sent[doing[c]] = 0 /\ moved[doing[c]] = 0)
  BY <1>1 DEF OneFires, Firing, FiredInOrder
<1>3. TypeOK' /\ OneFires'
  BY <1>1, <1>2 DEF OneFires, Firing
<1>4. \A d \in Copies : doing'[d] # None => doing'[d] # doing[c] /\ doing'[d] = doing[d] /\ d # c
  BY <1>1, <1>2, NoneIsNoKey DEF OneFires, Firing
<1>5. FiredInOrder'
  BY <1>1, <1>2, <1>4 DEF OneFires, Firing, FiredInOrder
<1>6. OncePerCycle' /\ NotUnderstated'
  BY <1>1, <1>2 DEF OncePerCycle, NotUnderstated
<1>7. QED  BY <1>3, <1>5, <1>6

\* A pass that ends, is cut off or gives a step up leaves the rows as they are.
LEMMA EndingKeeps ==
  ASSUME IInv, NEW c \in Copies, End(c) \/ Stop(c) \/ StepFails(c)
  PROVE  IInv'
<1> USE DEF IInv, TypeOK, work, passes, effects, bounds
<1>1. CASE End(c) \/ Stop(c)
  <2>1. Leaves(c) /\ stops' \in Nat /\ UNCHANGED <<assigns, lost>>
    BY <1>1 DEF End, Stop
  <2>2. TypeOK'
    BY <2>1 DEF Leaves
  <2>3. OneFires'
    BY <2>1 DEF Leaves, OneFires, Firing
  <2>4. FiredInOrder'
    BY <2>1 DEF Leaves, FiredInOrder
  <2>5. OncePerCycle' /\ NotUnderstated'
    BY <2>1 DEF Leaves, OncePerCycle, NotUnderstated
  <2>6. QED  BY <2>2, <2>3, <2>4, <2>5
<1>2. CASE StepFails(c)
  BY <1>2 DEF StepFails, OneFires, Firing, FiredInOrder, OncePerCycle, NotUnderstated
<1>3. QED  BY <1>1, <1>2

LEMMA Next_IInv == IInv /\ [Next]_vars => IInv'
<1> SUFFICES ASSUME IInv, [Next]_vars PROVE IInv'
  OBVIOUS
<1>1. CASE UNCHANGED vars
  BY <1>1 DEF vars, work, passes, effects, bounds, IInv, TypeOK, OneFires, FiredInOrder, OncePerCycle, NotUnderstated
<1>2. CASE LoseLock
  BY <1>2 DEF LoseLock, work, passes, effects, bounds, IInv, TypeOK, OneFires, FiredInOrder, OncePerCycle,
         NotUnderstated
<1>3. CASE Tick \/ Act \/ Reopen \/ Assign
  BY <1>3, PeopleKeep
<1>4. ASSUME NEW c \in Copies, Pass(c) \/ Stop(c) \/ StepFails(c) PROVE IInv'
  BY <1>4, ReadingKeeps, ClaimKeeps, CheckKeeps, HandOverKeeps, TellKeeps, FinishKeeps, EndingKeeps DEF Pass
<1>5. QED  BY <1>1, <1>2, <1>3, <1>4 DEF Next

-----------------------------------------------------------------------------
(* The theorems *)

\* The ticket, the rows and what a pass holds in memory are always of their types.
THEOREM TypeCorrect == Spec => []TypeOK
<1>1. IInv => TypeOK  BY DEF IInv
<1>2. QED  BY Init_IInv, Next_IInv, <1>1, PTL DEF Spec

\* A step tells its people at most once in a cycle, and hands the ticket over at most once: for any number
\* of copies that run the job together, and of passes that are cut off anywhere.
THEOREM OncePerCycleHolds == Spec => []OncePerCycle
<1>1. IInv => OncePerCycle  BY DEF IInv
<1>2. QED  BY Init_IInv, Next_IInv, <1>1, PTL DEF Spec

\* A row that says failed or skipped tells the truth: nobody was told and nothing was handed over.
THEOREM NotUnderstatedHolds == Spec => []NotUnderstated
<1>1. IInv => NotUnderstated  BY DEF IInv
<1>2. QED  BY Init_IInv, Next_IInv, <1>1, PTL DEF Spec
-----------------------------------------------------------------------------
(* The detailed specification implements ClaimOnce *)

\* What a step does to the rows and to the messages: either keys get rows and nobody is told, or one key
\* that has its row tells its people for the first time.
Takes ==
  /\ sent' = sent
  /\ \A k \in Keys : log[k] # "none" => log'[k] # "none"

Tells ==
  /\ log' = log
  /\ \E k \in Keys : log[k] # "none" /\ sent[k] = 0 /\ sent' = [sent EXCEPT ![k] = 1]

LEMMA StepTakesOrTells ==
  ASSUME IInv, [Next]_vars
  PROVE  Takes \/ Tells
<1> USE DEF IInv, TypeOK, work, passes, effects, bounds
<1>1. CASE UNCHANGED vars
  BY <1>1 DEF vars, Takes
<1>2. CASE Tick \/ Act \/ Reopen \/ Assign \/ LoseLock
  BY <1>2 DEF Tick, Act, Reopen, Assign, LoseLock, Passing, Takes
<1>3. ASSUME NEW c \in Copies, Start(c) \/ ReadTicket(c) \/ ReadLog(c) \/ NoHandOver(c) \/ HandOver(c)
      PROVE  Takes
  BY <1>3 DEF Start, ReadTicket, ReadLog, NoHandOver, HandOver, Takes
<1>4. ASSUME NEW c \in Copies, End(c) \/ Stop(c) \/ StepFails(c) PROVE Takes
  BY <1>4 DEF End, Stop, StepFails, Leaves, Takes
<1>5. ASSUME NEW c \in Copies, Skip(c) \/ Claim(c) PROVE Takes
  BY <1>5 DEF Skip, Claim, Takes
<1>6. ASSUME NEW c \in Copies, Check(c) \/ Finish(c) PROVE Takes
  BY <1>6 DEF Check, Finish, Takes
<1>7. ASSUME NEW c \in Copies, Tell(c) PROVE Takes \/ Tells
  <2>1. doing[c] \in Keys /\ log[doing[c]] = "done" /\ sent[doing[c]] = 0 /\ log' = log
    BY <1>7 DEF Tell, OneFires, Firing, FiredInOrder
  <2>2. CASE sent' = [sent EXCEPT ![doing[c]] = @ + 1]
    <3>1. sent' = [sent EXCEPT ![doing[c]] = 1]
      BY <2>1, <2>2
    <3>2. QED  BY <2>1, <3>1 DEF Tells
  <2>3. CASE UNCHANGED sent
    BY <2>1, <2>3 DEF Takes
  <2>4. QED  BY <1>7, <2>2, <2>3 DEF Tell
<1>8. QED  BY <1>1, <1>2, <1>3, <1>4, <1>5, <1>6, <1>7 DEF Next, Pass

\* The plan implements the abstract promise: a key is taken by its row before its people are told, and
\* they are told once at most.
THEOREM ImplementsClaimOnceHolds == Spec => ImplementsClaimOnce
<1>1. Init => Claims!Init
  BY DEF Init, Claims!Init
<1>2. IInv /\ [Next]_vars => [Claims!Next]_(Claims!vars)
  <2> SUFFICES ASSUME IInv, [Next]_vars PROVE [Claims!Next]_(Claims!vars)
    OBVIOUS
  <2> DEFINE Logged == {k \in Keys : log[k] # "none"}
  <2>1. CASE Takes
    <3> DEFINE New == Logged' \ Logged
    <3>1. New \in SUBSET Keys /\ New \cap Logged = {} /\ Logged' = Logged \cup New
      BY <2>1 DEF Takes
    <3>2. sent' = sent
      BY <2>1 DEF Takes
    <3>3. \E S \in SUBSET Keys : S \cap Logged = {} /\ Logged' = Logged \cup S /\ UNCHANGED sent
      <4> HIDE DEF Logged
      <4> QED  BY <3>1, <3>2
    <3>4. QED  BY <3>3 DEF Claims!Next, Claims!Take
  <2>2. CASE Tells
    <3>1. PICK k \in Keys : log[k] # "none" /\ sent[k] = 0 /\ sent' = [sent EXCEPT ![k] = 1]
      BY <2>2 DEF Tells
    <3>2. Claims!Do(k)
      BY <2>2, <3>1 DEF Tells, Claims!Do
    <3>3. QED  BY <3>2 DEF Claims!Next
  <2>3. QED  BY <2>1, <2>2, StepTakesOrTells
<1>3. QED  BY <1>1, <1>2, Init_IInv, Next_IInv, PTL DEF Spec, ImplementsClaimOnce, Claims!Spec
-----------------------------------------------------------------------------
(* Only the furthest runs *)

\* Of two share steps of one cycle, the one that comes first.
Before(k, l) ==
  /\ k[1] \in ShareSteps /\ l[1] \in ShareSteps /\ k[2] = l[2]
  /\ Share[k[1]] < Share[l[1]]

\* As long as no job lock was lost, one copy at most is in a pass.
OneInPass == lost = 0 => \A c \in Copies : at[c] # "idle" => jobLock = c

\* Nothing gives a ticket a time limit or takes it away.
SameLimit == \A c \in Copies : at[c] \notin {"idle", "ticket"} => snap[c].timed = ticket.timed

\* A pass over a ticket with a time limit runs share steps only, and those before them have a row or get
\* one first.
PassedFirst ==
  lost = 0 /\ ticket.timed =>
    \A c \in Copies :
      /\ \A l \in todo[c] :
           /\ l[3] = 0
           /\ \A k \in Keys : k[3] = 0 /\ Before(k, l) => log[k] # "none" \/ k \in skip[c]
      /\ doing[c] # None => doing[c][3] = 0

\* Once a step is fired, those before it have a row and nobody fires them.
NeverAfter ==
  lost = 0 /\ ticket.timed =>
    \A k, l \in Keys :
      /\ k[3] = 0 /\ Before(k, l)
      /\ sent[l] > 0 \/ \E c \in Copies : doing[c] = l
      => log[k] # "none" /\ \A c \in Copies : doing[c] # k

Ordered == OneInPass /\ SameLimit /\ PassedFirst /\ NeverAfter

LEMMA Init_Ordered == Init => Ordered
BY NoneIsNoKey DEF Init, Ordered, OneInPass, SameLimit, PassedFirst, NeverAfter

\* What comes before the furthest step that is due has a row, or is due as well and is skipped.
LEMMA DueInOrder ==
  ASSUME NEW t \in Tickets, t.timed, NEW logged \in SUBSET Keys, NEW l \in ToRun(t, logged)
  PROVE  /\ l[3] = 0
         /\ \A k \in Keys : k[3] = 0 /\ Before(k, l) => k \in logged \cup ToSkip(t, logged)
<1>1. PICK s \in Furthest(ReachedSteps(t, logged)) : l = <<s, t.cycle, 0>>
  BY DEF ToRun
<1>2. s \in ShareSteps /\ t.elapsed >= Share[s] /\ t.elapsed \in Nat
  BY BoundsAreNumbers, <1>1 DEF Furthest, ReachedSteps, Tickets
<1>3. ASSUME NEW k \in Keys, k[3] = 0, Before(k, l) PROVE k \in logged \cup ToSkip(t, logged)
  <2>1. k = <<k[1], t.cycle, 0>> /\ k[1] \in ShareSteps /\ Share[k[1]] < Share[s]
    BY <1>1, <1>3 DEF Before, Keys
  <2>2. t.elapsed >= Share[k[1]]
    BY <1>2, <2>1, SharesAreNumbers
  <2>3. k[1] \notin Furthest(ReachedSteps(t, logged))
    BY <1>1, <1>2, <2>1, SharesAreNumbers DEF Furthest
  <2>4. CASE k \notin logged
    <3>1. k[1] \in ReachedSteps(t, logged)
      BY <2>1, <2>2, <2>4 DEF ReachedSteps
    <3>2. k \notin ToRun(t, logged)
      BY <2>1, <2>3 DEF ToRun
    <3>3. QED  BY <2>1, <3>1, <3>2 DEF ToSkip
  <2>5. QED  BY <2>4
<1>4. QED  BY <1>1, <1>3

\* A step that keeps the limit of the ticket and every lost lock, forgets no row and fires nothing new.
LEMMA OrderedApart ==
  ASSUME Ordered, lost' = lost \/ lost' # 0, ticket'.timed = ticket.timed,
         \A k \in Keys : log[k] # "none" => log'[k] # "none",
         \A k \in Keys : sent'[k] > 0 => sent[k] > 0 \/ \E c \in Copies : doing[c] = k,
         \A c \in Copies : doing'[c] \in {doing[c], None},
         \A c \in Copies :
           \/ todo'[c] = {}
           \/ todo'[c] \subseteq todo[c] /\ \A k \in skip[c] \ skip'[c] : log'[k] # "none",
         OneInPass', SameLimit'
  PROVE  Ordered'
<1>1. SUFFICES ASSUME lost = 0, lost' = 0, ticket.timed, ticket'.timed PROVE PassedFirst' /\ NeverAfter'
  BY DEF Ordered, PassedFirst, NeverAfter
<1>2. PassedFirst'
  <2> SUFFICES ASSUME NEW c \in Copies
               PROVE  /\ \A l \in todo'[c] :
                           /\ l[3] = 0
                           /\ \A k \in Keys : k[3] = 0 /\ Before(k, l) => log'[k] # "none" \/ k \in skip'[c]
                      /\ doing'[c] # None => doing'[c][3] = 0
    BY DEF PassedFirst, Before
  <2>1. doing'[c] # None => doing'[c][3] = 0
    BY <1>1 DEF Ordered, PassedFirst
  <2>2. ASSUME NEW l \in todo'[c] PROVE l \in todo[c] /\ \A k \in skip[c] \ skip'[c] : log'[k] # "none"
    BY <2>2
  <2>3. QED  BY <1>1, <2>1, <2>2 DEF Ordered, PassedFirst
<1>3. NeverAfter'
  <2> SUFFICES ASSUME NEW k \in Keys, NEW l \in Keys, k[3] = 0, Before(k, l),
                      sent'[l] > 0 \/ \E c \in Copies : doing'[c] = l
               PROVE  log'[k] # "none" /\ \A c \in Copies : doing'[c] # k
    BY DEF NeverAfter, Before
  <2>1. sent[l] > 0 \/ \E c \in Copies : doing[c] = l
    BY NoneIsNoKey
  <2>2. log[k] # "none" /\ \A c \in Copies : doing[c] # k
    BY <1>1, <2>1 DEF Ordered, NeverAfter
  <2>3. QED  BY <2>2, NoneIsNoKey
<1>4. QED  BY <1>2, <1>3

LEMMA PeopleOrdered ==
  ASSUME IInv, Ordered, Tick \/ Act \/ Reopen \/ Assign
  PROVE  Ordered'
<1> USE DEF work, passes, effects, bounds, Passing
<1>1. ticket'.timed = ticket.timed
  <2>1. ticket \in Tickets
    BY DEF IInv, TypeOK
  <2>2. CASE Tick \/ Act \/ Reopen
    BY <2>1, <2>2 DEF Tick, Act, Reopen, Tickets
  <2>3. CASE Assign
    BY <2>1, <2>3 DEF Assign, Given, Tickets
  <2>4. QED  BY <2>2, <2>3
<1>2. UNCHANGED <<jobLock, at, passes, effects, lost>>
  BY DEF Tick, Act, Reopen, Assign
<1>3. OneInPass' /\ SameLimit'
  BY <1>1, <1>2 DEF Ordered, OneInPass, SameLimit
<1>4. QED  BY <1>1, <1>2, <1>3, OrderedApart

\* The pass begins, and reads the ticket.
LEMMA BeginningOrdered ==
  ASSUME IInv, Ordered, NEW c \in Copies, Start(c) \/ ReadTicket(c)
  PROVE  Ordered'
<1> USE DEF work, passes, effects, bounds, Goes
<1>0. at \in [Copies -> {"idle", "ticket", "log", "plan", "check", "act", "tell", "finish", "failed"}]
      /\ snap \in [Copies -> Tickets \cup {None}]
  BY DEF IInv, TypeOK
<1>1. UNCHANGED <<ticket, log, sent, doing, todo, skip, lost>>
  BY DEF Start, ReadTicket
<1>2. OneInPass'
  <2>1. CASE Start(c)
    BY <1>0, <2>1, NoneIsApart DEF Start, Ordered, OneInPass
  <2>2. CASE ReadTicket(c)
    BY <1>0, <2>2 DEF ReadTicket, Ordered, OneInPass
  <2>3. QED  BY <2>1, <2>2
<1>3. SameLimit'
  BY <1>0 DEF Start, ReadTicket, Ordered, SameLimit
<1>4. QED  BY <1>1, <1>2, <1>3, OrderedApart

\* What is due is read: in order.
LEMMA ReadLogOrdered ==
  ASSUME IInv, Ordered, NEW c \in Copies, ReadLog(c)
  PROVE  Ordered'
<1> USE DEF work, passes, effects, bounds, Goes
<1>1. /\ at[c] = "log" /\ at' = [at EXCEPT ![c] = "plan"]
      /\ UNCHANGED <<ticket, jobLock, snap, doing, log, sent, lost>>
  BY DEF ReadLog
<1>2. snap[c] \in Tickets /\ snap[c].timed = ticket.timed
  BY <1>1 DEF IInv, OneFires, Ordered, SameLimit
<1>3. PICK logged : logged = {k \in Keys : log[k] # "none"}
  OBVIOUS
<1>4. /\ todo'[c] \subseteq ToRun(snap[c], logged) /\ skip'[c] = ToSkip(snap[c], logged)
      /\ \A d \in Copies : d # c => todo'[d] = todo[d] /\ skip'[d] = skip[d]
  <2>1. todo \in [Copies -> SUBSET Keys] /\ skip \in [Copies -> SUBSET Keys]
    BY DEF IInv, TypeOK
  <2>2. QED  BY <1>3, <2>1 DEF ReadLog
<1>5. OneInPass' /\ SameLimit'
  <2>1. at \in [Copies -> {"idle", "ticket", "log", "plan", "check", "act", "tell", "finish", "failed"}]
    BY DEF IInv, TypeOK
  <2>2. QED  BY <1>1, <2>1 DEF Ordered, OneInPass, SameLimit
<1>6. NeverAfter'
  BY <1>1 DEF Ordered, NeverAfter, Before
<1>7. PassedFirst'
  <2> SUFFICES ASSUME lost = 0, ticket.timed, NEW d \in Copies
               PROVE  /\ \A l \in todo'[d] :
                           /\ l[3] = 0
                           /\ \A k \in Keys : k[3] = 0 /\ Before(k, l) => log[k] # "none" \/ k \in skip'[d]
                      /\ doing[d] # None => doing[d][3] = 0
    BY <1>1 DEF PassedFirst, Before
  <2>1. CASE d = c
    <3>1. logged \in SUBSET Keys /\ \A k \in logged : log[k] # "none"
      BY <1>3
    <3>2. doing[d] # None => doing[d][3] = 0
      BY DEF Ordered, PassedFirst
    <3>3. \A l \in todo'[d] : /\ l[3] = 0
                              /\ \A k \in Keys : k[3] = 0 /\ Before(k, l) => k \in logged \cup skip'[d]
      BY <1>2, <1>4, <2>1, <3>1, DueInOrder
    <3>4. QED  BY <3>1, <3>2, <3>3
  <2>2. CASE d # c
    BY <1>4, <2>2 DEF Ordered, PassedFirst
  <2>3. QED  BY <2>1, <2>2
<1>8. QED  BY <1>5, <1>6, <1>7 DEF Ordered

\* A step is fired once those before it have their rows.
LEMMA ClaimOrdered ==
  ASSUME IInv, Ordered, NEW c \in Copies, Claim(c)
  PROVE  Ordered'
<1> USE DEF work, passes, effects, bounds
<1>0. TypeOK /\ OneFires
  BY DEF IInv
<1>1. PICK l \in todo[c] :
        /\ todo' = [todo EXCEPT ![c] = @ \ {l}]
        /\ \/ /\ log[l] = "none"
              /\ log' = [log EXCEPT ![l] = "done"]
              /\ doing' = [doing EXCEPT ![c] = l]
              /\ at' = [at EXCEPT ![c] = "check"]
           \/ log[l] # "none" /\ UNCHANGED <<log, doing, at>>
  BY DEF Claim
<1>2. at[c] = "plan" /\ skip[c] = {} /\ UNCHANGED <<ticket, jobLock, snap, skip, sent, lost>>
  BY DEF Claim
<1>3. l \in Keys /\ l # None
  BY <1>0, <1>1, NoneIsNoKey DEF TypeOK
<1>4. OneInPass' /\ SameLimit'
  BY <1>0, <1>1, <1>2 DEF TypeOK, Ordered, OneInPass, SameLimit
<1>5. CASE log[l] # "none"
  BY <1>0, <1>1, <1>2, <1>4, <1>5, OrderedApart DEF TypeOK
<1>6. CASE log[l] = "none"
  <2> SUFFICES ASSUME lost = 0, lost' = 0, ticket.timed, ticket'.timed PROVE PassedFirst' /\ NeverAfter'
    BY <1>2, <1>4 DEF Ordered, PassedFirst, NeverAfter
  <2>1. \A d \in Copies : doing[d] = None
    BY <1>0, <1>2 DEF Ordered, OneInPass, OneFires, Firing
  <2>2. log' = [log EXCEPT ![l] = "done"] /\ doing' = [doing EXCEPT ![c] = l] /\ sent' = sent /\ skip' = skip
    BY <1>1, <1>2, <1>6
  <2>3. log \in [Keys -> {"none", "done", "skipped", "failed"}] /\ doing \in [Copies -> Keys \cup {None}]
        /\ todo \in [Copies -> SUBSET Keys]
    BY <1>0 DEF TypeOK
  <2>4. l[3] = 0 /\ \A k \in Keys : k[3] = 0 /\ Before(k, l) => log[k] # "none"
    BY <1>1, <1>2 DEF Ordered, PassedFirst
  <2>5. \A k \in Keys : log[k] # "none" => log'[k] # "none"
    BY <2>2, <2>3
  <2>6. \A d \in Copies : todo'[d] \subseteq todo[d]
    BY <1>1, <2>3
  <2>7. PassedFirst'
    <3> SUFFICES ASSUME NEW d \in Copies
                 PROVE  /\ \A x \in todo'[d] :
                             /\ x[3] = 0
                             /\ \A k \in Keys : k[3] = 0 /\ Before(k, x) => log'[k] # "none" \/ k \in skip'[d]
                        /\ doing'[d] # None => doing'[d][3] = 0
      BY DEF PassedFirst, Before
    <3>1. doing'[d] # None => doing'[d][3] = 0
      BY <2>1, <2>2, <2>3, <2>4
    <3>2. QED  BY <2>2, <2>5, <2>6, <3>1 DEF Ordered, PassedFirst
  <2>8. NeverAfter'
    <3> SUFFICES ASSUME NEW k \in Keys, NEW x \in Keys, k[3] = 0, Before(k, x),
                        sent[x] > 0 \/ \E d \in Copies : doing'[d] = x
                 PROVE  log'[k] # "none" /\ \A d \in Copies : doing'[d] # k
      BY <2>2 DEF NeverAfter, Before
    <3>1. k # l /\ log[k] # "none"
      <4>1. CASE sent[x] > 0
        BY <1>6, <4>1 DEF Ordered, NeverAfter
      <4>2. CASE \E d \in Copies : doing'[d] = x
        <5>1. x = l
          BY <2>1, <2>2, <2>3, <4>2, NoneIsNoKey
        <5>2. QED  BY <1>6, <2>4, <5>1
      <4>3. QED  BY <4>1, <4>2
    <3>2. QED  BY <2>1, <2>2, <2>3, <2>5, <3>1, NoneIsNoKey
  <2>9. QED  BY <2>7, <2>8
<1>7. QED  BY <1>5, <1>6

\* The other steps of a pass fire nothing new and forget no row.
LEMMA FiringOrdered ==
  ASSUME IInv, Ordered, NEW c \in Copies,
         \/ Skip(c) \/ Check(c) \/ HandOver(c) \/ NoHandOver(c) \/ Tell(c) \/ Finish(c)
         \/ End(c) \/ Stop(c) \/ StepFails(c)
  PROVE  Ordered'
<1> USE DEF work, passes, effects, bounds, Goes
<1>0. TypeOK /\ OneFires
  BY DEF IInv
<1>1. ticket'.timed = ticket.timed
  <2>1. ticket \in Tickets
    BY <1>0 DEF TypeOK
  <2>2. \A p \in People : Given(ticket, p).timed = ticket.timed
    BY <2>1 DEF Given, Tickets
  <2>3. CASE HandOver(c)
    BY <1>0, <2>2, <2>3 DEF HandOver, TypeOK
  <2>4. CASE ~HandOver(c)
    BY <2>4 DEF Skip, Check, NoHandOver, Tell, Finish, End, Stop, StepFails, Leaves
  <2>5. QED  BY <2>3, <2>4
<1>2. CASE Skip(c)
  BY <1>0, <1>1, <1>2, OrderedApart DEF Skip, TypeOK, Ordered, OneInPass, SameLimit
<1>3. CASE Check(c)
  <2>1. doing[c] \in Keys
    BY <1>0, <1>3 DEF Check, TypeOK, OneFires, Firing
  <2>2. at' \in [Copies -> {"idle", "ticket", "log", "plan", "check", "act", "tell", "finish", "failed"}]
        /\ (\A d \in Copies : at'[d] = "idle" <=> at[d] = "idle")
        /\ (\A d \in Copies : at'[d] = "ticket" <=> at[d] = "ticket")
    BY <1>0, <1>3 DEF Check, TypeOK
  <2>3. OneInPass' /\ SameLimit'
    BY <1>1, <1>3, <2>2 DEF Check, Ordered, OneInPass, SameLimit
  <2>4. QED  BY <1>0, <1>1, <1>3, <2>1, <2>3, OrderedApart DEF Check, TypeOK
<1>4. CASE HandOver(c) \/ NoHandOver(c)
  <2>1. OneInPass' /\ SameLimit'
    BY <1>0, <1>1, <1>4 DEF HandOver, NoHandOver, TypeOK, Ordered, OneInPass, SameLimit
  <2>2. QED  BY <1>0, <1>1, <1>4, <2>1, OrderedApart DEF HandOver, NoHandOver
<1>5. CASE Tell(c)
  <2>1. doing[c] \in Keys
    BY <1>0, <1>5 DEF Tell, TypeOK, OneFires, Firing
  <2>2. OneInPass' /\ SameLimit'
    BY <1>0, <1>1, <1>5 DEF Tell, TypeOK, Ordered, OneInPass, SameLimit
  <2>3. \A k \in Keys : sent'[k] > 0 => sent[k] > 0 \/ \E d \in Copies : doing[d] = k
    BY <1>0, <1>5, <2>1 DEF Tell, TypeOK
  <2>4. QED  BY <1>1, <1>5, <2>2, <2>3, OrderedApart DEF Tell
<1>6. CASE Finish(c)
  <2>1. doing[c] \in Keys
    BY <1>0, <1>6 DEF Finish, TypeOK, OneFires, Firing
  <2>2. OneInPass' /\ SameLimit'
    BY <1>0, <1>1, <1>6 DEF Finish, TypeOK, Ordered, OneInPass, SameLimit
  <2>3. QED  BY <1>0, <1>1, <1>6, <2>1, <2>2, OrderedApart DEF Finish, TypeOK
<1>7. CASE End(c) \/ Stop(c)
  <2>1. Leaves(c) /\ lost' = lost
    BY <1>7 DEF End, Stop
  <2>2. OneInPass' /\ SameLimit'
    BY <1>0, <1>1, <2>1 DEF Leaves, TypeOK, Ordered, OneInPass, SameLimit
  <2>3. QED  BY <1>0, <1>1, <2>1, <2>2, OrderedApart DEF Leaves, TypeOK
<1>8. CASE StepFails(c)
  <2>1. OneInPass' /\ SameLimit'
    BY <1>0, <1>1, <1>8 DEF StepFails, TypeOK, Ordered, OneInPass, SameLimit
  <2>2. QED  BY <1>0, <1>1, <1>8, <2>1, OrderedApart DEF StepFails, TypeOK
<1>9. QED  BY <1>2, <1>3, <1>4, <1>5, <1>6, <1>7, <1>8

LEMMA Next_Ordered == IInv /\ Ordered /\ [Next]_vars => Ordered'
<1> SUFFICES ASSUME IInv, Ordered, [Next]_vars PROVE Ordered'
  OBVIOUS
<1>1. CASE UNCHANGED vars
  BY <1>1, OrderedApart
     DEF vars, work, passes, effects, bounds, Ordered, OneInPass, SameLimit
<1>2. CASE LoseLock
  <2>1. lost' # 0
    BY <1>2 DEF LoseLock, IInv, TypeOK
  <2>2. QED
    BY <1>2, <2>1, OrderedApart DEF LoseLock, work, passes, effects, Ordered, OneInPass, SameLimit
<1>3. CASE Tick \/ Act \/ Reopen \/ Assign
  BY <1>3, PeopleOrdered
<1>4. ASSUME NEW c \in Copies, Pass(c) \/ Stop(c) \/ StepFails(c) PROVE Ordered'
  BY <1>4, BeginningOrdered, ReadLogOrdered, ClaimOrdered, FiringOrdered DEF Pass
<1>5. QED  BY <1>1, <1>2, <1>3, <1>4 DEF Next

\* Messages go out for the key that is being fired, and only then.
LEMMA OnlyFiredTells ==
  ASSUME IInv, [Next]_vars, NEW k \in Keys, sent'[k] # sent[k]
  PROVE  \E c \in Copies : doing[c] = k
<1> USE DEF work, passes, effects, bounds, Passing
<1>1. PICK c \in Copies : Tell(c)
  BY DEF vars, Next, Tick, Act, Reopen, Assign, LoseLock, Pass, Start, ReadTicket, ReadLog, Skip, Claim, Check,
         HandOver, NoHandOver, Finish, End, Stop, StepFails, Leaves
<1>2. QED  BY <1>1 DEF Tell, IInv, TypeOK

\* "Only the furthest runs": as long as no job lock was lost, a step of a smaller share never sends its
\* messages after one of a larger share did in the same cycle.
THEOREM InOrderHolds == Spec => InOrder
<1>1. IInv /\ Ordered /\ [Next]_vars
      => [lost = 0 =>
           \A k, l \in Keys : /\ k[1] \in ShareSteps /\ l[1] \in ShareSteps /\ k[2] = l[2]
                              /\ Share[k[1]] < Share[l[1]]
                              /\ sent[l] > 0 /\ ticket.timed
                              => sent'[k] = sent[k]]_vars
  <2> SUFFICES ASSUME IInv, Ordered, [Next]_vars, lost = 0, ticket.timed,
                      NEW k \in Keys, NEW l \in Keys, Before(k, l), sent[l] > 0
               PROVE  sent'[k] = sent[k]
    BY DEF Before
  <2>1. SUFFICES ASSUME NEW c \in Copies, doing[c] = k PROVE FALSE
    BY OnlyFiredTells
  <2>2. k[3] = 0
    BY <2>1, NoneIsNoKey DEF Ordered, PassedFirst
  <2>3. QED  BY <2>1, <2>2 DEF Ordered, NeverAfter
<1>2. QED  BY <1>1, Init_IInv, Next_IInv, Init_Ordered, Next_Ordered, PTL DEF Spec, InOrder

-----------------------------------------------------------------------------
(* Numbers *)

\* A set of numbers has a least one.
LEMMA LeastNumber ==
  ASSUME NEW T \in SUBSET Nat, T # {}
  PROVE  \E x \in T : \A y \in T : x <= y
<1>1. IsWellFoundedOn(OpToRel(<, Nat), Nat)
  BY NatLessThanWellFounded
<1>2. PICK x \in T : \A y \in T : ~(<<y, x>> \in OpToRel(<, Nat))
  BY <1>1, WFMin
<1>3. \A y \in T : ~(y < x)
  BY <1>2 DEF OpToRel
<1>4. \A y \in T : y \in Nat
  OBVIOUS
<1>5. QED  BY <1>3, <1>4

\* A set of numbers with a bound has a greatest one.
LEMMA GreatestNumber ==
  ASSUME NEW T \in SUBSET Nat, T # {}, NEW b \in Nat, \A x \in T : x <= b
  PROVE  \E x \in T : \A y \in T : y <= x
<1> DEFINE U == {b - x : x \in T}
<1>1. U \in SUBSET Nat /\ U # {}
  <2>1. \A x \in T : b - x \in Nat
    OBVIOUS
  <2>2. PICK x \in T : TRUE
    OBVIOUS
  <2> QED BY <2>1, <2>2
<1>2. PICK m \in U : \A n \in U : m <= n
  <2> HIDE DEF U
  <2> QED BY <1>1, LeastNumber
<1>3. PICK x \in T : m = b - x
  BY <1>2
<1>4. \A y \in T : y \in Nat /\ m <= b - y
  BY <1>2
<1> QED BY <1>3, <1>4

-----------------------------------------------------------------------------
(* When a schedule runs next *)

LEMMA LeastDay ==
  ASSUME NEW T \in SUBSET Nat, T # {}
  PROVE  Timed!Min(T) \in T /\ \A y \in T : Timed!Min(T) <= y
<1>1. PICK x \in T : \A y \in T : x <= y
  BY LeastNumber
<1> QED BY <1>1 DEF Timed!Min

LEMMA DaysAreNumbers == Timed!Days \subseteq Nat
BY DEF Timed!Days

LEMMA NextWorkDayComes ==
  ASSUME NEW set, NEW d \in Nat
  PROVE  /\ Timed!NextWorkDay(set, d) \in d..(d + 14)
         /\ Timed!IsWork(set, Timed!NextWorkDay(set, d)) \/ Timed!NextWorkDay(set, d) = d + 14
         /\ \A w \in d..(d + 14) : Timed!IsWork(set, w) => Timed!NextWorkDay(set, d) <= w
<1> DEFINE T == {w \in d..(d + 14) : Timed!IsWork(set, w) \/ w = d + 14}
<1>1. T \in SUBSET Nat /\ d + 14 \in T
  OBVIOUS
<1>2. Timed!Min(T) \in T /\ \A y \in T : Timed!Min(T) <= y
  <2> HIDE DEF T
  <2> QED BY <1>1, LeastDay
<1>3. Timed!NextWorkDay(set, d) = Timed!Min(T)
  BY DEF Timed!NextWorkDay
<1> QED BY <1>2, <1>3

\* The later of two days is not moved to an earlier one.
LEMMA MovedInOrder ==
  ASSUME NEW set, NEW d \in Nat, NEW e \in Nat, d <= e
  PROVE  Timed!NextWorkDay(set, d) <= Timed!NextWorkDay(set, e)
<1>1. PICK m : m = Timed!NextWorkDay(set, d)
  OBVIOUS
<1>2. PICK n : n = Timed!NextWorkDay(set, e)
  OBVIOUS
<1>3. /\ m \in d..(d + 14) /\ (Timed!IsWork(set, m) \/ m = d + 14) /\ \A w \in d..(d + 14) : Timed!IsWork(set,
        w) => m <= w
  BY <1>1, NextWorkDayComes
<1>4. n \in e..(e + 14) /\ (Timed!IsWork(set, n) \/ n = e + 14)
  BY <1>2, NextWorkDayComes
<1>5. m \in Nat /\ n \in Nat /\ n >= d /\ m <= d + 14
  BY <1>3, <1>4
<1>6. CASE n <= d + 14 /\ Timed!IsWork(set, n)
  BY <1>1, <1>2, <1>3, <1>5, <1>6
<1>7. CASE ~(n <= d + 14 /\ Timed!IsWork(set, n))
  BY <1>1, <1>2, <1>3, <1>4, <1>5, <1>7
<1> QED BY <1>6, <1>7

\* The day a cadence's day is moved to.
DayFor(c, set, d) == IF c.workingOnly /\ c.every = "month" THEN Timed!NextWorkDay(set, d) ELSE d

LEMMA MomentIs ==
  ASSUME NEW c \in Cadences, NEW set \in Settings, NEW d \in Timed!Days
  PROVE  Timed!MomentOf(c, set, d) = PerDay * DayFor(c, set, d) + c.time
BY DEF Timed!MomentOf, Timed!MomentTable, DayFor

LEMMA MomentTyped ==
  ASSUME Timed!Given, NEW c \in Cadences, NEW set \in Settings, NEW d \in Timed!Days
  PROVE  DayFor(c, set, d) \in Nat /\ Timed!MomentOf(c, set, d) \in Nat /\ d \in Nat
<1>1. d \in Nat
  BY DaysAreNumbers
<1>2. DayFor(c, set, d) \in Nat
  BY <1>1, NextWorkDayComes DEF DayFor
<1>3. PerDay \in Nat \ {0} /\ c.time \in 0..(PerDay - 1)
  BY DEF Timed!Given
<1>4. PerDay * DayFor(c, set, d) \in Nat
  BY <1>2, <1>3
<1> QED BY <1>1, <1>2, <1>3, <1>4, MomentIs

LEMMA MomentsInOrder ==
  ASSUME Timed!Given, NEW c \in Cadences, NEW set \in Settings, NEW d \in Timed!Days, NEW e \in Timed!Days, d <= e
  PROVE  Timed!MomentOf(c, set, d) <= Timed!MomentOf(c, set, e)
<1>1. d \in Nat /\ e \in Nat
  BY DaysAreNumbers
<1>2. DayFor(c, set, d) <= DayFor(c, set, e)
  BY <1>1, MovedInOrder DEF DayFor
<1>3. PICK x, y : x = DayFor(c, set, d) /\ y = DayFor(c, set, e)
  OBVIOUS
<1>4. x \in Nat /\ y \in Nat /\ x <= y
  BY <1>2, <1>3, MomentTyped
<1>5. PerDay \in Nat \ {0} /\ c.time \in 0..(PerDay - 1)
  BY DEF Timed!Given
<1>6. PerDay * x <= PerDay * y
  <2>1. PICK z \in Nat : y = x + z
    BY <1>4
  <2>2. PerDay * y = PerDay * x + PerDay * z /\ PerDay * z \in Nat /\ PerDay * x \in Nat
    BY <1>4, <1>5, <2>1
  <2> QED BY <2>2
<1>7. PerDay * x \in Nat /\ PerDay * y \in Nat
  BY <1>4, <1>5
<1> QED BY <1>3, <1>5, <1>6, <1>7, MomentIs

\* A day that is over has no moment later than t, but for one that was moved.
LEMMA DayIsOver ==
  ASSUME Timed!Given, NEW t \in Nat, NEW d \in Nat, d < Timed!DayOf(t), NEW time \in 0..(PerDay - 1)
  PROVE  PerDay * d + time < t
<1>1. PICK n : n = t \div PerDay
  OBVIOUS
<1>2. PerDay \in Nat \ {0}
  BY DEF Timed!Given
<1>3. n \in Nat /\ PerDay * n <= t
  BY <1>1, <1>2, Z3
<1>4. PICK z \in Nat : n = d + 1 + z
  BY <1>1, <1>3 DEF Timed!DayOf
<1>5. PerDay * n = PerDay * d + PerDay + PerDay * z /\ PerDay * z \in Nat /\ PerDay * d \in Nat
  BY <1>2, <1>3, <1>4
<1> QED BY <1>2, <1>3, <1>5

Fits(next, h) ==
  /\ next \in Nat /\ next > h.now
  /\ next \in Timed!Moments(h)
  /\ \A d \in Timed!LaterDays(h) : Timed!MomentOf(h.cadence, h.set, d) < next => h.cadence.every = "month"
         /\ d < Timed!DayOf(h.now)

LEMMA NextRunFits ==
  ASSUME Timed!Given, NEW c \in Cadences, NEW set \in Settings, NEW t \in 0..MaxClock, Timed!NextRun(c, set, t) # None
  PROVE  Fits(Timed!NextRun(c, set, t), [cadence |-> c, set |-> set, now |-> t])
<1> DEFINE fit == {d \in Timed!Days : d >= Timed!DayOf(t) /\ Timed!Runs(c, set, d) /\ Timed!MomentOf(c, set, d) > t}
<1>1. Timed!NextRun(c, set, t) = IF fit = {} THEN None ELSE Timed!MomentOf(c, set, Timed!Min(fit))
  BY DEF Timed!NextRun, Timed!NextRunTable
<1>2. fit # {} /\ fit \in SUBSET Nat
  BY <1>1, DaysAreNumbers
<1>3. Timed!Min(fit) \in fit /\ \A y \in fit : Timed!Min(fit) <= y
  <2> HIDE DEF fit
  <2> QED BY <1>2, LeastDay
<1>4. PICK m : m = Timed!Min(fit)
  OBVIOUS
<1>5. m \in Timed!Days /\ m >= Timed!DayOf(t) /\ Timed!Runs(c, set, m) /\ Timed!MomentOf(c, set, m) > t
        /\ \A y \in fit : m <= y
  BY <1>3, <1>4
<1>6. PICK n : n = Timed!MomentOf(c, set, m)
  OBVIOUS
<1>7. n = Timed!NextRun(c, set, t) /\ n \in Nat /\ n > t
  BY <1>1, <1>2, <1>4, <1>5, <1>6, MomentTyped
<1>8. PICK h : h = [cadence |-> c, set |-> set, now |-> t]
  OBVIOUS
<1>9. h.cadence = c /\ h.set = set /\ h.now = t
  BY <1>8
<1>10. m \in Timed!LaterDays(h)
  BY <1>5, <1>9 DEF Timed!LaterDays
<1>11. n \in Timed!Moments(h)
  BY <1>6, <1>9, <1>10 DEF Timed!Moments
<1>12. ASSUME NEW d \in Timed!LaterDays(h), Timed!MomentOf(c, set, d) < n
       PROVE  c.every = "month" /\ d < Timed!DayOf(t)
  <2>1. d \in Timed!Days /\ Timed!Runs(c, set, d) /\ Timed!MomentOf(c, set, d) > t
    BY <1>9 DEF Timed!LaterDays
  <2>2. d \in Nat /\ m \in Nat /\ Timed!MomentOf(c, set, d) \in Nat /\ Timed!DayOf(t) \in Int
    <3>1. PerDay \in Nat \ {0} /\ t \in Nat
      BY DEF Timed!Given
    <3>2. Timed!DayOf(t) \in Int
      BY <3>1 DEF Timed!DayOf
    <3> QED BY <1>5, <2>1, <3>2, MomentTyped
  <2>3. d \notin fit
    <3> SUFFICES ASSUME d \in fit PROVE FALSE
      OBVIOUS
    <3>1. m <= d
      BY <1>5
    <3>2. n <= Timed!MomentOf(c, set, d)
      BY <1>5, <1>6, <2>1, <3>1, MomentsInOrder
    <3> QED BY <1>7, <1>12, <2>2, <3>2
  <2>4. d < Timed!DayOf(t)
    BY <2>1, <2>2, <2>3
  <2>5. c.every = "month"
    <3> SUFFICES ASSUME c.every # "month" PROVE FALSE
      OBVIOUS
    <3>1. Timed!MomentOf(c, set, d) = PerDay * d + c.time
      BY <2>1, MomentIs DEF DayFor
    <3>2. c.time \in 0..(PerDay - 1) /\ t \in Nat
      BY DEF Timed!Given
    <3>3. Timed!MomentOf(c, set, d) < t
      BY <2>2, <2>4, <3>1, <3>2, DayIsOver
    <3> QED BY <2>1, <2>2, <3>2, <3>3
  <2> QED BY <2>4, <2>5
<1>13. Fits(n, h)
  BY <1>7, <1>9, <1>11, <1>12 DEF Fits
<1> QED BY <1>7, <1>8, <1>13

-----------------------------------------------------------------------------
(* The invariant *)

Offers == [flow : Flows, row : Timed!Row]

SchedTyped ==
  /\ clock \in 0..MaxClock
  /\ setting \in Settings
  /\ rows \in [Flows -> Timed!Row \cup {None}]
  /\ flowLock \in Copies \cup {None}
  /\ pass \in [Copies -> Timed!Passes \cup {None}]
  /\ panel \in [Panels -> Offers \cup {None}]
  /\ requests \in 0..MaxSaves /\ faults \in 0..MaxCuts
  /\ claimed \in SUBSET Timed!Slots /\ started \in SUBSET claimed /\ again = {}

\* A slot of f, as it was saved for the n-th time.
Taken(f, n) == {s \in claimed : s.flow = f /\ s.save = n}

\* A row that runs is past every slot of it that was claimed.
RowsMoveOn == \A f \in Flows : rows[f] # None =>
  /\ rows[f].save <= requests
  /\ rows[f].active => rows[f].next \in Nat /\ \A s \in Taken(f, rows[f].save) : s.at < rows[f].next

\* What a request is about to save nobody has saved, and no slot of it was claimed.
SavesAreNew ==
  /\ \A s \in claimed : s.save <= requests
  /\ \A a \in Panels : panel[a] # None =>
       LET n == panel[a].row.save
       IN  /\ n <= requests /\ panel[a].row.active /\ panel[a].row.next \in Nat
           /\ \A s \in claimed : s.save # n
           /\ \A f \in Flows : rows[f] # None => rows[f].save # n
           /\ \A b \in Panels : panel[b] # None /\ panel[b].row.save = n => b = a

\* A pass reads rows that are due, and deals with slots that it alone has claimed.
PassesApart ==
  /\ \A c \in Copies : pass[c] # None =>
       /\ pass[c].now <= clock
       /\ \A d \in pass[c].due : d.row.next \in Nat /\ d.row.next <= pass[c].now
       /\ pass[c].slot # None => pass[c].slot \in claimed \ started
  /\ \A c, e \in Copies : pass[c] # None /\ pass[e] # None /\ pass[c].slot # None /\ pass[c].slot = pass[e].slot
         => c = e

FewLost == IsFiniteSet(claimed) /\ Cardinality(claimed \ (started \cup Timed!Held)) <= faults

\* Every next run was found by next_run.
RowsFit ==
  /\ \A f \in Flows : rows[f] # None => (rows[f].active => Fits(rows[f].next, rows[f].why))
  /\ \A a \in Panels : panel[a] # None => Fits(panel[a].row.next, panel[a].row.why)

SlotInv == SchedTyped /\ RowsMoveOn /\ SavesAreNew /\ PassesApart /\ FewLost
SchedInv == SlotInv /\ RowsFit

LEMMA HeldIs ==
  ASSUME NEW x
  PROVE  x \in Timed!Held <=> \E c \in Copies : pass[c] # None /\ pass[c].slot # None /\ pass[c].slot = x
BY DEF Timed!Held, Timed!InPass, Timed!Between

LEMMA NoSlotIsNone == ASSUME Timed!Given PROVE None \notin Timed!Slots /\ None \notin Nat /\ None \notin Timed!Passes
BY DEF Timed!Given

LEMMA SchedFirst == ASSUME Timed!Given, Timed!Init PROVE SchedInv
<1>1. SchedTyped
  <2>1. clock \in 0..MaxClock /\ requests \in 0..MaxSaves /\ faults \in 0..MaxCuts
    BY DEF Timed!Init, Timed!Given
  <2>2. setting \in Settings /\ rows \in [Flows -> Timed!Row \cup {None}] /\ flowLock \in Copies \cup {None}
    BY DEF Timed!Init
  <2>3. pass \in [Copies -> Timed!Passes \cup {None}] /\ panel \in [Panels -> Offers \cup {None}]
    BY DEF Timed!Init
  <2>4. claimed \in SUBSET Timed!Slots /\ started \in SUBSET claimed /\ again = {}
    BY DEF Timed!Init
  <2> QED BY <2>1, <2>2, <2>3, <2>4 DEF SchedTyped
<1>2. /\ \A f \in Flows : rows[f] = None
      /\ \A a \in Panels : panel[a] = None
      /\ \A c \in Copies : pass[c] = None
      /\ claimed = {} /\ faults = 0
  BY DEF Timed!Init
<1>3. RowsMoveOn /\ SavesAreNew /\ PassesApart /\ RowsFit
  BY <1>2 DEF RowsMoveOn, SavesAreNew, PassesApart, RowsFit
<1>4. FewLost
  <2>1. claimed \ (started \cup Timed!Held) = {}
    BY <1>2
  <2>2. IsFiniteSet({}) /\ Cardinality({}) = 0
    BY FS_EmptySet
  <2> QED BY <1>2, <2>1, <2>2 DEF FewLost
<1> QED BY <1>1, <1>3, <1>4 DEF SchedInv, SlotInv

-----------------------------------------------------------------------------
(* The panel *)

\* Passes that stay as they are.
LEMMA PassesStay ==
  ASSUME PassesApart, FewLost, UNCHANGED <<pass, claimed, started, faults>>, clock' = clock
  PROVE  PassesApart' /\ FewLost'
<1>1. Timed!Held' = Timed!Held
  BY DEF Timed!Held, Timed!InPass, Timed!Between
<1> QED BY <1>1 DEF PassesApart, FewLost

LEMMA AskKeeps ==
  ASSUME Timed!Given, SchedInv, NEW a \in Panels, Timed!AskSchedule(a)
  PROVE  SchedInv'
<1>1. /\ SchedTyped /\ RowsMoveOn /\ SavesAreNew /\ PassesApart /\ FewLost /\ RowsFit
      /\ requests \in 0..MaxSaves /\ MaxSaves \in Nat /\ clock \in 0..MaxClock /\ setting \in Settings
      /\ panel \in [Panels -> Offers \cup {None}]
  BY DEF SchedInv, SlotInv, SchedTyped, Timed!Given
<1>2. PICK f \in Flows, c \in Cadences :
        /\ panel[a] = None /\ requests < MaxSaves /\ requests' = requests + 1
        /\ Timed!NextRun(c, setting, clock) # None
        /\ panel' = [panel EXCEPT ![a] = [flow |-> f,
             row |-> [id |-> requests', save |-> requests', cadence |-> c, active |-> TRUE,
                      next |-> Timed!NextRun(c, setting, clock), why |-> Timed!Why(c)]]]
        /\ UNCHANGED <<clock, setting, rows, flowLock, pass, faults, claimed, started, again>>
  BY DEF Timed!AskSchedule, Timed!Request, Timed!history
<1>3. PICK h : h = [cadence |-> c, set |-> setting, now |-> clock]
  OBVIOUS
<1>4. PICK n : n = Timed!NextRun(c, setting, clock)
  OBVIOUS
<1>5. n \in Nat /\ Fits(n, h)
  <2>1. Fits(n, h)
    BY <1>1, <1>2, <1>3, <1>4, NextRunFits
  <2> QED BY <2>1 DEF Fits
<1>6. PICK r : r = [id |-> requests', save |-> requests', cadence |-> c, active |-> TRUE, next |-> n, why |-> h]
  OBVIOUS
<1>7. r \in Timed!Row /\ r.save = requests + 1 /\ r.active = TRUE /\ r.next = n /\ r.why = h
  BY <1>1, <1>2, <1>3, <1>5, <1>6 DEF Timed!Row
<1>8. PICK o : o = [flow |-> f, row |-> r]
  OBVIOUS
<1>9. o \in Offers /\ o.row = r
  BY <1>7, <1>8 DEF Offers
<1>10. panel' = [panel EXCEPT ![a] = o]
  BY <1>2, <1>3, <1>4, <1>6, <1>8 DEF Timed!Why
<1>11. panel' \in [Panels -> Offers \cup {None}] /\ panel'[a] = o /\ \A b \in Panels : b # a => panel'[b] = panel[b]
  BY <1>1, <1>9, <1>10
<1>12. requests' \in 0..MaxSaves /\ requests <= requests'
  BY <1>1, <1>2
<1>13. SchedTyped'
  BY <1>1, <1>2, <1>11, <1>12 DEF SchedTyped
<1>14. RowsMoveOn'
  <2>1. \A g \in Flows : rows[g] # None => rows[g] \in Timed!Row
    BY <1>1 DEF SchedTyped
  <2>2. \A g \in Flows : rows[g] # None => rows[g].save <= requests'
    <3>1. \A g \in Flows : rows[g] # None => rows[g].save \in Nat /\ rows[g].save <= requests
      BY <1>1, <2>1 DEF RowsMoveOn, Timed!Row
    <3> QED BY <1>1, <1>12, <3>1
  <2> QED BY <1>1, <1>2, <2>2 DEF RowsMoveOn, Taken
<1>15. SavesAreNew'
  <2>1. \A s \in claimed : s.save \in Nat /\ s.save <= requests
    BY <1>1 DEF SavesAreNew, SchedTyped, Timed!Slots
  <2>2. \A g \in Flows : rows[g] # None => rows[g].save \in Nat /\ rows[g].save <= requests
    BY <1>1 DEF RowsMoveOn, SchedTyped, Timed!Row
  <2>3. \A b \in Panels : panel[b] # None => panel[b].row.save \in Nat /\ panel[b].row.save <= requests
    BY <1>1 DEF SavesAreNew, Offers, Timed!Row
  <2>4. \A s \in claimed : s.save <= requests'
    BY <1>1, <1>12, <2>1
  <2>5. ASSUME NEW b \in Panels, panel'[b] # None
        PROVE  /\ panel'[b].row.save <= requests' /\ panel'[b].row.active /\ panel'[b].row.next \in Nat
               /\ \A s \in claimed : s.save # panel'[b].row.save
               /\ \A g \in Flows : rows[g] # None => rows[g].save # panel'[b].row.save
               /\ \A d \in Panels : panel'[d] # None /\ panel'[d].row.save = panel'[b].row.save => d = b
    <3>1. CASE b = a
      <4>1. panel'[b].row = r
        BY <1>9, <1>11, <3>1
      <4>2. \A d \in Panels : d # a /\ panel'[d] # None => panel'[d].row.save # requests + 1
        BY <1>1, <1>11, <2>3
      <4> QED BY <1>1, <1>2, <1>5, <1>7, <2>1, <2>2, <3>1, <4>1, <4>2
    <3>2. CASE b # a
      <4>1. panel'[b] = panel[b] /\ panel[b] # None
        BY <1>11, <2>5, <3>2
      <4>2. /\ panel[b].row.save \in Nat /\ panel[b].row.save <= requests
            /\ panel[b].row.active /\ panel[b].row.next \in Nat
            /\ \A s \in claimed : s.save # panel[b].row.save
            /\ \A g \in Flows : rows[g] # None => rows[g].save # panel[b].row.save
            /\ \A d \in Panels : panel[d] # None /\ panel[d].row.save = panel[b].row.save => d = b
        BY <1>1, <2>3, <4>1 DEF SavesAreNew
      <4>3. panel'[a].row.save = requests + 1
        BY <1>7, <1>9, <1>11
      <4>4. \A d \in Panels : panel'[d] # None /\ panel'[d].row.save = panel[b].row.save => d = b
        BY <1>1, <1>11, <4>2, <4>3
      <4>5. panel[b].row.save <= requests'
        BY <1>1, <1>12, <4>2
      <4> QED BY <4>1, <4>2, <4>4, <4>5
    <3> QED BY <3>1, <3>2
  <2> QED BY <1>2, <2>4, <2>5 DEF SavesAreNew
<1>16. PassesApart' /\ FewLost'
  BY <1>1, <1>2, PassesStay
<1>17. RowsFit'
  <2>1. \A b \in Panels : panel'[b] # None => Fits(panel'[b].row.next, panel'[b].row.why)
    BY <1>1, <1>5, <1>7, <1>9, <1>11 DEF RowsFit
  <2>2. PICK p : p = panel'
    OBVIOUS
  <2> QED BY <1>1, <1>2, <2>1 DEF RowsFit, Fits, Timed!LaterDays, Timed!Moments
<1> QED BY <1>13, <1>14, <1>15, <1>16, <1>17 DEF SchedInv, SlotInv

LEMMA SaveKeeps ==
  ASSUME Timed!Given, SchedInv, NEW a \in Panels, Timed!SaveSchedule(a)
  PROVE  SchedInv'
<1>1. /\ SchedTyped /\ RowsMoveOn /\ SavesAreNew /\ PassesApart /\ FewLost /\ RowsFit
      /\ rows \in [Flows -> Timed!Row \cup {None}] /\ panel \in [Panels -> Offers \cup {None}]
  BY DEF SchedInv, SlotInv, SchedTyped
<1>2. PICK o : o = panel[a]
  OBVIOUS
<1>3. o # None /\ o \in Offers
  BY <1>1, <1>2 DEF Timed!SaveSchedule
<1>4. o.flow \in Flows /\ o.row \in Timed!Row
  BY <1>3 DEF Offers
<1>5. PICK f \in Flows : f = o.flow
  BY <1>4
<1>6. PICK r : r = IF rows[f] = None THEN o.row ELSE [o.row EXCEPT !.id = rows[f].id]
  OBVIOUS
<1>7. /\ r \in Timed!Row /\ r.save = o.row.save /\ r.active = o.row.active /\ r.next = o.row.next /\ r.why = o.row.why
      /\ r.cadence = o.row.cadence
  BY <1>1, <1>4, <1>6 DEF Timed!Row
<1>8. /\ rows' = [rows EXCEPT ![f] = r] /\ panel' = [panel EXCEPT ![a] = None]
      /\ UNCHANGED <<clock, setting, flowLock, pass, requests, faults, claimed, started, again>>
  BY <1>2, <1>5, <1>6 DEF Timed!SaveSchedule, Timed!bounds, Timed!history
<1>9. rows' \in [Flows -> Timed!Row \cup {None}] /\ rows'[f] = r /\ \A g \in Flows : g # f => rows'[g] = rows[g]
  BY <1>1, <1>7, <1>8
<1>10. panel' \in [Panels -> Offers \cup {None}] /\ panel'[a] = None /\ \A b \in Panels : b # a
        => panel'[b] = panel[b]
  BY <1>1, <1>8
<1>11. SchedTyped'
  BY <1>1, <1>8, <1>9, <1>10 DEF SchedTyped
<1>12. /\ o.row.save <= requests /\ o.row.active /\ o.row.next \in Nat
       /\ \A s \in claimed : s.save # o.row.save
       /\ \A g \in Flows : rows[g] # None => rows[g].save # o.row.save
       /\ \A b \in Panels : panel[b] # None /\ panel[b].row.save = o.row.save => b = a
       /\ Fits(o.row.next, o.row.why)
  BY <1>1, <1>2, <1>3 DEF SavesAreNew, RowsFit
<1>13. RowsMoveOn'
  <2>1. ASSUME NEW g \in Flows, rows'[g] # None
        PROVE  /\ rows'[g].save <= requests
               /\ rows'[g].active => /\ rows'[g].next \in Nat
                                     /\ \A s \in Taken(g, rows'[g].save) : s.at < rows'[g].next
    <3>1. CASE g = f
      <4>1. Taken(g, r.save) = {}
        BY <1>7, <1>12 DEF Taken
      <4> QED BY <1>7, <1>9, <1>12, <3>1, <4>1
    <3>2. CASE g # f
      BY <1>1, <1>9, <2>1, <3>2 DEF RowsMoveOn
    <3> QED BY <3>1, <3>2
  <2> QED BY <1>8, <2>1 DEF RowsMoveOn, Taken
<1>14. SavesAreNew'
  <2>1. ASSUME NEW b \in Panels, panel'[b] # None
        PROVE  /\ panel'[b].row.save <= requests /\ panel'[b].row.active /\ panel'[b].row.next \in Nat
               /\ \A s \in claimed : s.save # panel'[b].row.save
               /\ \A g \in Flows : rows'[g] # None => rows'[g].save # panel'[b].row.save
               /\ \A d \in Panels : panel'[d] # None /\ panel'[d].row.save = panel'[b].row.save => d = b
    <3>1. b # a /\ panel'[b] = panel[b] /\ panel[b] # None
      BY <1>10, <2>1
    <3>2. /\ panel[b].row.save <= requests /\ panel[b].row.active /\ panel[b].row.next \in Nat
          /\ \A s \in claimed : s.save # panel[b].row.save
          /\ \A g \in Flows : rows[g] # None => rows[g].save # panel[b].row.save
          /\ \A d \in Panels : panel[d] # None /\ panel[d].row.save = panel[b].row.save => d = b
      BY <1>1, <3>1 DEF SavesAreNew
    <3>3. panel[b].row.save # r.save
      BY <1>7, <1>12, <3>1
    <3>4. \A g \in Flows : rows'[g] # None => rows'[g].save # panel[b].row.save
      BY <1>9, <3>2, <3>3
    <3>5. \A d \in Panels : panel'[d] # None /\ panel'[d].row.save = panel[b].row.save => d = b
      BY <1>10, <3>2
    <3> QED BY <3>1, <3>2, <3>4, <3>5
  <2> QED BY <1>1, <1>8, <2>1 DEF SavesAreNew
<1>15. PassesApart' /\ FewLost'
  BY <1>1, <1>8, PassesStay
<1>16. RowsFit'
  <2>1. \A b \in Panels : panel'[b] # None => Fits(panel'[b].row.next, panel'[b].row.why)
    BY <1>1, <1>10 DEF RowsFit
  <2>2. \A g \in Flows : rows'[g] # None => (rows'[g].active => Fits(rows'[g].next, rows'[g].why))
    BY <1>1, <1>7, <1>9, <1>12 DEF RowsFit
  <2> QED BY <2>1, <2>2 DEF RowsFit, Fits, Timed!LaterDays, Timed!Moments
<1> QED BY <1>11, <1>13, <1>14, <1>15, <1>16 DEF SchedInv, SlotInv

LEMMA RemoveKeeps ==
  ASSUME Timed!Given, SchedInv, NEW f \in Flows, Timed!RemoveSchedule(f)
  PROVE  SchedInv'
<1>1. /\ SchedTyped /\ RowsMoveOn /\ SavesAreNew /\ PassesApart /\ FewLost /\ RowsFit
      /\ rows \in [Flows -> Timed!Row \cup {None}] /\ panel \in [Panels -> Offers \cup {None}]
      /\ requests \in 0..MaxSaves /\ MaxSaves \in Nat
  BY DEF SchedInv, SlotInv, SchedTyped, Timed!Given
<1>2. /\ rows' = [rows EXCEPT ![f] = None] /\ requests' = requests + 1 /\ requests < MaxSaves
      /\ UNCHANGED <<clock, setting, flowLock, pass, panel, faults, claimed, started, again>>
  BY DEF Timed!RemoveSchedule, Timed!Request, Timed!history
<1>3. rows' \in [Flows -> Timed!Row \cup {None}] /\ \A g \in Flows : rows'[g] # None => rows'[g] = rows[g]
  BY <1>1, <1>2
<1>4. requests' \in 0..MaxSaves /\ \A n \in Nat : n <= requests => n <= requests'
  BY <1>1, <1>2
<1>5. SchedTyped'
  BY <1>1, <1>2, <1>3, <1>4 DEF SchedTyped
<1>6. /\ \A g \in Flows : rows[g] # None => rows[g].save \in Nat
      /\ \A b \in Panels : panel[b] # None => panel[b].row.save \in Nat
      /\ \A s \in claimed : s.save \in Nat
  BY <1>1 DEF SchedTyped, Timed!Row, Offers, Timed!Slots
<1>7. RowsMoveOn'
  BY <1>1, <1>2, <1>3, <1>4, <1>6 DEF RowsMoveOn, Taken
<1>8. SavesAreNew'
  BY <1>1, <1>2, <1>3, <1>4, <1>6 DEF SavesAreNew
<1>9. PassesApart' /\ FewLost'
  BY <1>1, <1>2, PassesStay
<1>10. RowsFit'
  BY <1>1, <1>2, <1>3 DEF RowsFit, Fits, Timed!LaterDays, Timed!Moments
<1> QED BY <1>5, <1>7, <1>8, <1>9, <1>10 DEF SchedInv, SlotInv

LEMMA SettingKeeps ==
  ASSUME Timed!Given, SchedInv, Timed!ChangeSettings
  PROVE  SchedInv'
<1>1. /\ SchedTyped /\ RowsMoveOn /\ SavesAreNew /\ PassesApart /\ FewLost /\ RowsFit
      /\ requests \in 0..MaxSaves /\ MaxSaves \in Nat
      /\ rows \in [Flows -> Timed!Row \cup {None}] /\ panel \in [Panels -> Offers \cup {None}]
  BY DEF SchedInv, SlotInv, SchedTyped, Timed!Given
<1>2. /\ setting' \in Settings /\ requests' = requests + 1 /\ requests < MaxSaves
      /\ UNCHANGED <<clock, rows, flowLock, pass, panel, faults, claimed, started, again>>
  BY DEF Timed!ChangeSettings, Timed!Request, Timed!history
<1>3. requests' \in 0..MaxSaves /\ \A n \in Nat : n <= requests => n <= requests'
  BY <1>1, <1>2
<1>4. SchedTyped'
  BY <1>1, <1>2, <1>3 DEF SchedTyped
<1>5. /\ \A g \in Flows : rows[g] # None => rows[g].save \in Nat
      /\ \A b \in Panels : panel[b] # None => panel[b].row.save \in Nat
      /\ \A s \in claimed : s.save \in Nat
  BY <1>1 DEF SchedTyped, Timed!Row, Offers, Timed!Slots
<1>6. RowsMoveOn'
  BY <1>1, <1>2, <1>3, <1>5 DEF RowsMoveOn, Taken
<1>7. SavesAreNew'
  BY <1>1, <1>2, <1>3, <1>5 DEF SavesAreNew
<1>8. PassesApart' /\ FewLost'
  BY <1>1, <1>2, PassesStay
<1>9. RowsFit'
  BY <1>1, <1>2 DEF RowsFit, Fits, Timed!LaterDays, Timed!Moments
<1> QED BY <1>4, <1>6, <1>7, <1>8, <1>9 DEF SchedInv, SlotInv

-----------------------------------------------------------------------------
(* The job *)

\* Rows and requests that stay as they are.
LEMMA RowsStay ==
  ASSUME RowsMoveOn, SavesAreNew, RowsFit, UNCHANGED <<rows, panel, requests, claimed>>
  PROVE  RowsMoveOn' /\ SavesAreNew' /\ RowsFit'
BY DEF RowsMoveOn, SavesAreNew, RowsFit, Taken, Fits, Timed!LaterDays, Timed!Moments

LEMMA TickKeeps ==
  ASSUME Timed!Given, SchedInv, Timed!Tick
  PROVE  SchedInv'
<1>1. /\ SchedTyped /\ RowsMoveOn /\ SavesAreNew /\ PassesApart /\ FewLost /\ RowsFit
      /\ clock \in 0..MaxClock /\ MaxClock \in Nat /\ pass \in [Copies -> Timed!Passes \cup {None}]
  BY DEF SchedInv, SlotInv, SchedTyped, Timed!Given
<1>2. /\ clock < MaxClock /\ clock' = clock + 1
      /\ UNCHANGED <<setting, rows, flowLock, pass, panel, requests, faults, claimed, started, again>>
  BY DEF Timed!Tick, Timed!bounds, Timed!history
<1>3. SchedTyped'
  BY <1>1, <1>2 DEF SchedTyped
<1>4. RowsMoveOn' /\ SavesAreNew' /\ RowsFit'
  BY <1>1, <1>2, RowsStay
<1>5. \A c \in Copies : pass[c] # None => pass[c].now \in Nat /\ pass[c].now <= clock
  BY <1>1 DEF PassesApart, Timed!Passes
<1>6. \A c \in Copies : pass[c] # None => pass[c].now <= clock'
  BY <1>1, <1>2, <1>5
<1>7. PassesApart'
  BY <1>1, <1>2, <1>6 DEF PassesApart
<1>8. FewLost'
  BY <1>1, <1>2 DEF FewLost, Timed!Held, Timed!InPass, Timed!Between
<1> QED BY <1>3, <1>4, <1>7, <1>8 DEF SchedInv, SlotInv

LEMMA StartPassKeeps ==
  ASSUME Timed!Given, SchedInv, NEW c \in Copies, Timed!StartPass(c)
  PROVE  SchedInv'
<1>1. /\ SchedTyped /\ RowsMoveOn /\ SavesAreNew /\ PassesApart /\ FewLost /\ RowsFit
      /\ clock \in 0..MaxClock /\ MaxClock \in Nat /\ pass \in [Copies -> Timed!Passes \cup {None}]
      /\ rows \in [Flows -> Timed!Row \cup {None}]
  BY DEF SchedInv, SlotInv, SchedTyped, Timed!Given
<1>2. PICK due : due = {[flow |-> f, row |-> rows[f]] : f \in {g \in Flows : Timed!IsDue(g)}}
  OBVIOUS
<1>3. PICK p : p = [now |-> clock, slot |-> None, due |-> due]
  OBVIOUS
<1>4. /\ pass[c] = None /\ flowLock' = c /\ pass' = [pass EXCEPT ![c] = p]
      /\ UNCHANGED <<clock, setting, rows, panel, requests, faults, claimed, started, again>>
  BY <1>2, <1>3 DEF Timed!StartPass, Timed!bounds, Timed!history
<1>5. \A d \in due : d \in Offers /\ d.row.next \in Nat /\ d.row.next <= clock
  <2>1. \A f \in Flows : Timed!IsDue(f) => rows[f] # None /\ rows[f] \in Timed!Row /\ rows[f].active
          /\ rows[f].next <= clock
    BY <1>1 DEF Timed!IsDue, Timed!Active
  <2>2. \A f \in Flows : Timed!IsDue(f) => rows[f].next \in Nat
    BY <1>1, <2>1 DEF RowsMoveOn
  <2> QED BY <1>2, <2>1, <2>2 DEF Offers
<1>6. p \in Timed!Passes /\ p.now = clock /\ p.due = due /\ p.slot = None
  BY <1>1, <1>3, <1>5 DEF Timed!Passes, Offers
<1>7. pass' \in [Copies -> Timed!Passes \cup {None}] /\ pass'[c] = p /\ \A e \in Copies : e # c => pass'[e] = pass[e]
  BY <1>1, <1>4, <1>6
<1>8. SchedTyped'
  BY <1>1, <1>4, <1>7 DEF SchedTyped
<1>9. RowsMoveOn' /\ SavesAreNew' /\ RowsFit'
  BY <1>1, <1>4, RowsStay
<1>10. PassesApart'
  <2>1. ASSUME NEW e \in Copies, pass'[e] # None
        PROVE  /\ pass'[e].now <= clock /\ \A d \in pass'[e].due : d.row.next \in Nat /\ d.row.next <= pass'[e].now
               /\ pass'[e].slot # None => pass'[e].slot \in claimed \ started
    <3>1. CASE e = c
      BY <1>1, <1>5, <1>6, <1>7, <3>1
    <3>2. CASE e # c
      BY <1>1, <1>7, <2>1, <3>2 DEF PassesApart
    <3> QED BY <3>1, <3>2
  <2>2. \A d, e \in Copies : pass'[d] # None /\ pass'[e] # None /\ pass'[d].slot # None
          /\ pass'[d].slot = pass'[e].slot
          => d = e
    BY <1>1, <1>6, <1>7 DEF PassesApart
  <2> QED BY <1>4, <2>1, <2>2 DEF PassesApart
<1>11. FewLost'
  <2>1. \A x : x \in Timed!Held' <=> x \in Timed!Held
    BY <1>4, <1>6, <1>7 DEF Timed!Held, Timed!InPass, Timed!Between
  <2>2. Timed!Held' = Timed!Held
    BY <2>1
  <2> QED BY <1>1, <1>4, <2>2 DEF FewLost
<1> QED BY <1>8, <1>9, <1>10, <1>11 DEF SchedInv, SlotInv

\* A copy forgets a row that it has dealt with, or that somebody else has.
LEMMA SkipKeeps ==
  ASSUME Timed!Given, SchedInv, NEW c \in Copies, NEW d, pass[c] # None,
         pass' = [pass EXCEPT ![c].due = @ \ {d}],
         UNCHANGED <<clock, setting, rows, flowLock, panel, requests, faults, claimed, started, again>>
  PROVE  SchedInv'
<1>1. /\ SchedTyped /\ RowsMoveOn /\ SavesAreNew /\ PassesApart /\ FewLost /\ RowsFit
      /\ pass \in [Copies -> Timed!Passes \cup {None}]
  BY DEF SchedInv, SlotInv, SchedTyped
<1>2. PICK p : p = [pass[c] EXCEPT !.due = @ \ {d}]
  OBVIOUS
<1>3. pass[c] \in Timed!Passes /\ p \in Timed!Passes /\ p.now = pass[c].now /\ p.slot = pass[c].slot
        /\ p.due \subseteq pass[c].due
  BY <1>1, <1>2 DEF Timed!Passes
<1>4. pass' = [pass EXCEPT ![c] = p]
  BY <1>2
<1>5. pass' \in [Copies -> Timed!Passes \cup {None}] /\ pass'[c] = p /\ \A e \in Copies : e # c => pass'[e] = pass[e]
  BY <1>1, <1>3, <1>4
<1>6. SchedTyped'
  BY <1>1, <1>5 DEF SchedTyped
<1>7. RowsMoveOn' /\ SavesAreNew' /\ RowsFit'
  BY <1>1, RowsStay
<1>8. PassesApart'
  <2>1. ASSUME NEW e \in Copies, pass'[e] # None
        PROVE  /\ pass'[e].now <= clock /\ \A x \in pass'[e].due : x.row.next \in Nat /\ x.row.next <= pass'[e].now
               /\ pass'[e].slot # None => pass'[e].slot \in claimed \ started
               /\ pass[e] # None /\ pass'[e].slot = pass[e].slot
    <3>1. pass[e] # None
      BY <1>5, <2>1
    <3>2. /\ pass[e].now <= clock /\ \A x \in pass[e].due : x.row.next \in Nat /\ x.row.next <= pass[e].now
          /\ pass[e].slot # None => pass[e].slot \in claimed \ started
      BY <1>1, <3>1 DEF PassesApart
    <3>3. CASE e = c
      BY <1>3, <1>5, <3>1, <3>2, <3>3
    <3>4. CASE e # c
      BY <1>5, <3>1, <3>2, <3>4
    <3> QED BY <3>3, <3>4
  <2>2. \A x, e \in Copies : pass'[x] # None /\ pass'[e] # None /\ pass'[x].slot # None
          /\ pass'[x].slot = pass'[e].slot
          => x = e
    BY <1>1, <2>1 DEF PassesApart
  <2> QED BY <2>1, <2>2 DEF PassesApart
<1>9. FewLost'
  <2>1. \A x : x \in Timed!Held => x \in Timed!Held'
    BY <1>3, <1>5, NoSlotIsNone DEF Timed!Held, Timed!InPass, Timed!Between
  <2>2. claimed \ (started \cup Timed!Held') \subseteq claimed \ (started \cup Timed!Held)
    BY <2>1
  <2>3. IsFiniteSet(claimed \ (started \cup Timed!Held)) /\ IsFiniteSet(claimed)
    BY <1>1, FS_Subset DEF FewLost
  <2>4. Cardinality(claimed \ (started \cup Timed!Held')) <= Cardinality(claimed \ (started \cup Timed!Held))
    BY <2>2, <2>3, FS_Subset
  <2>5. Cardinality(claimed \ (started \cup Timed!Held')) \in Nat
          /\ Cardinality(claimed \ (started \cup Timed!Held)) \in Nat
    BY <2>2, <2>3, FS_Subset, FS_CardinalityType
  <2>6. faults \in Nat /\ Cardinality(claimed \ (started \cup Timed!Held)) <= faults
    BY <1>1 DEF FewLost, SchedTyped
  <2>7. Cardinality(claimed \ (started \cup Timed!Held')) <= faults
    BY <2>4, <2>5, <2>6
  <2> QED BY <2>3, <2>7 DEF FewLost
<1> QED BY <1>6, <1>7, <1>8, <1>9 DEF SchedInv, SlotInv

LEMMA ClaimKeepsSlots ==
  ASSUME Timed!Given, SchedInv, NEW c \in Copies, Timed!Claim(c)
  PROVE  SchedInv'
<1>1. /\ SchedTyped /\ RowsMoveOn /\ SavesAreNew /\ PassesApart /\ FewLost /\ RowsFit
      /\ pass \in [Copies -> Timed!Passes \cup {None}] /\ rows \in [Flows -> Timed!Row \cup {None}]
      /\ clock \in 0..MaxClock /\ setting \in Settings /\ faults \in Nat
      /\ claimed \subseteq Timed!Slots /\ started \subseteq claimed
  BY DEF SchedInv, SlotInv, SchedTyped, Timed!Given
<1>2. PICK d \in Timed!Earliest(c) :
        /\ pass[c] # None /\ pass[c].slot = None
        /\ IF Timed!Claims(d)
           THEN /\ rows' = [rows EXCEPT ![d.flow].next = Timed!Following(c, d),
                  ![d.flow].active = Timed!Following(c, d) # None,
                             ![d.flow].why = [cadence |-> d.row.cadence, set |-> setting, now |-> pass[c].now]]
                /\ claimed' = claimed \cup {[flow |-> d.flow, save |-> rows[d.flow].save, at |-> d.row.next]}
                /\ pass' = [pass EXCEPT ![c].due = @ \ {d},
                             ![c].slot = [flow |-> d.flow, save |-> rows[d.flow].save, at |-> d.row.next]]
           ELSE /\ pass' = [pass EXCEPT ![c].due = @ \ {d}]
                /\ UNCHANGED <<rows, claimed>>
        /\ UNCHANGED <<clock, setting, flowLock, panel, requests, faults, started, again>>
  BY DEF Timed!Claim, Timed!Between, Timed!InPass, Timed!bounds
<1>3. CASE ~Timed!Claims(d)
  <2>1. UNCHANGED <<clock, setting, rows, flowLock, panel, requests, faults, claimed, started, again>>
    BY <1>2, <1>3
  <2>2. pass' = [pass EXCEPT ![c].due = @ \ {d}] /\ pass[c] # None
    BY <1>2, <1>3
  <2> QED BY <2>1, <2>2, SkipKeeps
<1>4. CASE Timed!Claims(d)
  <2>1. pass[c] \in Timed!Passes /\ d \in pass[c].due
    BY <1>1, <1>2 DEF Timed!Earliest
  <2>2. /\ d.flow \in Flows /\ d.row \in Timed!Row /\ d.row.next \in Nat /\ d.row.next <= pass[c].now
        /\ pass[c].now \in 0..MaxClock /\ pass[c].now <= clock /\ d.row.cadence \in Cadences
    BY <1>1, <1>2, <2>1 DEF Timed!Passes, PassesApart, Timed!Row
  <2>3. PICK f \in Flows : f = d.flow
    BY <2>2
  <2>4. PICK r : r = rows[f]
    OBVIOUS
  <2>5. r # None /\ r \in Timed!Row /\ r.active /\ r.next = d.row.next
    BY <1>1, <1>4, <2>3, <2>4 DEF Timed!Claims, Timed!Active
  <2>6. PICK now : now = pass[c].now
    OBVIOUS
  <2>7. PICK n : n = Timed!Following(c, d)
    OBVIOUS
  <2>8. PICK h : h = [cadence |-> d.row.cadence, set |-> setting, now |-> now]
    OBVIOUS
  <2>9. n # None => Fits(n, h) /\ n \in Nat /\ n > now
    <3>1. n # None => Fits(n, h)
      BY <1>1, <2>2, <2>6, <2>7, <2>8, NextRunFits DEF Timed!Following
    <3>2. h.now = now
      BY <2>8
    <3> QED BY <3>1, <3>2 DEF Fits
  <2>10. PICK goes \in BOOLEAN : goes = (n # None)
    OBVIOUS
  <2>11. PICK t : t = [r EXCEPT !.next = n, !.active = goes, !.why = h]
    OBVIOUS
  <2>12. t \in Timed!Row /\ t.save = r.save /\ t.next = n /\ t.active = goes /\ t.why = h
    <3>1. h \in [cadence : Cadences, set : Settings, now : 0..MaxClock]
      BY <1>1, <2>2, <2>6, <2>8
    <3>2. n \in Nat \cup {None}
      BY <2>9
    <3> QED BY <2>5, <2>10, <2>11, <3>1, <3>2 DEF Timed!Row
  <2>13. PICK slot : slot = [flow |-> f, save |-> r.save, at |-> r.next]
    OBVIOUS
  <2>14. slot \in Timed!Slots /\ slot.flow = f /\ slot.save = r.save /\ slot.at = r.next /\ slot # None
    <3>1. r.save \in Nat /\ r.next \in Nat
      BY <2>2, <2>5 DEF Timed!Row
    <3>2. slot \in Timed!Slots
      BY <2>13, <3>1 DEF Timed!Slots
    <3> QED BY <2>13, <3>2, NoSlotIsNone
  <2>15. /\ rows' = [rows EXCEPT ![f] = t] /\ claimed' = claimed \cup {slot}
         /\ pass' = [pass EXCEPT ![c].due = @ \ {d}, ![c].slot = slot]
         /\ UNCHANGED <<clock, setting, flowLock, panel, requests, faults, started, again>>
    <3>1. rows' = [rows EXCEPT ![f].next = n, ![f].active = n # None, ![f].why = h]
      BY <1>2, <1>4, <2>3, <2>6, <2>7, <2>8
    <3>2. rows' = [rows EXCEPT ![f].next = n, ![f].active = goes, ![f].why = h]
      BY <2>10, <3>1
    <3>3. rows' = [rows EXCEPT ![f] = t]
      BY <1>1, <2>4, <2>11, <3>2
    <3> QED BY <1>2, <1>4, <2>3, <2>4, <2>5, <2>13, <3>3
  <2>16. slot \notin claimed
    <3>1. \A s \in Taken(f, r.save) : s.at < r.next
      BY <1>1, <2>4, <2>5 DEF RowsMoveOn
    <3>2. r.next \in Nat
      BY <2>2, <2>5
    <3> QED BY <2>14, <3>1, <3>2 DEF Taken
  <2>17. PICK p : p = [pass[c] EXCEPT !.due = @ \ {d}, !.slot = slot]
    OBVIOUS
  <2>18. p \in Timed!Passes /\ p.now = now /\ p.slot = slot /\ p.due \subseteq pass[c].due
    BY <2>1, <2>6, <2>14, <2>17 DEF Timed!Passes
  <2>19. pass' = [pass EXCEPT ![c] = p]
    BY <1>1, <2>15, <2>17
  <2>20. pass' \in [Copies -> Timed!Passes \cup {None}] /\ pass'[c] = p /\ \A e \in Copies : e # c
          => pass'[e] = pass[e]
    BY <1>1, <2>18, <2>19
  <2>21. rows' \in [Flows -> Timed!Row \cup {None}] /\ rows'[f] = t /\ \A g \in Flows : g # f => rows'[g] = rows[g]
    BY <1>1, <2>12, <2>15
  <2>22. SchedTyped'
    BY <1>1, <2>14, <2>15, <2>20, <2>21 DEF SchedTyped
  <2>23. RowsMoveOn'
    <3>1. ASSUME NEW g \in Flows, rows'[g] # None
          PROVE  /\ rows'[g].save <= requests
                 /\ rows'[g].active => /\ rows'[g].next \in Nat
                                       /\ \A s \in claimed' : s.flow = g /\ s.save = rows'[g].save
                                                => s.at < rows'[g].next
      <4>1. CASE g = f
        <5>1. r.save <= requests /\ \A s \in Taken(f, r.save) : s.at < r.next
          BY <1>1, <2>4, <2>5 DEF RowsMoveOn
        <5>2. CASE ~goes
          BY <2>12, <2>21, <4>1, <5>1, <5>2
        <5>3. CASE goes
          <6>0. n # None
            BY <2>10, <5>3
          <6>1. n \in Nat /\ n > now /\ now \in Nat /\ r.next \in Nat /\ r.next <= now
            BY <2>2, <2>5, <2>6, <2>9, <6>0
          <6>2. \A s \in claimed' : s.flow = f /\ s.save = r.save => s.at \in Nat /\ s.at <= r.next
            BY <1>1, <2>14, <2>15, <5>1, <6>1 DEF Taken, Timed!Slots
          <6>3. \A s \in claimed' : s.flow = f /\ s.save = r.save => s.at < n
            BY <6>1, <6>2
          <6> QED BY <2>12, <2>21, <4>1, <5>1, <6>1, <6>3
        <5> QED BY <5>2, <5>3
      <4>2. CASE g # f
        <5>1. rows'[g] = rows[g] /\ rows[g] # None
          BY <2>21, <3>1, <4>2
        <5>2. /\ rows[g].save <= requests
              /\ rows[g].active => rows[g].next \in Nat /\ \A s \in Taken(g, rows[g].save) : s.at < rows[g].next
          BY <1>1, <5>1 DEF RowsMoveOn
        <5> QED BY <2>14, <2>15, <4>2, <5>1, <5>2 DEF Taken
      <4> QED BY <4>1, <4>2
    <3> QED BY <2>15, <3>1 DEF RowsMoveOn, Taken
  <2>24. SavesAreNew'
    <3>1. \A s \in claimed' : s.save <= requests
      BY <1>1, <2>4, <2>5, <2>14, <2>15 DEF RowsMoveOn, SavesAreNew
    <3>2. ASSUME NEW a \in Panels, panel[a] # None
          PROVE  /\ panel[a].row.save <= requests /\ panel[a].row.active /\ panel[a].row.next \in Nat
                 /\ \A s \in claimed' : s.save # panel[a].row.save
                 /\ \A g \in Flows : rows'[g] # None => rows'[g].save # panel[a].row.save
                 /\ \A b \in Panels : panel[b] # None /\ panel[b].row.save = panel[a].row.save => b = a
      <4>1. /\ panel[a].row.save <= requests /\ panel[a].row.active /\ panel[a].row.next \in Nat
            /\ \A s \in claimed : s.save # panel[a].row.save
            /\ \A g \in Flows : rows[g] # None => rows[g].save # panel[a].row.save
            /\ \A b \in Panels : panel[b] # None /\ panel[b].row.save = panel[a].row.save => b = a
        BY <1>1, <3>2 DEF SavesAreNew
      <4>2. r.save # panel[a].row.save
        BY <2>4, <2>5, <4>1
      <4>3. \A s \in claimed' : s.save # panel[a].row.save
        BY <2>14, <2>15, <4>1, <4>2
      <4>4. \A g \in Flows : rows'[g] # None => rows'[g].save # panel[a].row.save
        BY <2>12, <2>21, <4>1, <4>2
      <4> QED BY <4>1, <4>3, <4>4
    <3> QED BY <2>15, <3>1, <3>2 DEF SavesAreNew
  <2>25. PassesApart'
    <3>1. ASSUME NEW e \in Copies, pass'[e] # None
          PROVE  /\ pass'[e].now <= clock /\ \A x \in pass'[e].due : x.row.next \in Nat /\ x.row.next <= pass'[e].now
                 /\ pass'[e].slot # None => pass'[e].slot \in claimed' \ started
                 /\ e # c => pass'[e].slot # slot /\ pass'[e] = pass[e]
      <4>1. CASE e = c
        <5>1. \A x \in pass[c].due : x.row.next \in Nat /\ x.row.next <= now
          BY <1>1, <1>2, <2>6 DEF PassesApart
        <5>2. slot \notin started
          BY <1>1, <2>16
        <5> QED BY <2>2, <2>6, <2>15, <2>18, <2>20, <4>1, <5>1, <5>2
      <4>2. CASE e # c
        <5>1. pass'[e] = pass[e] /\ pass[e] # None
          BY <2>20, <3>1, <4>2
        <5>2. /\ pass[e].now <= clock /\ \A x \in pass[e].due : x.row.next \in Nat /\ x.row.next <= pass[e].now
              /\ pass[e].slot # None => pass[e].slot \in claimed \ started
          BY <1>1, <5>1 DEF PassesApart
        <5>3. pass[e].slot # slot
          BY <2>14, <2>16, <5>2
        <5>4. pass[e].slot # None => pass[e].slot \in claimed' \ started
          BY <2>15, <5>2
        <5>5. \A x \in pass'[e].due : x.row.next \in Nat /\ x.row.next <= pass'[e].now
          BY <5>1, <5>2
        <5> QED BY <4>2, <5>1, <5>2, <5>3, <5>4, <5>5
      <4> QED BY <4>1, <4>2
    <3>2. ASSUME NEW x \in Copies, NEW e \in Copies, pass'[x] # None, pass'[e] # None, pass'[x].slot # None,
                 pass'[x].slot = pass'[e].slot
          PROVE  x = e
      <4>1. pass'[c].slot = slot
        BY <2>18, <2>20
      <4>2. CASE x = c \/ e = c
        BY <3>1, <3>2, <4>1, <4>2
      <4>3. CASE x # c /\ e # c
        <5>1. pass'[x] = pass[x] /\ pass'[e] = pass[e]
          BY <2>20, <4>3
        <5> QED BY <1>1, <3>2, <5>1 DEF PassesApart
      <4> QED BY <4>2, <4>3
    <3> QED BY <2>15, <3>1, <3>2 DEF PassesApart
  <2>26. FewLost'
    <3>1. slot \in Timed!Held'
      BY <2>14, <2>18, <2>20, NoSlotIsNone DEF Timed!Held, Timed!InPass, Timed!Between
    <3>2. \A x : x \in Timed!Held => x \in Timed!Held'
      <4> SUFFICES ASSUME NEW x, x \in Timed!Held PROVE x \in Timed!Held'
        OBVIOUS
      <4>1. PICK e \in Copies : pass[e] # None /\ pass[e].slot # None /\ x = pass[e].slot
        BY DEF Timed!Held, Timed!InPass, Timed!Between
      <4>2. e # c
        BY <1>2, <4>1
      <4>3. pass'[e] = pass[e]
        BY <2>20, <4>2
      <4> QED BY <4>1, <4>3 DEF Timed!Held, Timed!InPass, Timed!Between
    <3>3. claimed' \ (started' \cup Timed!Held') \subseteq claimed \ (started \cup Timed!Held)
      BY <2>15, <3>1, <3>2
    <3>4. IsFiniteSet(claimed \ (started \cup Timed!Held)) /\ IsFiniteSet(claimed)
      BY <1>1, FS_Subset DEF FewLost
    <3>5. IsFiniteSet(claimed')
      BY <2>15, <3>4, FS_AddElement
    <3>6. PICK L, M : L = claimed' \ (started' \cup Timed!Held') /\ M = claimed \ (started \cup Timed!Held)
      OBVIOUS
    <3>7. Cardinality(L) <= Cardinality(M) /\ Cardinality(L) \in Nat /\ Cardinality(M) \in Nat
      BY <3>3, <3>4, <3>6, FS_Subset, FS_CardinalityType
    <3>8. Cardinality(M) <= faults
      BY <1>1, <3>6 DEF FewLost
    <3>9. Cardinality(L) <= faults'
      BY <1>1, <2>15, <3>7, <3>8
    <3> QED BY <3>5, <3>6, <3>9 DEF FewLost
  <2>27. RowsFit'
    <3>1. \A g \in Flows : rows'[g] # None => (rows'[g].active => Fits(rows'[g].next, rows'[g].why))
      BY <1>1, <2>9, <2>10, <2>12, <2>21 DEF RowsFit
    <3>2. \A a \in Panels : panel[a] # None => Fits(panel[a].row.next, panel[a].row.why)
      BY <1>1 DEF RowsFit
    <3> QED BY <2>15, <3>1, <3>2 DEF RowsFit, Fits, Timed!LaterDays, Timed!Moments
  <2> QED BY <2>22, <2>23, <2>24, <2>25, <2>26, <2>27 DEF SchedInv, SlotInv
<1> QED BY <1>3, <1>4

LEMMA StartFlowKeeps ==
  ASSUME Timed!Given, SchedInv, NEW c \in Copies, Timed!StartFlow(c)
  PROVE  SchedInv'
<1>1. /\ SchedTyped /\ RowsMoveOn /\ SavesAreNew /\ PassesApart /\ FewLost /\ RowsFit
      /\ pass \in [Copies -> Timed!Passes \cup {None}] /\ claimed \subseteq Timed!Slots /\ started \subseteq claimed
  BY DEF SchedInv, SlotInv, SchedTyped
<1>2. PICK slot : slot = pass[c].slot
  OBVIOUS
<1>3. /\ pass[c] # None /\ slot # None
      /\ started' = started \cup {slot} /\ again' = again \cup ({slot} \cap started)
      /\ pass' = [pass EXCEPT ![c].slot = None]
      /\ UNCHANGED <<clock, setting, rows, flowLock, panel, requests, faults, claimed>>
  BY <1>2 DEF Timed!StartFlow, Timed!InPass, Timed!Between, Timed!bounds
<1>4. slot \in claimed \ started
  BY <1>1, <1>2, <1>3 DEF PassesApart
<1>5. PICK p : p = [pass[c] EXCEPT !.slot = None]
  OBVIOUS
<1>6. p \in Timed!Passes /\ p.now = pass[c].now /\ p.due = pass[c].due /\ p.slot = None
  BY <1>1, <1>3, <1>5 DEF Timed!Passes
<1>7. pass' = [pass EXCEPT ![c] = p]
  BY <1>1, <1>3, <1>5
<1>8. pass' \in [Copies -> Timed!Passes \cup {None}] /\ pass'[c] = p /\ \A e \in Copies : e # c => pass'[e] = pass[e]
  BY <1>1, <1>6, <1>7
<1>9. SchedTyped'
  BY <1>1, <1>3, <1>4, <1>8 DEF SchedTyped
<1>10. RowsMoveOn' /\ SavesAreNew' /\ RowsFit'
  BY <1>1, <1>3, RowsStay
<1>11. PassesApart'
  <2>1. ASSUME NEW e \in Copies, pass'[e] # None
        PROVE  /\ pass'[e].now <= clock /\ \A x \in pass'[e].due : x.row.next \in Nat /\ x.row.next <= pass'[e].now
               /\ pass'[e].slot # None => pass'[e].slot \in claimed \ started'
               /\ pass'[e].slot # None => e # c /\ pass'[e] = pass[e]
    <3>1. CASE e = c
      <4>1. /\ pass[c].now <= clock /\ \A x \in pass[c].due : x.row.next \in Nat /\ x.row.next <= pass[c].now
        BY <1>1, <1>3 DEF PassesApart
      <4> QED BY <1>6, <1>8, <3>1, <4>1
    <3>2. CASE e # c
      <4>1. pass'[e] = pass[e] /\ pass[e] # None
        BY <1>8, <2>1, <3>2
      <4>2. /\ pass[e].now <= clock /\ \A x \in pass[e].due : x.row.next \in Nat /\ x.row.next <= pass[e].now
            /\ pass[e].slot # None => pass[e].slot \in claimed \ started
        BY <1>1, <4>1 DEF PassesApart
      <4>3. pass[e].slot # slot
        BY <1>1, <1>2, <1>3, <3>2, <4>1 DEF PassesApart
      <4>4. pass[e].slot # None => pass[e].slot \in claimed \ started'
        BY <1>3, <4>2, <4>3
      <4> QED BY <3>2, <4>1, <4>2, <4>4
    <3> QED BY <3>1, <3>2
  <2>2. \A x, e \in Copies : pass'[x] # None /\ pass'[e] # None /\ pass'[x].slot # None
          /\ pass'[x].slot = pass'[e].slot
          => x = e
    BY <1>1, <2>1 DEF PassesApart
  <2> QED BY <1>3, <2>1, <2>2 DEF PassesApart
<1>12. FewLost'
  <2>1. \A x : x \in Timed!Held => x \in Timed!Held' \/ x = slot
    BY <1>2, <1>8 DEF Timed!Held, Timed!InPass, Timed!Between
  <2>2. claimed \ (started' \cup Timed!Held') \subseteq claimed \ (started \cup Timed!Held)
    BY <1>3, <2>1
  <2>3. IsFiniteSet(claimed \ (started \cup Timed!Held)) /\ IsFiniteSet(claimed)
    BY <1>1, FS_Subset DEF FewLost
  <2>4. PICK L, M : L = claimed \ (started' \cup Timed!Held') /\ M = claimed \ (started \cup Timed!Held)
    OBVIOUS
  <2>5. Cardinality(L) <= Cardinality(M) /\ Cardinality(L) \in Nat /\ Cardinality(M) \in Nat
    BY <2>2, <2>3, <2>4, FS_Subset, FS_CardinalityType
  <2>6. Cardinality(M) <= faults /\ faults \in Nat
    BY <1>1, <2>4 DEF FewLost, SchedTyped
  <2>7. Cardinality(L) <= faults
    BY <2>5, <2>6
  <2> QED BY <1>3, <2>3, <2>4, <2>7 DEF FewLost
<1> QED BY <1>9, <1>10, <1>11, <1>12 DEF SchedInv, SlotInv

\* A pass ends with nothing claimed, or a fault ends it with a slot.
LEMMA PassEnds ==
  ASSUME Timed!Given, SchedInv, NEW c \in Copies, pass[c] # None, pass' = [pass EXCEPT ![c] = None],
         flowLock' \in Copies \cup {None}, faults' \in 0..MaxCuts,
         (faults' = faults /\ pass[c].slot = None) \/ faults' = faults + 1,
         UNCHANGED <<clock, setting, rows, panel, requests, claimed, started, again>>
  PROVE  SchedInv'
<1>1. /\ SchedTyped /\ RowsMoveOn /\ SavesAreNew /\ PassesApart /\ FewLost /\ RowsFit
      /\ pass \in [Copies -> Timed!Passes \cup {None}] /\ faults \in Nat
  BY DEF SchedInv, SlotInv, SchedTyped
<1>2. /\ pass' \in [Copies -> Timed!Passes \cup {None}] /\ pass'[c] = None
      /\ \A e \in Copies : pass'[e] # None => e # c /\ pass'[e] = pass[e]
      /\ \A e \in Copies : e # c => pass'[e] = pass[e]
  BY <1>1
<1>3. SchedTyped'
  BY <1>1, <1>2 DEF SchedTyped
<1>4. RowsMoveOn' /\ SavesAreNew' /\ RowsFit'
  BY <1>1, RowsStay
<1>5. PassesApart'
  <2>1. \A e \in Copies : pass'[e] # None =>
          /\ pass'[e].now <= clock /\ \A x \in pass'[e].due : x.row.next \in Nat /\ x.row.next <= pass'[e].now
          /\ pass'[e].slot # None => pass'[e].slot \in claimed \ started
    BY <1>1, <1>2 DEF PassesApart
  <2>2. \A x, e \in Copies : pass'[x] # None /\ pass'[e] # None /\ pass'[x].slot # None
          /\ pass'[x].slot = pass'[e].slot
          => x = e
    BY <1>1, <1>2 DEF PassesApart
  <2> QED BY <2>1, <2>2 DEF PassesApart
<1>6. FewLost'
  <2>1. PICK slot : slot = pass[c].slot
    OBVIOUS
  <2>2. PICK L, M : L = claimed \ (started \cup Timed!Held') /\ M = claimed \ (started \cup Timed!Held)
    OBVIOUS
  <2>3. IsFiniteSet(M) /\ IsFiniteSet(claimed) /\ Cardinality(M) \in Nat /\ Cardinality(M) <= faults
    BY <1>1, <2>2, FS_Subset, FS_CardinalityType DEF FewLost
  <2>4. \A x : x \in Timed!Held => x \in Timed!Held' \/ (x = slot /\ slot # None)
    BY <1>2, <2>1 DEF Timed!Held, Timed!InPass, Timed!Between
  <2>5. CASE faults' = faults /\ slot = None
    <3>1. L \subseteq M
      BY <2>2, <2>4, <2>5
    <3>2. Cardinality(L) <= Cardinality(M) /\ Cardinality(L) \in Nat
      BY <2>3, <3>1, FS_Subset, FS_CardinalityType
    <3>3. Cardinality(L) <= faults'
      BY <1>1, <2>3, <2>5, <3>2
    <3> QED BY <2>2, <2>3, <3>3 DEF FewLost
  <2>6. CASE faults' = faults + 1
    <3>1. L \subseteq M \cup {slot}
      BY <2>2, <2>4
    <3>2. IsFiniteSet(M \cup {slot}) /\ Cardinality(M \cup {slot}) <= Cardinality(M) + 1
      <4>1. IsFiniteSet(M \cup {slot})
            /\ Cardinality(M \cup {slot}) = IF slot \in M THEN Cardinality(M) ELSE Cardinality(M) + 1
        BY <2>3, FS_AddElement
      <4> QED BY <2>3, <4>1
    <3>3. /\ Cardinality(L) <= Cardinality(M \cup {slot}) /\ Cardinality(L) \in Nat
          /\ Cardinality(M \cup {slot}) \in Nat
      BY <3>1, <3>2, FS_Subset, FS_CardinalityType
    <3>4. Cardinality(L) <= faults'
      BY <1>1, <2>3, <2>6, <3>2, <3>3
    <3> QED BY <2>2, <2>3, <3>4 DEF FewLost
  <2> QED BY <2>1, <2>5, <2>6
<1> QED BY <1>3, <1>4, <1>5, <1>6 DEF SchedInv, SlotInv

LEMMA EndingKeepsSlots ==
  ASSUME Timed!Given, SchedInv, NEW c \in Copies, Timed!EndPass(c) \/ Timed!CutPass(c)
  PROVE  SchedInv'
<1>1. flowLock \in Copies \cup {None} /\ faults \in 0..MaxCuts /\ MaxCuts \in Nat
  BY DEF SchedInv, SlotInv, SchedTyped, Timed!Given
<1>2. CASE Timed!EndPass(c)
  <2>1. /\ pass[c] # None /\ pass[c].slot = None /\ pass' = [pass EXCEPT ![c] = None] /\ faults' = faults
        /\ UNCHANGED <<clock, setting, rows, panel, requests, claimed, started, again>>
        /\ flowLock' \in Copies \cup {None}
    BY <1>1, <1>2 DEF Timed!EndPass, Timed!Between, Timed!InPass, Timed!bounds, Timed!history
  <2> QED BY <1>1, <2>1, PassEnds
<1>3. CASE Timed!CutPass(c)
  <2>1. /\ pass[c] # None /\ pass' = [pass EXCEPT ![c] = None] /\ faults' = faults + 1 /\ faults' \in 0..MaxCuts
        /\ UNCHANGED <<clock, setting, rows, panel, requests, claimed, started, again>>
        /\ flowLock' \in Copies \cup {None}
    BY <1>1, <1>3 DEF Timed!CutPass, Timed!InPass, Timed!history
  <2> QED BY <2>1, PassEnds
<1> QED BY <1>2, <1>3

LEMMA LoseKeepsSlots ==
  ASSUME Timed!Given, SchedInv, NEW c \in Copies, Timed!LoseLock(c)
  PROVE  SchedInv'
<1>1. /\ SchedTyped /\ RowsMoveOn /\ SavesAreNew /\ PassesApart /\ FewLost /\ RowsFit
      /\ faults \in 0..MaxCuts /\ MaxCuts \in Nat
  BY DEF SchedInv, SlotInv, SchedTyped, Timed!Given
<1>2. /\ flowLock' = None /\ faults' = faults + 1 /\ faults < MaxCuts
      /\ UNCHANGED <<clock, setting, rows, pass, panel, requests, claimed, started, again>>
  BY DEF Timed!LoseLock, Timed!history
<1>3. SchedTyped'
  BY <1>1, <1>2 DEF SchedTyped
<1>4. RowsMoveOn' /\ SavesAreNew' /\ RowsFit'
  BY <1>1, <1>2, RowsStay
<1>5. PassesApart'
  BY <1>1, <1>2 DEF PassesApart
<1>6. Timed!Held' = Timed!Held
  BY <1>2 DEF Timed!Held, Timed!InPass, Timed!Between
<1>7. PICK M : M = claimed \ (started \cup Timed!Held)
  OBVIOUS
<1>8. IsFiniteSet(M) /\ Cardinality(M) \in Nat /\ Cardinality(M) <= faults /\ IsFiniteSet(claimed)
  BY <1>1, <1>7, FS_Subset, FS_CardinalityType DEF FewLost
<1>9. Cardinality(M) <= faults'
  BY <1>1, <1>2, <1>8
<1>10. FewLost'
  BY <1>2, <1>6, <1>7, <1>8, <1>9 DEF FewLost
<1> QED BY <1>3, <1>4, <1>5, <1>10 DEF SchedInv, SlotInv

LEMMA SchedStep == ASSUME Timed!Given, SchedInv, [Timed!Next]_(Timed!vars) PROVE SchedInv'
<1>1. CASE Timed!Next
  <2>1. CASE Timed!Tick \/ Timed!ChangeSettings
    BY <2>1, TickKeeps, SettingKeeps
  <2>2. ASSUME NEW a \in Panels, Timed!AskSchedule(a) \/ Timed!SaveSchedule(a) PROVE SchedInv'
    BY <2>2, AskKeeps, SaveKeeps
  <2>3. ASSUME NEW f \in Flows, Timed!RemoveSchedule(f) PROVE SchedInv'
    BY <2>3, RemoveKeeps
  <2>4. ASSUME NEW c \in Copies, Timed!Working(c) \/ Timed!CutPass(c) \/ Timed!LoseLock(c) PROVE SchedInv'
    BY <2>4, StartPassKeeps, ClaimKeepsSlots, StartFlowKeeps, EndingKeepsSlots, LoseKeepsSlots DEF Timed!Working
  <2> QED BY <1>1, <2>1, <2>2, <2>3, <2>4 DEF Timed!Next
<1>2. CASE UNCHANGED Timed!vars
  <2>1. /\ SchedTyped /\ RowsMoveOn /\ SavesAreNew /\ PassesApart /\ FewLost /\ RowsFit
    BY DEF SchedInv, SlotInv
  <2>2. UNCHANGED <<clock, setting, rows, flowLock, pass, panel, requests, faults, claimed, started, again>>
    BY <1>2 DEF Timed!vars, Timed!bounds, Timed!history
  <2>3. SchedTyped'
    BY <2>1, <2>2 DEF SchedTyped
  <2>4. RowsMoveOn' /\ SavesAreNew' /\ RowsFit'
    BY <2>1, <2>2, RowsStay
  <2>5. PassesApart' /\ FewLost'
    BY <2>1, <2>2, PassesStay
  <2> QED BY <2>3, <2>4, <2>5 DEF SchedInv, SlotInv
<1> QED BY <1>1, <1>2

-----------------------------------------------------------------------------
(* What holds of the timers *)

LEMMA SlotsCounted == ASSUME NEW S PROVE Timed!Cardinality(S) = Cardinality(S)
BY DEF Timed!Cardinality, Cardinality

LEMMA SchedInvHolds == ASSUME Timed!Given PROVE Timed!Spec => []SchedInv
<1>1. Timed!Init => SchedInv
  BY SchedFirst
<1>2. SchedInv /\ [Timed!Next]_(Timed!vars) => SchedInv'
  BY SchedStep
<1> QED BY <1>1, <1>2, PTL DEF Timed!Spec

\* A slot that a pass has claimed is dealt with once, and one is lost only with a pass that was cut off, or that
\* lost the job lock.
LEMMA OncePerSlotHolds == ASSUME Timed!Given PROVE Timed!Spec => []Timed!OncePerSlot
<1>1. SchedInv => Timed!OncePerSlot
  BY SlotsCounted DEF SchedInv, SlotInv, SchedTyped, FewLost, Timed!OncePerSlot
<1> QED BY <1>1, SchedInvHolds, PTL

\* The next run of a schedule that is on is the first moment of its cadence after it was computed.
LEMMA NoMomentLostHolds == ASSUME Timed!Given PROVE Timed!Spec => []Timed!NoMomentLost
<1>1. ASSUME SchedInv PROVE Timed!NoMomentLost
  <2>1. \A f \in Flows : rows[f] # None => (rows[f].active => Fits(rows[f].next, rows[f].why))
    BY <1>1 DEF SchedInv, RowsFit
  <2> QED BY <2>1 DEF Timed!NoMomentLost, Timed!Active, Fits
<1> QED BY <1>1, SchedInvHolds, PTL

\* Each of the flows on a timer is started once for every moment of its cadence: no slot is dealt with twice, one is
\* lost only with a fault, and the next run is the first that fits.
THEOREM EachMomentOnceHolds == Timed!Spec => []EachMomentOnce
<1>1. Timed!OncePerSlot /\ Timed!NoMomentLost => EachMomentOnce
  BY DEF EachMomentOnce
<1> QED BY TimedGiven, <1>1, OncePerSlotHolds, NoMomentLostHolds, PTL

\* The clock, the rows, the passes and the panel of the timed flows are what they are meant to be.
THEOREM SchedTyping == Timed!Spec => []Timed!TypeOK
<1>1. ASSUME SchedInv PROVE Timed!TypeOK
  <2>1. /\ clock \in 0..MaxClock /\ setting \in Settings /\ flowLock \in Copies \cup {None}
        /\ \A f \in Flows : rows[f] \in Timed!Row \cup {None}
        /\ requests \in 0..MaxSaves /\ faults \in 0..MaxCuts
        /\ claimed \cup started \subseteq Timed!Slots /\ again \subseteq started
    BY <1>1 DEF SchedInv, SlotInv, SchedTyped
  <2>2. \A a \in Panels : panel[a] # None => panel[a].flow \in Flows /\ panel[a].row \in Timed!Row
    BY <1>1 DEF SchedInv, SlotInv, SchedTyped, Offers
  <2>3. ASSUME NEW c \in Copies, pass[c] # None
        PROVE  /\ pass[c].now \in 0..clock
               /\ \A d \in pass[c].due : d.flow \in Flows /\ d.row \in Timed!Row
               /\ pass[c].slot \in Timed!Slots \cup {None}
    <3>1. pass[c] \in Timed!Passes /\ pass[c].now <= clock /\ clock \in Nat
      BY <1>1, <2>3 DEF SchedInv, SlotInv, SchedTyped, PassesApart
    <3> QED BY <3>1 DEF Timed!Passes
  <2> QED BY <2>1, <2>2, <2>3 DEF Timed!TypeOK
<1> QED BY TimedGiven, <1>1, SchedInvHolds, PTL

-----------------------------------------------------------------------------
(* Chains of flows *)

Stacks == [Starts -> Seq(Chained!Frames)]
Chosen == [flow : Linked, after : Linked \cup {None}, replaced : BOOLEAN]

\* The constants and the variables have the types the steps rely on.
ChainTyped ==
  /\ depth \in Nat
  /\ on \subseteq Linked
  /\ needs \in [Linked -> Chained!Needs]
  /\ timed \subseteq Linked
  /\ after \in [Linked -> Linked \cup {None}]
  /\ choice \in [Linkers -> Chosen \cup {None}]
  /\ stack \in Stacks
  /\ choices \in 0..MaxChoices /\ edits \in 0..MaxEdits /\ runs \in 0..MaxRuns
  /\ raced \in BOOLEAN

\* A chain in which every flow is another one, not longer than the limit.
Cut(q) ==
  /\ \A i, j \in DOMAIN q : q[i].flow = q[j].flow => i = j
  /\ Len(q) <= depth + 1

ChainInv == ChainTyped /\ depth \in Depths /\ \A s \in Starts : Cut(stack[s])

\* What a step does to one chain.
LEMMA FrontStays ==
  ASSUME NEW q \in Seq(Chained!Frames), Cut(q), depth \in Nat, q # <<>>
  PROVE  Chained!Front(q) \in Seq(Chained!Frames) /\ Cut(Chained!Front(q))
<1>1. Len(q) \in Nat /\ Len(q) > 0 /\ DOMAIN q = 1..Len(q)
  OBVIOUS
<1>2. /\ Chained!Front(q) \in Seq(Chained!Frames) /\ Len(Chained!Front(q)) = Len(q) - 1
      /\ \A i \in 1..(Len(q) - 1) : Chained!Front(q)[i] = q[i]
  BY <1>1 DEF Chained!Front
<1>3. DOMAIN Chained!Front(q) = 1..(Len(q) - 1)
  BY <1>2
<1> QED BY <1>1, <1>2, <1>3 DEF Cut

LEMMA KidsStay ==
  ASSUME NEW q \in Seq(Chained!Frames), Cut(q), depth \in Nat, q # <<>>, NEW kids \in {None} \cup SUBSET Chained!Kids
  PROVE  [q EXCEPT ![Len(q)].kids = kids] \in Seq(Chained!Frames) /\ Cut([q EXCEPT ![Len(q)].kids = kids])
         /\ Len([q EXCEPT ![Len(q)].kids = kids]) = Len(q)
         /\ \A i \in DOMAIN q : [q EXCEPT ![Len(q)].kids = kids][i].flow = q[i].flow
<1>1. Len(q) \in Nat /\ Len(q) > 0 /\ DOMAIN q = 1..Len(q) /\ \A i \in 1..Len(q) : q[i] \in Chained!Frames
  OBVIOUS
<1>2. PICK r : r = [q[Len(q)] EXCEPT !.kids = kids]
  OBVIOUS
<1>3. r \in Chained!Frames /\ r.flow = q[Len(q)].flow
  BY <1>1, <1>2 DEF Chained!Frames
<1>4. PICK t : t = [q EXCEPT ![Len(q)] = r]
  OBVIOUS
<1>5. t \in Seq(Chained!Frames) /\ Len(t) = Len(q) /\ DOMAIN t = 1..Len(q)
      /\ \A i \in 1..Len(q) : t[i] = IF i = Len(q) THEN r ELSE q[i]
  BY <1>1, <1>3, <1>4
<1>6. \A i \in DOMAIN q : t[i].flow = q[i].flow
  BY <1>1, <1>3, <1>5
<1>7. Cut(t)
  BY <1>1, <1>5, <1>6 DEF Cut
<1>8. t = [q EXCEPT ![Len(q)].kids = kids]
  BY <1>2, <1>4
<1> QED BY <1>5, <1>6, <1>7, <1>8

LEMMA AppendStays ==
  ASSUME NEW q \in Seq(Chained!Frames), Cut(q), depth \in Nat, NEW r \in Chained!Frames, Len(q) <= depth,
         \A i \in DOMAIN q : q[i].flow # r.flow
  PROVE  Append(q, r) \in Seq(Chained!Frames) /\ Cut(Append(q, r))
<1>1. Len(q) \in Nat /\ DOMAIN q = 1..Len(q)
  OBVIOUS
<1>2. PICK t : t = Append(q, r)
  OBVIOUS
<1>3. t \in Seq(Chained!Frames) /\ Len(t) = Len(q) + 1 /\ DOMAIN t = 1..(Len(q) + 1)
      /\ \A i \in 1..(Len(q) + 1) : t[i] = IF i <= Len(q) THEN q[i] ELSE r
  BY <1>1, <1>2
<1>4. Cut(t)
  BY <1>1, <1>3 DEF Cut
<1> QED BY <1>2, <1>3, <1>4

LEMMA OneFrame ==
  ASSUME NEW r \in Chained!Frames, depth \in Nat
  PROVE  <<r>> \in Seq(Chained!Frames) /\ Cut(<<r>>)
<1>1. PICK t : t = <<r>>
  OBVIOUS
<1>2. t \in Seq(Chained!Frames) /\ Len(t) = 1 /\ DOMAIN t = 1..1
  BY <1>1
<1>3. \A i \in DOMAIN t : i = 1
  BY <1>2
<1>4. Cut(t)
  BY <1>2, <1>3 DEF Cut
<1> QED BY <1>1, <1>2, <1>4

LEMMA NoFrames == ASSUME depth \in Nat PROVE <<>> \in Seq(Chained!Frames) /\ Cut(<<>>)
<1>1. PICK t : t = <<>>
  OBVIOUS
<1>2. t \in Seq(Chained!Frames) /\ Len(t) = 0 /\ DOMAIN t = {}
  BY <1>1
<1> QED BY <1>1, <1>2 DEF Cut

\* One chain changes for another that is cut.
LEMMA OneChain ==
  ASSUME ChainInv, NEW s \in Starts, NEW q \in Seq(Chained!Frames), Cut(q), stack' = [stack EXCEPT ![s] = q],
         depth' = depth
  PROVE  stack' \in Stacks /\ \A t \in Starts : Cut(stack[t])'
<1>1. stack \in [Starts -> Seq(Chained!Frames)] /\ \A t \in Starts : Cut(stack[t])
  BY DEF ChainInv, ChainTyped, Stacks
<1>2. stack' \in Stacks /\ \A t \in Starts : stack'[t] = IF t = s THEN q ELSE stack[t]
  BY <1>1 DEF Stacks
<1>3. ASSUME NEW t \in Starts PROVE Cut(stack[t])'
  <2>1. PICK w : w = stack'[t]
    OBVIOUS
  <2>2. Cut(w)
    BY <1>1, <1>2, <2>1
  <2> QED BY <2>1, <2>2 DEF Cut
<1> QED BY <1>2, <1>3

LEMMA AsItIsTyped ==
  ASSUME ChainTyped, NEW f \in Linked
  PROVE  Chained!AsItIs(f) \in Chained!Kids /\ Chained!Alone(Chained!AsItIs(f)) \in Chained!Frames
         /\ Chained!Alone(Chained!AsItIs(f)).flow = f
BY DEF ChainTyped, Chained!AsItIs, Chained!Kids, Chained!Alone, Chained!Frames

LEMMA AloneTyped ==
  ASSUME NEW k \in Chained!Kids
  PROVE  Chained!Alone(k) \in Chained!Frames /\ Chained!Alone(k).flow = k.flow
BY DEF Chained!Kids, Chained!Alone, Chained!Frames

-----------------------------------------------------------------------------
(* The steps *)

\* What the panel's steps leave: the chains.
LEMMA ChainsAlone ==
  ASSUME ChainInv, UNCHANGED <<depth, stack>>,
         (on \subseteq Linked /\ needs \in [Linked -> Chained!Needs] /\ timed \subseteq Linked
          /\ after \in [Linked -> Linked \cup {None}] /\ choice \in [Linkers -> Chosen \cup {None}]
          /\ choices \in 0..MaxChoices /\ edits \in 0..MaxEdits /\ runs \in 0..MaxRuns /\ raced \in BOOLEAN)'
  PROVE  ChainInv'
BY DEF ChainInv, ChainTyped, Stacks, Cut

LEMMA PanelKeeps ==
  ASSUME Chained!Given, ChainInv, NEW a \in Linkers, Chained!Choosing(a)
  PROVE  ChainInv'
<1>1. /\ depth \in Nat /\ on \subseteq Linked /\ needs \in [Linked -> Chained!Needs] /\ timed \subseteq Linked
      /\ after \in [Linked -> Linked \cup {None}] /\ choice \in [Linkers -> Chosen \cup {None}]
      /\ choices \in 0..MaxChoices /\ edits \in 0..MaxEdits /\ runs \in 0..MaxRuns /\ raced \in BOOLEAN
      /\ MaxChoices \in Nat
  BY DEF ChainInv, ChainTyped, Chained!Given
<1>2. CASE Chained!AskTrigger(a)
  <2>1. PICK f \in Linked, p \in Linked \cup {None} :
          /\ choices < MaxChoices /\ choices' = choices + 1
          /\ choice' = [choice EXCEPT ![a] = [flow |-> f, after |-> p, replaced |-> FALSE]]
          /\ raced' = (raced \/ \E b \in Linkers : choice[b] # None)
          /\ UNCHANGED <<depth, on, needs, timed, after, stack, edits, runs>>
    BY <1>2 DEF Chained!AskTrigger
  <2>2. [flow |-> f, after |-> p, replaced |-> FALSE] \in Chosen
    BY DEF Chosen
  <2>3. choice' \in [Linkers -> Chosen \cup {None}]
    BY <1>1, <2>1, <2>2
  <2>4. choices' \in 0..MaxChoices
    BY <1>1, <2>1
  <2>5. PICK b \in BOOLEAN : b = (raced \/ \E d \in Linkers : choice[d] # None)
    BY <1>1
  <2>6. raced' \in BOOLEAN
    BY <2>1, <2>5
  <2> QED BY <1>1, <2>1, <2>3, <2>4, <2>6, ChainsAlone
<1>3. CASE Chained!Replace(a)
  <2>1. choice[a] \in Chosen
    BY <1>1, <1>3 DEF Chained!Replace, Chained!Asked
  <2>2. choice[a].flow \in Linked /\ [choice[a] EXCEPT !.replaced = TRUE] \in Chosen
    BY <2>1 DEF Chosen
  <2>3. choice' = [choice EXCEPT ![a] = [choice[a] EXCEPT !.replaced = TRUE]]
    BY <1>3 DEF Chained!Replace
  <2>4. choice' \in [Linkers -> Chosen \cup {None}]
    BY <1>1, <2>2, <2>3
  <2>5. after' \in [Linked -> Linked \cup {None}] /\ timed' \subseteq Linked
    BY <1>1, <1>3, <2>2 DEF Chained!Replace
  <2>6. UNCHANGED <<depth, on, needs, stack, choices, edits, runs, raced>>
    BY <1>3 DEF Chained!Replace, Chained!bounds
  <2> QED BY <1>1, <2>4, <2>5, <2>6, ChainsAlone
<1>4. CASE Chained!SaveTrigger(a)
  <2>1. choice[a] \in Chosen
    BY <1>1, <1>4 DEF Chained!SaveTrigger, Chained!Asked
  <2>2. choice[a].flow \in Linked /\ choice[a].after \in Linked \cup {None}
    BY <2>1 DEF Chosen
  <2>3. choice' \in [Linkers -> Chosen \cup {None}]
    BY <1>1, <1>4 DEF Chained!SaveTrigger
  <2>4. after' \in [Linked -> Linked \cup {None}] /\ timed' \subseteq Linked
    BY <1>1, <1>4, <2>2 DEF Chained!SaveTrigger
  <2>5. UNCHANGED <<depth, on, needs, stack, choices, edits, runs, raced>>
    BY <1>4 DEF Chained!SaveTrigger, Chained!bounds
  <2> QED BY <1>1, <2>3, <2>4, <2>5, ChainsAlone
<1>5. CASE Chained!CutRequest(a)
  <2>1. choice' \in [Linkers -> Chosen \cup {None}]
    BY <1>1, <1>5 DEF Chained!CutRequest
  <2>2. UNCHANGED <<depth, on, needs, timed, after, stack, choices, edits, runs, raced>>
    BY <1>5 DEF Chained!CutRequest, Chained!bounds
  <2> QED BY <1>1, <2>1, <2>2, ChainsAlone
<1> QED BY <1>2, <1>3, <1>4, <1>5 DEF Chained!Choosing

LEMMA EditorKeeps ==
  ASSUME Chained!Given, ChainInv, NEW f \in Linked, Chained!Editing(f)
  PROVE  ChainInv'
<1>1. /\ depth \in Nat /\ on \subseteq Linked /\ needs \in [Linked -> Chained!Needs] /\ timed \subseteq Linked
      /\ after \in [Linked -> Linked \cup {None}] /\ choice \in [Linkers -> Chosen \cup {None}]
      /\ choices \in 0..MaxChoices /\ edits \in 0..MaxEdits /\ runs \in 0..MaxRuns /\ raced \in BOOLEAN
      /\ MaxEdits \in Nat
  BY DEF ChainInv, ChainTyped, Chained!Given
<1>2. edits' \in 0..MaxEdits /\ UNCHANGED <<depth, stack, choice, choices, runs, raced>>
  BY <1>1 DEF Chained!Editing, Chained!RemoveTrigger, Chained!EditFlow, Chained!SwitchFlow, Chained!Edit
<1>3. CASE Chained!RemoveTrigger(f)
  <2>1. timed' \subseteq Linked /\ after' \in [Linked -> Linked \cup {None}] /\ UNCHANGED <<on, needs>>
    BY <1>1, <1>3 DEF Chained!RemoveTrigger
  <2> QED BY <1>1, <1>2, <2>1, ChainsAlone
<1>4. CASE Chained!EditFlow(f)
  <2>1. needs' \in [Linked -> Chained!Needs] /\ UNCHANGED <<on, timed, after>>
    BY <1>1, <1>4 DEF Chained!EditFlow
  <2> QED BY <1>1, <1>2, <2>1, ChainsAlone
<1>5. CASE Chained!SwitchFlow(f)
  <2>1. on' \subseteq Linked /\ UNCHANGED <<needs, timed, after>>
    BY <1>1, <1>5 DEF Chained!SwitchFlow
  <2> QED BY <1>1, <1>2, <2>1, ChainsAlone
<1> QED BY <1>3, <1>4, <1>5 DEF Chained!Editing

\* What a step of a run leaves as it was.
LEMMA ChainMoves ==
  ASSUME ChainInv, NEW s \in Starts, NEW q \in Seq(Chained!Frames), Cut(q), stack' = [stack EXCEPT ![s] = q],
         UNCHANGED <<depth, on, needs, timed, after, choice, choices, edits, raced>>, runs' \in 0..MaxRuns
  PROVE  ChainInv'
<1>1. stack' \in Stacks /\ \A t \in Starts : Cut(stack[t])'
  BY OneChain
<1> QED BY <1>1 DEF ChainInv, ChainTyped, Stacks

LEMMA StartKeeps ==
  ASSUME Chained!Given, ChainInv, NEW s \in Starts, NEW f \in Linked, Chained!RunBySchedule(s,
         f) \/ Chained!RunInChat(s, f)
  PROVE  ChainInv'
<1>1. ChainTyped /\ depth \in Nat /\ runs \in 0..MaxRuns /\ MaxRuns \in Nat
  BY DEF ChainInv, ChainTyped, Chained!Given
<1>2. /\ UNCHANGED <<depth, on, needs, timed, after, choice, choices, edits, raced>>
      /\ runs' \in 0..MaxRuns
  BY <1>1 DEF Chained!RunBySchedule, Chained!RunInChat
<1>3. CASE Chained!RunBySchedule(s, f)
  <2>1. PICK r : r = Chained!Alone(Chained!AsItIs(f))
    OBVIOUS
  <2>2. r \in Chained!Frames
    BY <1>1, <2>1, AsItIsTyped
  <2>3. stack' = [stack EXCEPT ![s] = <<r>>]
    BY <1>3, <2>1 DEF Chained!RunBySchedule
  <2> QED BY <1>1, <1>2, <2>2, <2>3, OneFrame, ChainMoves
<1>4. CASE Chained!RunInChat(s, f)
  <2>1. PICK r : r = [flow |-> f, alone |-> FALSE, ends |-> TRUE, kids |-> None]
    OBVIOUS
  <2>2. r \in Chained!Frames
    BY <2>1 DEF Chained!Frames
  <2>3. stack' = [stack EXCEPT ![s] = <<r>>]
    BY <1>4, <2>1 DEF Chained!RunInChat
  <2> QED BY <1>1, <1>2, <2>2, <2>3, OneFrame, ChainMoves
<1> QED BY <1>3, <1>4

LEMMA RunKeeps ==
  ASSUME Chained!Given, ChainInv, NEW s \in Starts, Chained!Going(s) \/ Chained!CutRun(s)
  PROVE  ChainInv'
<1> DEFINE q == stack[s]
<1>1. ChainTyped /\ depth \in Nat /\ runs \in 0..MaxRuns /\ q \in Seq(Chained!Frames) /\ Cut(q)
        /\ stack \in [Starts -> Seq(Chained!Frames)]
  BY DEF ChainInv, ChainTyped, Stacks
<1>2. UNCHANGED <<depth, on, needs, timed, after, choice, choices, edits, raced>> /\ runs' = runs
  BY DEF Chained!Going, Chained!StepsDone, Chained!StepsFail, Chained!NextKid, Chained!KidsDone, Chained!CutRun,
         Chained!bounds
<1>3. q # <<>>
  BY DEF Chained!Going, Chained!StepsDone, Chained!StepsFail, Chained!NextKid, Chained!KidsDone, Chained!CutRun,
         Chained!InSteps, Chained!Following
<1>4. CASE Chained!StepsDone(s)
  <2>1. PICK kids : kids = {Chained!AsItIs(k) : k \in {f \in Linked : after[f] = Chained!Deepest(s).flow}}
    OBVIOUS
  <2>2. kids \in SUBSET Chained!Kids
    BY <1>1, <2>1, AsItIsTyped
  <2>3. stack' = [stack EXCEPT ![s] = [q EXCEPT ![Len(q)].kids = kids]]
    BY <1>4, <2>1 DEF Chained!StepsDone
  <2>4. PICK t : t = [q EXCEPT ![Len(q)].kids = kids]
    OBVIOUS
  <2>5. t \in Seq(Chained!Frames) /\ Cut(t)
    BY <1>1, <1>3, <2>2, <2>4, KidsStay
  <2> QED BY <1>1, <1>2, <2>3, <2>4, <2>5, ChainMoves
<1>5. CASE Chained!StepsFail(s) \/ Chained!KidsDone(s)
  <2>1. stack' = [stack EXCEPT ![s] = Chained!Front(q)]
    BY <1>5 DEF Chained!StepsFail, Chained!KidsDone
  <2> QED BY <1>1, <1>2, <1>3, <2>1, FrontStays, ChainMoves
<1>6. CASE Chained!NextKid(s)
  <2>1. PICK k \in Chained!Deepest(s).kids :
          stack' = [stack EXCEPT ![s] =
            IF Chained!DepthLeft(s) /\ Chained!MayRun(s, k)
            THEN Append([q EXCEPT ![Len(q)].kids = @ \ {k}], Chained!Alone(k))
                   ELSE [q EXCEPT ![Len(q)].kids = @ \ {k}]]
    BY <1>6 DEF Chained!NextKid
  <2>2. Len(q) \in Nat /\ Len(q) > 0 /\ q[Len(q)] \in Chained!Frames /\ Chained!Deepest(s) = q[Len(q)]
          /\ Chained!Deepest(s).kids # None
    BY <1>1, <1>3, <1>6 DEF Chained!NextKid, Chained!Following, Chained!InSteps, Chained!Deepest, Chained!Last
  <2>3. Chained!Deepest(s).kids \in SUBSET Chained!Kids
    BY <2>2 DEF Chained!Frames
  <2>4. k \in Chained!Kids
    BY <2>1, <2>3
  <2>5. PICK kids : kids = q[Len(q)].kids \ {k}
    OBVIOUS
  <2>6. kids \in SUBSET Chained!Kids
    BY <2>2, <2>3, <2>5
  <2>7. PICK t : t = [q EXCEPT ![Len(q)].kids = kids]
    OBVIOUS
  <2>8. [q EXCEPT ![Len(q)].kids = @ \ {k}] = t
    BY <1>1, <2>2, <2>5, <2>7
  <2>9. t \in Seq(Chained!Frames) /\ Cut(t) /\ Len(t) = Len(q) /\ \A i \in DOMAIN q : t[i].flow = q[i].flow
    BY <1>1, <1>3, <2>6, <2>7, KidsStay
  <2>10. CASE Chained!DepthLeft(s) /\ Chained!MayRun(s, k)
    <3>1. Len(t) <= depth
      BY <2>9, <2>10 DEF Chained!DepthLeft
    <3>2. DOMAIN t = DOMAIN q
      BY <1>1, <2>9
    <3>3. \A i \in DOMAIN t : t[i].flow # Chained!Alone(k).flow
      BY <2>4, <2>9, <2>10, <3>2, AloneTyped DEF Chained!MayRun, Chained!InChain
    <3>4. PICK r : r = Chained!Alone(k)
      OBVIOUS
    <3>5. r \in Chained!Frames
      BY <2>4, <3>4, AloneTyped
    <3>6. Append(t, r) \in Seq(Chained!Frames) /\ Cut(Append(t, r))
      BY <1>1, <2>9, <3>1, <3>3, <3>4, <3>5, AppendStays
    <3>7. stack' = [stack EXCEPT ![s] = Append(t, r)]
      BY <2>1, <2>8, <2>10, <3>4
    <3> QED BY <1>1, <1>2, <3>6, <3>7, ChainMoves
  <2>11. CASE ~(Chained!DepthLeft(s) /\ Chained!MayRun(s, k))
    <3>1. stack' = [stack EXCEPT ![s] = t]
      BY <2>1, <2>8, <2>11
    <3> QED BY <1>1, <1>2, <2>9, <3>1, ChainMoves
  <2> QED BY <2>10, <2>11
<1>7. CASE Chained!CutRun(s)
  <2>1. stack' = [stack EXCEPT ![s] = <<>>]
    BY <1>7 DEF Chained!CutRun
  <2> QED BY <1>1, <1>2, <2>1, NoFrames, ChainMoves
<1> QED BY <1>4, <1>5, <1>6, <1>7 DEF Chained!Going

LEMMA ChainStep == ASSUME Chained!Given, ChainInv, [Chained!Next]_(Chained!vars) PROVE ChainInv'
<1>1. CASE Chained!Next
  BY <1>1, PanelKeeps, EditorKeeps, StartKeeps, RunKeeps DEF Chained!Next
<1>2. CASE UNCHANGED Chained!vars
  <2>1. (depth' = depth /\ stack' = stack /\ on' = on /\ needs' = needs /\ timed' = timed /\ after' = after
        /\ choice' = choice /\ choices' = choices /\ edits' = edits /\ runs' = runs /\ raced' = raced)
    BY <1>2 DEF Chained!vars, Chained!bounds
  <2> QED BY <2>1 DEF ChainInv, ChainTyped, Stacks, Cut
<1> QED BY <1>1, <1>2

LEMMA ChainFirst == ASSUME Chained!Given, Chained!Init PROVE ChainInv
<1>1. depth \in Nat /\ depth \in Depths
  BY DEF Chained!Given, Chained!Init
<1>2. <<>> \in Seq(Chained!Frames) /\ Cut(<<>>)
  BY <1>1, NoFrames
<1>3. stack \in Stacks /\ \A s \in Starts : stack[s] = <<>>
  BY <1>2 DEF Chained!Init, Stacks
<1>4. \A s \in Starts : Cut(stack[s])
  BY <1>2, <1>3
<1>5. on \subseteq Linked /\ needs \in [Linked -> Chained!Needs] /\ timed \subseteq Linked
  BY DEF Chained!Init, Chained!Needs
<1>6. after \in [Linked -> Linked \cup {None}] /\ choice \in [Linkers -> Chosen \cup {None}] /\ raced \in BOOLEAN
  BY DEF Chained!Init
<1>7. choices \in 0..MaxChoices /\ edits \in 0..MaxEdits /\ runs \in 0..MaxRuns
  BY DEF Chained!Init, Chained!Given
<1> QED BY <1>1, <1>3, <1>4, <1>5, <1>6, <1>7 DEF ChainInv, ChainTyped

LEMMA ChainInvCuts == ASSUME ChainInv PROVE Chained!ChainIsCut
<1>1. \A s \in Starts : Cut(stack[s])
  BY DEF ChainInv
<1>2. ASSUME NEW s \in Starts
      PROVE Chained!IsInjective([i \in DOMAIN stack[s] |-> stack[s][i].flow]) /\ Len(stack[s]) <= depth + 1
  BY <1>1 DEF Cut, Chained!IsInjective
<1> QED BY <1>2 DEF Chained!ChainIsCut

LEMMA ChainInvHolds == ASSUME Chained!Given PROVE Chained!Spec => []ChainInv
<1>1. Chained!Init => ChainInv
  BY ChainFirst
<1>2. ChainInv /\ [Chained!Next]_(Chained!vars) => ChainInv'
  BY ChainStep
<1> QED BY <1>1, <1>2, PTL DEF Chained!Spec

\* The flows, their links and the runs are what they are meant to be.
THEOREM ChainTyping == Chained!Spec => []Chained!TypeOK
<1>1. ASSUME ChainInv PROVE Chained!TypeOK
  <2>1. stack \in [Starts -> Seq(Chained!Frames)] /\ choice \in [Linkers -> Chosen \cup {None}]
    BY <1>1 DEF ChainInv, ChainTyped, Stacks
  <2>2. \A s \in Starts : \A i \in DOMAIN stack[s] : stack[s][i] \in Chained!Frames
    BY <2>1
  <2> QED BY <1>1, <2>1, <2>2 DEF ChainInv, ChainTyped, Chosen, Chained!TypeOK
<1> QED BY ChainedGiven, <1>1, ChainInvHolds, PTL

-----------------------------------------------------------------------------
(* Following the links *)

Edges == [Linked -> Linked \cup {None}]
N == Cardinality(Linked)

\* Above, for any links e.
Climb(e, p, f) ==
  LET up[n \in 0..Cardinality(Linked)] ==
        IF n = 0 THEN {p} ELSE up[n - 1] \cup {e[x] : x \in up[n - 1] \ {f, None}}
  IN  up

\* The first k steps of it.
Climbs(g, k, e, p, f) ==
  /\ g \in [0..k -> SUBSET (Linked \cup {None})]
  /\ g[0] = {p}
  /\ \A n \in 1..k : g[n] = g[n - 1] \cup {e[x] : x \in g[n - 1] \ {f, None}}

\* A way of k links from p to f, that comes to f at its end only.
Walk(w, k, e, p, f) ==
  /\ w \in [0..k -> Linked]
  /\ w[0] = p /\ w[k] = f
  /\ \A i \in 0..(k - 1) : w[i] # f /\ w[i + 1] = e[w[i]]

Leads(e, p, f) == \E k \in 0..N : \E w \in [0..k -> Linked] : Walk(w, k, e, p, f)

LEMMA LinkedIsFinite == ASSUME Chained!Given PROVE IsFiniteSet(Linked)
BY DEF Chained!Given, Chained!IsFiniteSet, IsFiniteSet

LEMMA AboveIsClimb ==
  ASSUME NEW p, NEW f
  PROVE  Chained!Above(p, f) = Climb(after, p, f)[N] \ {None}
BY DEF Chained!Above, Climb, N, Chained!Cardinality, Cardinality

LEMMA AboveIsClimbNext ==
  ASSUME NEW p, NEW f
  PROVE  Chained!Above(p, f)' = Climb(after', p, f)[N] \ {None}
BY DEF Chained!Above, Climb, N, Chained!Cardinality, Cardinality

LEMMA SomethingClimbs ==
  ASSUME NEW e \in Edges, NEW p \in Linked, NEW f \in Linked, NEW m \in Nat
  PROVE  \E g : Climbs(g, m, e, p, f)
<1> DEFINE T == {k \in Nat : ~\E g : Climbs(g, k, e, p, f)}
<1>1. SUFFICES ASSUME T # {} PROVE FALSE
  OBVIOUS
<1>2. PICK k \in T : \A y \in T : k <= y
  BY <1>1, LeastNumber
<1>3. CASE k = 0
  <2>1. PICK g : g = [n \in 0..0 |-> {p}]
    OBVIOUS
  <2>2. Climbs(g, 0, e, p, f)
    BY <2>1 DEF Climbs
  <2> QED BY <1>2, <1>3, <2>2
<1>4. CASE k # 0
  <2>1. k \in Nat /\ k - 1 \in Nat /\ k - 1 \notin T
    BY <1>2, <1>4
  <2>2. PICK g : Climbs(g, k - 1, e, p, f)
    BY <2>1
  <2>3. PICK more : more = {e[x] : x \in g[k - 1] \ {f, None}}
    OBVIOUS
  <2>4. /\ g \in [0..(k - 1) -> SUBSET (Linked \cup {None})] /\ g[0] = {p}
        /\ \A n \in 1..(k - 1) : g[n] = g[n - 1] \cup {e[x] : x \in g[n - 1] \ {f, None}}
    BY <2>2 DEF Climbs
  <2>5. g[k - 1] \subseteq Linked \cup {None}
    BY <2>1, <2>4
  <2>6. more \subseteq Linked \cup {None}
    BY <2>3, <2>5 DEF Edges
  <2>7. PICK h : h = [n \in 0..k |-> IF n = k THEN g[k - 1] \cup more ELSE g[n]]
    OBVIOUS
  <2>8. h \in [0..k -> SUBSET (Linked \cup {None})]
    BY <2>1, <2>4, <2>5, <2>6, <2>7
  <2>9. h[0] = {p} /\ \A n \in 0..(k - 1) : h[n] = g[n]
    BY <2>1, <2>4, <2>7
  <2>10. ASSUME NEW n \in 1..k
         PROVE  h[n] = h[n - 1] \cup {e[x] : x \in h[n - 1] \ {f, None}}
    <3>1. n - 1 \in 0..(k - 1) /\ h[n - 1] = g[n - 1]
      BY <2>1, <2>9
    <3>2. CASE n = k
      BY <2>1, <2>3, <2>7, <3>1, <3>2
    <3>3. CASE n # k
      <4>1. n \in 1..(k - 1) /\ h[n] = g[n]
        BY <2>1, <2>9, <3>3
      <4> QED BY <2>4, <3>1, <4>1
    <3> QED BY <3>2, <3>3
  <2>11. Climbs(h, k, e, p, f)
    BY <2>8, <2>9, <2>10 DEF Climbs
  <2> QED BY <1>2, <2>11
<1> QED BY <1>3, <1>4

LEMMA ClimbClimbs ==
  ASSUME IsFiniteSet(Linked), NEW e \in Edges, NEW p \in Linked, NEW f \in Linked
  PROVE  Climbs(Climb(e, p, f), N, e, p, f) /\ N \in Nat
<1>1. N \in Nat
  BY FS_CardinalityType DEF N
<1>2. PICK g : Climbs(g, N, e, p, f)
  BY <1>1, SomethingClimbs
<1>3. g = [n \in 0..N |-> IF n = 0 THEN {p} ELSE g[n - 1] \cup {e[x] : x \in g[n - 1] \ {f, None}}]
  <2>1. PICK h : h = [n \in 0..N |-> IF n = 0 THEN {p} ELSE g[n - 1] \cup {e[x] : x \in g[n - 1] \ {f, None}}]
    OBVIOUS
  <2>2. g \in [0..N -> SUBSET (Linked \cup {None})] /\ g[0] = {p}
        /\ \A n \in 1..N : g[n] = g[n - 1] \cup {e[x] : x \in g[n - 1] \ {f, None}}
    BY <1>2 DEF Climbs
  <2>3. \A n \in 0..N : h[n] = g[n]
    <3> SUFFICES ASSUME NEW n \in 0..N PROVE h[n] = g[n]
      OBVIOUS
    <3>1. CASE n = 0
      BY <1>1, <2>1, <2>2, <3>1
    <3>2. CASE n # 0
      <4>1. n \in 1..N
        BY <1>1, <3>2
      <4>2. h[n] = g[n - 1] \cup {e[x] : x \in g[n - 1] \ {f, None}}
        BY <2>1, <3>2
      <4> QED BY <2>2, <4>1, <4>2
    <3> QED BY <3>1, <3>2
  <2>4. h = g
    BY <2>1, <2>2, <2>3
  <2> QED BY <2>1, <2>4
<1>4. PICK u : u = Climb(e, p, f)
  OBVIOUS
<1>5. u = [n \in 0..N |-> IF n = 0 THEN {p} ELSE u[n - 1] \cup {e[x] : x \in u[n - 1] \ {f, None}}]
  BY <1>3, <1>4 DEF Climb, N
<1>6. /\ DOMAIN u = 0..N
      /\ u[0] = {p}
      /\ \A n \in 1..N : u[n] = u[n - 1] \cup {e[x] : x \in u[n - 1] \ {f, None}}
  BY <1>1, <1>5
<1>7. /\ g \in [0..N -> SUBSET (Linked \cup {None})] /\ g[0] = {p}
      /\ \A n \in 1..N : g[n] = g[n - 1] \cup {e[x] : x \in g[n - 1] \ {f, None}}
  BY <1>2 DEF Climbs
<1>8. \A n \in 0..N : u[n] = g[n]
  <2> DEFINE T == {n \in 0..N : u[n] # g[n]}
  <2>1. SUFFICES ASSUME T # {} PROVE FALSE
    OBVIOUS
  <2>2. T \subseteq Nat
    BY <1>1
  <2>3. PICK n \in T : \A y \in T : n <= y
    BY <2>1, <2>2, LeastNumber
  <2>4. n \in 0..N /\ u[n] # g[n] /\ n # 0
    BY <1>6, <1>7, <2>3
  <2>5. n \in 1..N /\ n - 1 \in 0..N /\ n - 1 \notin T
    BY <1>1, <2>2, <2>3, <2>4
  <2>6. u[n - 1] = g[n - 1]
    BY <2>5
  <2>7. u[n] = g[n]
    BY <1>6, <1>7, <2>5, <2>6
  <2> QED BY <2>4, <2>7
<1>9. u = g
  BY <1>5, <1>7, <1>8
<1> QED BY <1>1, <1>2, <1>4, <1>9

\* What is climbed to is led to, and the other way round.
LEMMA ClimbedIsLed ==
  ASSUME IsFiniteSet(Linked), NEW e \in Edges, NEW p \in Linked, NEW f \in Linked, None \notin Linked,
         NEW u, Climbs(u, N, e, p, f), NEW n \in 0..N, NEW x \in Linked, x \in u[n]
  PROVE  \E k \in 0..n, w \in [0..N -> Linked] :
            w[0] = p /\ w[k] = x /\ \A i \in 0..(k - 1) : w[i] # f /\ w[i + 1] = e[w[i]]
<1> DEFINE Led(m, y) == \E k \in 0..m, w \in [0..N -> Linked] :
             w[0] = p /\ w[k] = y /\ \A i \in 0..(k - 1) : w[i] # f /\ w[i + 1] = e[w[i]]
<1> DEFINE T == {m \in 0..N : \E y \in Linked : y \in u[m] /\ ~Led(m, y)}
<1>1. SUFFICES ASSUME T # {} PROVE FALSE
  OBVIOUS
<1>2. N \in Nat
  BY FS_CardinalityType DEF N
<1>3. T \subseteq Nat
  BY <1>2
<1>4. PICK m \in T : \A y \in T : m <= y
  <2> HIDE DEF T
  <2> QED BY <1>1, <1>3, LeastNumber
<1>5. m \in 0..N
  OBVIOUS
<1>6. PICK y \in Linked : y \in u[m] /\ ~Led(m, y)
  OBVIOUS
<1>7. /\ u \in [0..N -> SUBSET (Linked \cup {None})] /\ u[0] = {p}
      /\ \A j \in 1..N : u[j] = u[j - 1] \cup {e[z] : z \in u[j - 1] \ {f, None}}
  BY DEF Climbs
<1>8. CASE m = 0
  <2>1. y = p
    BY <1>6, <1>7, <1>8
  <2>2. PICK w : w = [i \in 0..N |-> p]
    OBVIOUS
  <2>3. w \in [0..N -> Linked] /\ w[0] = p /\ 0 \in 0..m
    BY <1>2, <1>8, <2>2
  <2>4. \A i \in 0..(0 - 1) : FALSE
    OBVIOUS
  <2>5. Led(m, y)
    BY <2>1, <2>3, <2>4
  <2> QED BY <1>6, <2>5
<1>9. CASE m # 0
  <2>1. m \in 1..N /\ m - 1 \in 0..N /\ m - 1 \notin T
    BY <1>2, <1>3, <1>4, <1>5, <1>9
  <2>2. u[m] = u[m - 1] \cup {e[z] : z \in u[m - 1] \ {f, None}}
    BY <1>7, <2>1
  <2>3. ASSUME NEW z \in Linked, z \in u[m - 1] PROVE Led(m - 1, z)
    BY <2>1, <2>3
  <2>4. CASE y \in u[m - 1]
    <3>1. PICK k \in 0..(m - 1), w \in [0..N -> Linked] :
            w[0] = p /\ w[k] = y /\ \A i \in 0..(k - 1) : w[i] # f /\ w[i + 1] = e[w[i]]
      BY <2>3, <2>4
    <3>2. k \in 0..m
      BY <1>2, <2>1
    <3>3. Led(m, y)
      BY <3>1, <3>2
    <3> QED BY <1>6, <3>3
  <2>5. CASE y \notin u[m - 1]
    <3>1. PICK z \in u[m - 1] : z # f /\ z # None /\ y = e[z]
      BY <1>6, <2>2, <2>5
    <3>2. z \in Linked
      BY <1>7, <2>1, <3>1
    <3>3. PICK k \in 0..(m - 1), w \in [0..N -> Linked] :
            w[0] = p /\ w[k] = z /\ \A i \in 0..(k - 1) : w[i] # f /\ w[i + 1] = e[w[i]]
      BY <2>3, <3>1, <3>2
    <3>4. PICK v : v = [i \in 0..N |-> IF i = k + 1 THEN y ELSE w[i]]
      OBVIOUS
    <3>5. k \in Nat /\ k + 1 \in 0..m /\ k + 1 \in 0..N
      BY <1>2, <2>1
    <3>6. v \in [0..N -> Linked] /\ v[k + 1] = y /\ \A i \in 0..k : v[i] = w[i]
      BY <1>2, <3>4, <3>5
    <3>7. v[0] = p
      BY <3>3, <3>5, <3>6
    <3>8. ASSUME NEW i \in 0..(k + 1 - 1) PROVE v[i] # f /\ v[i + 1] = e[v[i]]
      <4>1. CASE i = k
        BY <3>1, <3>3, <3>5, <3>6, <4>1
      <4>2. CASE i # k
        <5>1. i \in 0..(k - 1) /\ i \in 0..k /\ i + 1 \in 0..k
          BY <3>5, <4>2
        <5> QED BY <3>3, <3>6, <5>1
      <4> QED BY <4>1, <4>2
    <3>9. PICK j : j = k + 1
      OBVIOUS
    <3>10. j \in 0..m /\ v[j] = y /\ \A i \in 0..(j - 1) : v[i] # f /\ v[i + 1] = e[v[i]]
      BY <3>5, <3>6, <3>8, <3>9
    <3>11. Led(m, y)
      BY <3>6, <3>7, <3>10
    <3> QED BY <1>6, <3>11
  <2> QED BY <2>4, <2>5
<1> QED BY <1>8, <1>9

LEMMA LedIsClimbed ==
  ASSUME IsFiniteSet(Linked), NEW e \in Edges, NEW p \in Linked, NEW f \in Linked, None \notin Linked,
         NEW u, Climbs(u, N, e, p, f), NEW k \in 0..N, NEW w, Walk(w, k, e, p, f)
  PROVE  f \in u[N]
<1>1. N \in Nat
  BY FS_CardinalityType DEF N
<1>2. /\ u \in [0..N -> SUBSET (Linked \cup {None})] /\ u[0] = {p}
      /\ \A j \in 1..N : u[j] = u[j - 1] \cup {e[z] : z \in u[j - 1] \ {f, None}}
  BY DEF Climbs
<1>3. /\ w \in [0..k -> Linked] /\ w[0] = p /\ w[k] = f
      /\ \A i \in 0..(k - 1) : w[i] # f /\ w[i + 1] = e[w[i]]
  BY DEF Walk
<1>4. \A i \in 0..k : w[i] \in u[i]
  <2> DEFINE T == {i \in 0..k : w[i] \notin u[i]}
  <2>1. SUFFICES ASSUME T # {} PROVE FALSE
    OBVIOUS
  <2>2. T \subseteq Nat
    BY <1>1
  <2>3. PICK i \in T : \A j \in T : i <= j
    <3> HIDE DEF T
    <3> QED BY <2>1, <2>2, LeastNumber
  <2>4. i \in 0..k /\ i # 0
    BY <1>2, <1>3
  <2>5. i \in 1..N /\ i - 1 \in 0..k /\ i - 1 \in 0..(k - 1) /\ i - 1 \notin T
    BY <1>1, <2>2, <2>3, <2>4
  <2>6. w[i - 1] \in u[i - 1] /\ w[i - 1] # f /\ w[i - 1] \in Linked
    BY <1>3, <2>5
  <2>7. w[i] = e[w[i - 1]]
    <3>1. (i - 1) + 1 = i
      BY <2>5
    <3> QED BY <1>3, <2>5, <3>1
  <2>8. w[i - 1] \in u[i - 1] \ {f, None}
    BY <2>6
  <2>9. w[i] \in u[i]
    BY <1>2, <2>5, <2>7, <2>8
  <2> QED BY <2>9
<1>5. \A i \in k..N : f \in u[i]
  <2> DEFINE T == {i \in k..N : f \notin u[i]}
  <2>1. SUFFICES ASSUME T # {} PROVE FALSE
    OBVIOUS
  <2>2. T \subseteq Nat
    BY <1>1
  <2>3. PICK i \in T : \A j \in T : i <= j
    <3> HIDE DEF T
    <3> QED BY <2>1, <2>2, LeastNumber
  <2>4. i # k
    BY <1>1, <1>3, <1>4
  <2>5. i \in 1..N /\ i - 1 \in k..N /\ i - 1 \notin T
    BY <1>1, <2>2, <2>3, <2>4
  <2>6. f \in u[i - 1]
    BY <2>5
  <2> QED BY <1>2, <2>5, <2>6
<1> QED BY <1>1, <1>5

LEMMA AboveIsLed ==
  ASSUME IsFiniteSet(Linked), None \notin Linked, NEW e \in Edges, NEW p \in Linked, NEW f \in Linked
  PROVE  f \in Climb(e, p, f)[N] \ {None} <=> Leads(e, p, f)
<1>1. PICK u : u = Climb(e, p, f)
  OBVIOUS
<1>2. Climbs(u, N, e, p, f) /\ N \in Nat
  BY <1>1, ClimbClimbs
<1>3. ASSUME f \in u[N] PROVE Leads(e, p, f)
  <2>1. PICK k \in 0..N, w \in [0..N -> Linked] :
          w[0] = p /\ w[k] = f /\ \A i \in 0..(k - 1) : w[i] # f /\ w[i + 1] = e[w[i]]
    BY <1>2, <1>3, ClimbedIsLed
  <2>2. PICK v : v = [i \in 0..k |-> w[i]]
    OBVIOUS
  <2>3. v \in [0..k -> Linked] /\ \A i \in 0..k : v[i] = w[i]
    BY <1>2, <2>2
  <2>4. 0 \in 0..k /\ k \in 0..k /\ \A i \in 0..(k - 1) : i \in 0..k /\ i + 1 \in 0..k
    BY <1>2
  <2>5. Walk(v, k, e, p, f)
    BY <2>1, <2>3, <2>4 DEF Walk
  <2> QED BY <2>3, <2>5 DEF Leads
<1>4. ASSUME Leads(e, p, f) PROVE f \in u[N]
  BY <1>2, <1>4, LedIsClimbed DEF Leads
<1> QED BY <1>1, <1>3, <1>4

\* With fewer links, less is led to.
LEMMA FewerLinks ==
  ASSUME NEW d \in Edges, NEW e \in Edges, \A x \in Linked : d[x] = None \/ d[x] = e[x], None \notin Linked,
         N \in Nat,
         NEW p \in Linked, NEW f \in Linked, Leads(d, p, f)
  PROVE  Leads(e, p, f)
<1>0. PICK k \in 0..N : \E w \in [0..k -> Linked] : Walk(w, k, d, p, f)
  BY DEF Leads
<1>1. PICK w \in [0..k -> Linked] : Walk(w, k, d, p, f)
  BY <1>0
<1>2. ASSUME NEW i \in 0..(k - 1) PROVE w[i] # f /\ w[i + 1] = e[w[i]]
  <2>1. i \in 0..k /\ i + 1 \in 0..k
    BY <1>1
  <2>2. w[i] # f /\ w[i + 1] = d[w[i]]
    BY <1>1 DEF Walk
  <2> QED BY <2>1, <2>2
<1>3. Walk(w, k, e, p, f)
  BY <1>1, <1>2 DEF Walk
<1> QED BY <1>1, <1>3 DEF Leads

NoCircle(e) == \A g \in Linked : e[g] # None => ~Leads(e, e[g], g)

\* A link from f to p, from where nothing leads to f, closes no circle: one that it closes would lead from p to f.
LEMMA LinkClosesNone ==
  ASSUME NEW e \in Edges, NoCircle(e), NEW f \in Linked, NEW p \in Linked, ~Leads(e, p, f), None \notin Linked,
         N \in Nat,
         NEW d, d = [e EXCEPT ![f] = p]
  PROVE  NoCircle(d)
<1>1. d \in Edges /\ d[f] = p /\ \A x \in Linked \ {f} : d[x] = e[x]
  BY DEF Edges
<1>2. SUFFICES ASSUME NEW g \in Linked, d[g] # None, Leads(d, d[g], g) PROVE FALSE
  BY DEF NoCircle
<1>0. PICK k \in 0..N : \E w \in [0..k -> Linked] : Walk(w, k, d, d[g], g)
  BY <1>2 DEF Leads
<1>3. PICK w \in [0..k -> Linked] : Walk(w, k, d, d[g], g)
  BY <1>0
<1>4. /\ k \in Nat /\ k <= N /\ w[0] = d[g] /\ w[k] = g
      /\ \A i \in 0..(k - 1) : w[i] # g /\ w[i + 1] = d[w[i]]
  BY <1>3 DEF Walk
<1> DEFINE T == {i \in 0..(k - 1) : w[i] = f}
<1>5. CASE T = {}
  <2>1. \A i \in 0..(k - 1) : i \in 0..k /\ w[i] \in Linked \ {f} /\ w[i + 1] = e[w[i]]
    BY <1>1, <1>4, <1>5
  <2>2. Walk(w, k, e, d[g], g)
    BY <1>3, <1>4, <2>1 DEF Walk
  <2>3. Leads(e, d[g], g)
    BY <1>3, <2>2 DEF Leads
  <2>4. CASE g = f
    BY <1>1, <2>3, <2>4
  <2>5. CASE g # f
    BY <1>1, <1>2, <2>3, <2>5 DEF NoCircle
  <2> QED BY <2>4, <2>5
<1>6. CASE T # {}
  <2>1. T \subseteq Nat /\ \A x \in T : x <= k
    BY <1>4
  <2>2. PICK a \in T : \A y \in T : a <= y
    <3> HIDE DEF T
    <3> QED BY <1>6, <2>1, LeastNumber
  <2>3. PICK b \in T : \A y \in T : y <= b
    <3> HIDE DEF T
    <3> QED BY <1>4, <1>6, <2>1, GreatestNumber
  <2>4. /\ a \in 0..(k - 1) /\ b \in 0..(k - 1) /\ a <= b /\ w[a] = f /\ w[b] = f
        /\ \A i \in 0..(a - 1) : w[i] # f
        /\ \A i \in (b + 1)..(k - 1) : w[i] # f
    BY <1>4, <2>2, <2>3
  <2>5. g # f
    BY <1>4, <2>4
  <2>6. w[b + 1] = p
    BY <1>1, <1>4, <2>4
  <2> DEFINE m == k - b - 1
             v == [i \in 0..(m + 1 + a) |-> IF i <= m THEN w[b + 1 + i] ELSE w[i - m - 1]]
  <2>7. m \in Nat /\ m + 1 + a \in 0..N
    BY <1>4, <2>4
  <2>8. v \in [0..(m + 1 + a) -> Linked]
    <3> SUFFICES ASSUME NEW i \in 0..(m + 1 + a)
                 PROVE  (IF i <= m THEN w[b + 1 + i] ELSE w[i - m - 1]) \in Linked
      OBVIOUS
    <3>1. CASE i <= m
      BY <1>3, <1>4, <2>4, <3>1
    <3>2. CASE ~(i <= m)
      BY <1>3, <1>4, <2>4, <2>7, <3>2
    <3> QED BY <3>1, <3>2
  <2>9. v[0] = p /\ v[m + 1 + a] = f
    <3>1. v[0] = w[b + 1 + 0] /\ b + 1 + 0 = b + 1
      BY <2>4, <2>7
    <3>2. v[m + 1 + a] = w[m + 1 + a - m - 1] /\ m + 1 + a - m - 1 = a
      BY <2>4, <2>7
    <3> QED BY <2>4, <2>6, <3>1, <3>2
  <2>10. ASSUME NEW i \in 0..(m + 1 + a - 1) PROVE v[i] # f /\ v[i + 1] = e[v[i]]
    <3>1. CASE i < m
      <4>1. v[i] = w[b + 1 + i] /\ v[i + 1] = w[b + 1 + (i + 1)] /\ b + 1 + (i + 1) = (b + 1 + i) + 1
        BY <2>4, <2>7, <3>1
      <4>2. b + 1 + i \in (b + 1)..(k - 1) /\ b + 1 + i \in 0..(k - 1) /\ b + 1 + i \in 0..k
        BY <1>4, <2>4, <2>7, <3>1
      <4>3. w[b + 1 + i] # f /\ w[b + 1 + i] \in Linked /\ w[(b + 1 + i) + 1] = d[w[b + 1 + i]]
        BY <1>3, <1>4, <2>4, <4>2
      <4> QED BY <1>1, <4>1, <4>3
    <3>2. CASE i = m
      <4>1. v[i] = w[b + 1 + m] /\ b + 1 + m = k
        BY <1>4, <2>4, <2>7, <3>2
      <4>2. v[i + 1] = w[m + 1 - m - 1] /\ m + 1 - m - 1 = 0
        BY <1>4, <2>4, <2>7, <3>2
      <4>3. v[i] = g /\ v[i + 1] = d[g]
        BY <1>4, <4>1, <4>2
      <4> QED BY <1>1, <2>5, <4>3
    <3>3. CASE i > m
      <4>1. i - m - 1 \in 0..(a - 1) /\ i - m - 1 \in 0..(k - 1) /\ i - m - 1 \in 0..k
        BY <1>4, <2>4, <2>7, <3>3
      <4>2. v[i] = w[i - m - 1]
        BY <2>4, <2>7, <3>3
      <4>3. v[i + 1] = w[(i + 1) - m - 1] /\ (i + 1) - m - 1 = (i - m - 1) + 1
        BY <2>4, <2>7, <3>3
      <4>4. w[i - m - 1] # f /\ w[i - m - 1] \in Linked /\ w[(i - m - 1) + 1] = d[w[i - m - 1]]
        BY <1>3, <1>4, <2>4, <4>1
      <4> QED BY <1>1, <4>2, <4>3, <4>4
    <3> QED BY <2>7, <3>1, <3>2, <3>3
  <2> HIDE DEF m, v
  <2>11. PICK j : j = m + 1 + a
    OBVIOUS
  <2>12. j \in 0..N /\ v \in [0..j -> Linked]
    BY <2>7, <2>8, <2>11
  <2>13. Walk(v, j, e, p, f)
    <3>1. PICK x : x = v
      OBVIOUS
    <3>2. x \in [0..j -> Linked] /\ x[0] = p /\ x[j] = f
      BY <2>9, <2>11, <2>12, <3>1
    <3>3. ASSUME NEW i \in 0..(j - 1) PROVE x[i] # f /\ x[i + 1] = e[x[i]]
      <4>1. i \in 0..(m + 1 + a - 1)
        BY <1>4, <2>4, <2>7, <2>11
      <4>2. v[i] # f /\ v[i + 1] = e[v[i]]
        BY <2>10, <4>1
      <4> QED BY <3>1, <4>2
    <3>4. Walk(x, j, e, p, f)
      BY <3>2, <3>3 DEF Walk
    <3> QED BY <3>1, <3>4
  <2>14. \E x \in [0..j -> Linked] : Walk(x, j, e, p, f)
    BY <2>12, <2>13
  <2>15. Leads(e, p, f)
    BY <2>12, <2>14 DEF Leads
  <2> QED BY <2>15
<1> QED BY <1>5, <1>6

-----------------------------------------------------------------------------
(* One way to start *)

\* While no two requests to choose how a flow starts were under way at once, the only one there is found no circle
\* and has deleted the other way to start.
OneChoice == ~raced => \A a \in Linkers : choice[a] # None =>
  /\ \A b \in Linkers : choice[b] # None => b = a
  /\ choice[a].after # None => ~Leads(after, choice[a].after, choice[a].flow)
  /\ choice[a].replaced =>
       IF choice[a].after = None THEN after[choice[a].flow] = None ELSE choice[a].flow \notin timed

OneWay == ~raced => NoCircle(after) /\ \A f \in Linked : after[f] # None => f \notin timed

StartInv == ChainInv /\ OneChoice /\ OneWay

LEMMA ProblemIsLed ==
  ASSUME Chained!Given, ChainTyped, NEW p \in Linked, NEW f \in Linked
  PROVE  f \in Chained!Above(p, f) <=> Leads(after, p, f)
BY AboveIsClimb, AboveIsLed, LinkedIsFinite DEF Chained!Given, ChainTyped, Edges

LEMMA StartFirst == ASSUME Chained!Given, Chained!Init PROVE StartInv
<1>1. ChainInv
  BY ChainFirst
<1>2. \A a \in Linkers : choice[a] = None
  BY DEF Chained!Init
<1>3. \A f \in Linked : after[f] = None
  BY DEF Chained!Init
<1> QED BY <1>1, <1>2, <1>3 DEF StartInv, OneChoice, OneWay, NoCircle

\* Links that are there only go, and what is scheduled stays or goes.
LEMMA LinksGo ==
  ASSUME Chained!Given, StartInv, after' \in Edges, \A x \in Linked : after'[x] = None \/ after'[x] = after[x],
         timed' \subseteq timed, UNCHANGED raced,
         \A a \in Linkers : choice'[a] = choice[a] \/ choice'[a] = None
  PROVE  OneChoice' /\ OneWay'
<1>1. after \in Edges /\ N \in Nat /\ None \notin Linked /\ choice \in [Linkers -> Chosen \cup {None}]
  BY LinkedIsFinite, FS_CardinalityType DEF StartInv, ChainInv, ChainTyped, Chained!Given, N, Edges
<1>2. PICK d : d = after'
  OBVIOUS
<1>3. \A p, f \in Linked : Leads(d, p, f) => Leads(after, p, f)
  BY <1>1, <1>2, FewerLinks
<1>4. ASSUME ~raced PROVE NoCircle(d) /\ \A f \in Linked : d[f] # None => f \notin timed'
  <2>1. NoCircle(after) /\ \A f \in Linked : after[f] # None => f \notin timed
    BY <1>4 DEF StartInv, OneWay
  <2>2. \A f \in Linked : d[f] # None => d[f] = after[f] /\ d[f] \in Linked
    BY <1>1, <1>2 DEF Edges
  <2> QED BY <1>3, <2>1, <2>2 DEF NoCircle
<1>5. OneWay'
  BY <1>2, <1>4 DEF OneWay, NoCircle, Leads, Walk
<1>6. ASSUME ~raced, NEW a \in Linkers, choice'[a] # None
      PROVE /\ \A b \in Linkers : choice'[b] # None => b = a
            /\ choice'[a].after # None => ~Leads(d, choice'[a].after, choice'[a].flow)
            /\ choice'[a].replaced => IF choice'[a].after = None THEN d[choice'[a].flow] = None
                                                             ELSE choice'[a].flow \notin timed'
  <2>1. choice'[a] = choice[a] /\ choice[a] \in Chosen
    BY <1>1, <1>6
  <2>2. choice[a].flow \in Linked /\ choice[a].after \in Linked \cup {None}
    BY <2>1 DEF Chosen
  <2>3. /\ \A b \in Linkers : choice[b] # None => b = a
        /\ choice[a].after # None => ~Leads(after, choice[a].after, choice[a].flow)
        /\ choice[a].replaced => IF choice[a].after = None THEN after[choice[a].flow] = None
                                                        ELSE choice[a].flow \notin timed
    BY <1>6, <2>1 DEF StartInv, OneChoice
  <2>4. \A b \in Linkers : choice'[b] # None => b = a
    BY <2>3
  <2>5. choice[a].after # None => ~Leads(d, choice[a].after, choice[a].flow)
    BY <1>3, <2>2, <2>3
  <2>6. choice[a].replaced => IF choice[a].after = None THEN d[choice[a].flow] = None
          ELSE choice[a].flow \notin timed'
    BY <1>2, <2>2, <2>3
  <2> QED BY <2>1, <2>4, <2>5, <2>6
<1>7. OneChoice'
  BY <1>2, <1>6 DEF OneChoice, Leads, Walk
<1> QED BY <1>5, <1>7

LEMMA AskOne ==
  ASSUME Chained!Given, StartInv, NEW a \in Linkers, Chained!AskTrigger(a)
  PROVE  OneChoice' /\ OneWay'
<1>1. ChainTyped /\ N \in Nat /\ None \notin Linked /\ choice \in [Linkers -> Chosen \cup {None}]
  BY LinkedIsFinite, FS_CardinalityType DEF StartInv, ChainInv, ChainTyped, Chained!Given, N
<1>2. PICK f \in Linked, p \in Linked \cup {None} :
        /\ p # None => ~Chained!ChainProblem(f, p)
        /\ choice' = [choice EXCEPT ![a] = [flow |-> f, after |-> p, replaced |-> FALSE]]
        /\ raced' = (raced \/ \E b \in Linkers : choice[b] # None)
        /\ after' = after /\ timed' = timed
  BY DEF Chained!AskTrigger
<1>3. OneWay'
  <2>1. ~raced' => ~raced
    BY <1>2
  <2>2. ~raced' => NoCircle(after) /\ \A f2 \in Linked : after[f2] # None => f2 \notin timed
    BY <2>1 DEF StartInv, OneWay
  <2>3. PICK d : d = after'
    OBVIOUS
  <2>4. ~raced' => NoCircle(d) /\ \A f2 \in Linked : d[f2] # None => f2 \notin timed'
    BY <1>2, <2>2, <2>3
  <2> QED BY <2>3, <2>4 DEF OneWay, NoCircle, Leads, Walk
<1>4. ASSUME ~raced'
      PROVE  \A b \in Linkers : b # a => choice'[b] = None
  BY <1>1, <1>2, <1>4
<1>5. PICK r : r = [flow |-> f, after |-> p, replaced |-> FALSE]
  OBVIOUS
<1>6. choice'[a] = r /\ r.flow = f /\ r.after = p /\ r.replaced = FALSE
  BY <1>1, <1>2, <1>5
<1>7. p # None => ~Leads(after, p, f)
  BY <1>1, <1>2, ProblemIsLed DEF Chained!ChainProblem
<1>8. ASSUME ~raced', NEW b \in Linkers, choice'[b] # None
      PROVE  /\ \A c \in Linkers : choice'[c] # None => c = b
             /\ choice'[b].after # None => ~Leads(after, choice'[b].after, choice'[b].flow)
             /\ ~choice'[b].replaced
  BY <1>4, <1>6, <1>7, <1>8
<1>9. OneChoice'
  BY <1>2, <1>8 DEF OneChoice, Leads, Walk
<1> QED BY <1>3, <1>9

LEMMA ReplaceOne ==
  ASSUME Chained!Given, StartInv, NEW a \in Linkers, Chained!Replace(a)
  PROVE  OneChoice' /\ OneWay'
<1>1. ChainTyped /\ N \in Nat /\ None \notin Linked /\ choice \in [Linkers -> Chosen \cup {None}] /\ after \in Edges
  BY LinkedIsFinite, FS_CardinalityType DEF StartInv, ChainInv, ChainTyped, Chained!Given, N, Edges
<1>2. choice[a] # None /\ choice[a] \in Chosen
  BY <1>1 DEF Chained!Replace, Chained!Asked
<1>3. PICK r : r = choice[a]
  OBVIOUS
<1>4. r \in Chosen /\ r.flow \in Linked /\ r.after \in Linked \cup {None}
  BY <1>2, <1>3 DEF Chosen
<1>5. PICK t : t = [r EXCEPT !.replaced = TRUE]
  OBVIOUS
<1>6. t \in Chosen /\ t.flow = r.flow /\ t.after = r.after
  BY <1>4, <1>5 DEF Chosen
<1>7. choice' = [choice EXCEPT ![a] = t] /\ raced' = raced
  BY <1>3, <1>5 DEF Chained!Replace
<1>8. IF r.after = None THEN after' = [after EXCEPT ![r.flow] = None] /\ timed' = timed
                        ELSE timed' = timed \ {r.flow} /\ after' = after
  BY <1>3 DEF Chained!Replace
<1>9. PICK d : d = after'
  OBVIOUS
<1>10. d \in Edges /\ \A x \in Linked : d[x] = None \/ d[x] = after[x]
  BY <1>1, <1>4, <1>8, <1>9 DEF Edges
<1>11. \A p, f \in Linked : Leads(d, p, f) => Leads(after, p, f)
  BY <1>1, <1>10, FewerLinks
<1>12. ASSUME ~raced PROVE NoCircle(d) /\ \A f \in Linked : d[f] # None => f \notin timed'
  <2>1. NoCircle(after) /\ \A f \in Linked : after[f] # None => f \notin timed
    BY <1>12 DEF StartInv, OneWay
  <2>2. \A f \in Linked : d[f] # None => d[f] = after[f] /\ d[f] \in Linked
    BY <1>10 DEF Edges
  <2> QED BY <1>8, <1>11, <2>1, <2>2 DEF NoCircle
<1>13. OneWay'
  BY <1>7, <1>9, <1>12 DEF OneWay, NoCircle, Leads, Walk
<1>14. ASSUME ~raced, NEW b \in Linkers, choice'[b] # None
       PROVE  /\ \A c \in Linkers : choice'[c] # None => c = b
              /\ choice'[b].after # None => ~Leads(d, choice'[b].after, choice'[b].flow)
              /\ IF choice'[b].after = None THEN d[choice'[b].flow] = None ELSE choice'[b].flow \notin timed'
  <2>1. /\ \A c \in Linkers : choice[c] # None => c = a
        /\ r.after # None => ~Leads(after, r.after, r.flow)
    BY <1>2, <1>3, <1>14 DEF StartInv, OneChoice
  <2>2. b = a /\ \A c \in Linkers : choice'[c] # None => c = a
    BY <1>1, <1>7, <1>14, <2>1
  <2>3. choice'[b] = t
    BY <1>1, <1>7, <2>2
  <2>4. t.after # None => ~Leads(d, t.after, t.flow)
    BY <1>4, <1>6, <1>11, <2>1
  <2>5. IF t.after = None THEN d[t.flow] = None ELSE t.flow \notin timed'
    BY <1>1, <1>4, <1>6, <1>8, <1>9 DEF Edges
  <2> QED BY <2>2, <2>3, <2>4, <2>5
<1>15. OneChoice'
  BY <1>7, <1>9, <1>14 DEF OneChoice, Leads, Walk
<1> QED BY <1>13, <1>15

LEMMA SaveOne ==
  ASSUME Chained!Given, StartInv, NEW a \in Linkers, Chained!SaveTrigger(a)
  PROVE  OneChoice' /\ OneWay'
<1>1. ChainTyped /\ N \in Nat /\ None \notin Linked /\ choice \in [Linkers -> Chosen \cup {None}] /\ after \in Edges
  BY LinkedIsFinite, FS_CardinalityType DEF StartInv, ChainInv, ChainTyped, Chained!Given, N, Edges
<1>2. PICK r : r = choice[a]
  OBVIOUS
<1>3. r # None /\ r \in Chosen /\ r.replaced
  BY <1>1, <1>2 DEF Chained!SaveTrigger, Chained!Asked
<1>4. r.flow \in Linked /\ r.after \in Linked \cup {None}
  BY <1>3 DEF Chosen
<1>5. IF r.after = None THEN timed' = timed \cup {r.flow} /\ after' = after
                        ELSE after' = [after EXCEPT ![r.flow] = r.after] /\ timed' = timed
  BY <1>2 DEF Chained!SaveTrigger
<1>6. choice' = [choice EXCEPT ![a] = None] /\ raced' = raced
  BY DEF Chained!SaveTrigger
<1>7. ASSUME ~raced
      PROVE  /\ NoCircle(after) /\ \A f \in Linked : after[f] # None => f \notin timed
             /\ \A c \in Linkers : choice[c] # None => c = a
             /\ r.after # None => ~Leads(after, r.after, r.flow)
             /\ IF r.after = None THEN after[r.flow] = None ELSE r.flow \notin timed
  BY <1>2, <1>3, <1>7 DEF StartInv, OneChoice, OneWay
<1>8. ASSUME ~raced PROVE \A c \in Linkers : choice'[c] = None
  BY <1>1, <1>6, <1>7, <1>8
<1>9. OneChoice'
  BY <1>6, <1>8 DEF OneChoice
<1>10. PICK d : d = after'
  OBVIOUS
<1>11. ASSUME ~raced PROVE NoCircle(d) /\ \A f \in Linked : d[f] # None => f \notin timed'
  <2>1. CASE r.after = None
    BY <1>5, <1>7, <1>10, <1>11, <2>1
  <2>2. CASE r.after # None
    <3>1. r.after \in Linked /\ d = [after EXCEPT ![r.flow] = r.after] /\ timed' = timed
      BY <1>4, <1>5, <1>10, <2>2
    <3>2. NoCircle(d)
      BY <1>1, <1>4, <1>7, <1>11, <2>2, <3>1, LinkClosesNone
    <3>3. \A f \in Linked : d[f] # None => f \notin timed'
      BY <1>1, <1>4, <1>7, <1>11, <2>2, <3>1 DEF Edges
    <3> QED BY <3>2, <3>3
  <2> QED BY <2>1, <2>2
<1>12. OneWay'
  BY <1>6, <1>10, <1>11 DEF OneWay, NoCircle, Leads, Walk
<1> QED BY <1>9, <1>12

LEMMA StartStep == ASSUME Chained!Given, StartInv, [Chained!Next]_(Chained!vars) PROVE StartInv'
<1>1. ChainInv /\ ChainTyped
  BY DEF StartInv, ChainInv
<1>2. ChainInv'
  BY <1>1, ChainStep
<1>3. after' \in Edges /\ after \in Edges /\ choice \in [Linkers -> Chosen \cup {None}]
  BY <1>1, <1>2 DEF ChainInv, ChainTyped, Edges
<1>4. ASSUME NEW a \in Linkers, Chained!CutRequest(a) PROVE OneChoice' /\ OneWay'
  <2>1. after' = after /\ timed' = timed /\ raced' = raced /\ choice' = [choice EXCEPT ![a] = None]
    BY <1>4 DEF Chained!CutRequest
  <2>2. \A b \in Linkers : choice'[b] = choice[b] \/ choice'[b] = None
    BY <1>3, <2>1
  <2> QED BY <1>3, <2>1, <2>2, LinksGo
<1>5. ASSUME NEW f \in Linked, Chained!RemoveTrigger(f) PROVE OneChoice' /\ OneWay'
  <2>1. choice' = choice /\ raced' = raced /\ timed' \subseteq timed
    BY <1>5 DEF Chained!RemoveTrigger
  <2>2. \A x \in Linked : after'[x] = None \/ after'[x] = after[x]
    BY <1>3, <1>5 DEF Chained!RemoveTrigger, Edges
  <2> QED BY <1>3, <2>1, <2>2, LinksGo
<1>6. ASSUME UNCHANGED <<timed, after, choice, raced>> PROVE OneChoice' /\ OneWay'
  BY <1>3, <1>6, LinksGo
<1>7. ASSUME NEW f \in Linked, Chained!Editing(f) PROVE OneChoice' /\ OneWay'
  BY <1>5, <1>6, <1>7 DEF Chained!Editing, Chained!EditFlow, Chained!SwitchFlow
<1>8. ASSUME NEW a \in Linkers, Chained!Choosing(a) PROVE OneChoice' /\ OneWay'
  BY <1>4, <1>8, AskOne, ReplaceOne, SaveOne DEF Chained!Choosing
<1>9. ASSUME NEW s \in Starts, NEW f \in Linked, Chained!RunBySchedule(s, f) \/ Chained!RunInChat(s, f)
        PROVE OneChoice' /\ OneWay'
  BY <1>6, <1>9 DEF Chained!RunBySchedule, Chained!RunInChat
<1>10. ASSUME NEW s \in Starts, Chained!Going(s) \/ Chained!CutRun(s) PROVE OneChoice' /\ OneWay'
  BY <1>6, <1>10 DEF Chained!Going, Chained!StepsDone, Chained!StepsFail, Chained!NextKid, Chained!KidsDone,
         Chained!CutRun
<1>11. ASSUME UNCHANGED Chained!vars PROVE OneChoice' /\ OneWay'
  BY <1>6, <1>11 DEF Chained!vars
<1>12. OneChoice' /\ OneWay'
  BY <1>7, <1>8, <1>9, <1>10, <1>11 DEF Chained!Next
<1> QED BY <1>2, <1>12 DEF StartInv

LEMMA OneWayToStartHolds == ASSUME Chained!Given PROVE Chained!Spec => []Chained!OneWayToStart
<1>1. Chained!Init => StartInv
  BY StartFirst
<1>2. StartInv /\ [Chained!Next]_(Chained!vars) => StartInv'
  BY StartStep
<1>3. ASSUME StartInv PROVE Chained!OneWayToStart
  <2>1. ChainTyped /\ after \in [Linked -> Linked \cup {None}]
    BY <1>3 DEF StartInv, ChainInv, ChainTyped
  <2>2. SUFFICES ASSUME ~raced, NEW f \in Linked, after[f] # None
                 PROVE  f \notin timed /\ f \notin Chained!Above(after[f], f)
    BY DEF Chained!OneWayToStart
  <2>3. after[f] \in Linked /\ f \notin timed /\ ~Leads(after, after[f], f)
    BY <1>3, <2>1, <2>2 DEF StartInv, OneWay, NoCircle
  <2> QED BY <2>1, <2>3, ProblemIsLed
<1> QED BY <1>1, <1>2, <1>3, PTL DEF Chained!Spec

\* A chain of flows comes to an end: no flow comes twice in it and it is no longer than the limit, whatever the links
\* are; and as long as triggers are chosen one at a time, a flow has one way to start and follows itself through no
\* others.
THEOREM ChainsEndHolds == Chained!Spec => []ChainsEnd
<1>1. ChainInv => Chained!ChainIsCut
  BY ChainInvCuts
<1>2. Chained!ChainIsCut /\ Chained!OneWayToStart => ChainsEnd
  BY DEF ChainsEnd
<1> QED BY ChainedGiven, <1>1, <1>2, ChainInvHolds, OneWayToStartHolds, PTL
=============================================================================
