----------------------------- MODULE FlowsProofs -----------------------------
(***************************************************************************)
(* What holds of the flows of a housing society, for any people, roles and *)
(* numbers of requests, hand-overs and faults.                             *)
(*                                                                         *)
(* Of a ticket and its people (Tickets, the Ticket of Workflows): the      *)
(* types; that whoever handled a ticket stays on it; that who is on it     *)
(* knows who has it; that numbers differ.  Each of the three has an        *)
(* invariant of its own, on top of Typed.                                  *)
(*                                                                         *)
(* Of the flows as admins change them (FlowEditing, as Edit): the types;   *)
(* that no version is lost; that an edit starts from the version it        *)
(* replaces.  The three follow from one invariant, EditInv.  On top of it, *)
(* Blocked and Ticking: the blocks a flow runs are there, none of them in  *)
(* a circle, and whoever may use a flow can use it to the end.             *)
(***************************************************************************)
EXTENDS Workflows, Sequences, FiniteSets, NaturalsInduction, WellFoundedInduction, FiniteSetTheorems, TLAPS

-----------------------------------------------------------------------------
(* Numbers *)

\* A set of numbers has a least one.
LEMMA LeastNumber ==
  ASSUME NEW T \in SUBSET Nat, T # {}
  PROVE  \E x \in T : \A y \in T : x <= y
<1>1. IsWellFoundedOn(OpToRel(<, Nat), Nat)
  BY NatLessThanWellFounded
<1>2. PICK x \in T : \A y \in T : ~(<<y, x>> \in OpToRel(<, Nat))
  BY <1>1, WFMin
<1>3. \A y \in T : ~(y < x)
  BY <1>2 DEF OpToRel
<1>4. \A y \in T : y \in Nat
  OBVIOUS
<1>5. QED  BY <1>3, <1>4

\* A set of numbers with a bound has a greatest one.
LEMMA GreatestNumber ==
  ASSUME NEW T \in SUBSET Nat, T # {}, NEW b \in Nat, \A x \in T : x <= b
  PROVE  Ticket!Max(T) \in T /\ \A x \in T : x <= Ticket!Max(T)
<1> DEFINE U == {n \in Nat : \A x \in T : x <= n}
<1>1. b \in U /\ U \in SUBSET Nat
  OBVIOUS
<1>2. PICK m \in U : \A n \in U : m <= n
  <2> HIDE DEF U
  <2> QED BY <1>1, LeastNumber
<1>3. m \in T
  <2> SUFFICES ASSUME m \notin T PROVE FALSE
    OBVIOUS
  <2>1. \A x \in T : x \in Nat /\ x < m
    BY <1>2
  <2>2. m \in Nat /\ m - 1 \in Nat /\ \A x \in T : x <= m - 1
    <3>1. PICK x \in T : TRUE
      OBVIOUS
    <3>2. m \in Nat /\ x \in Nat /\ x < m
      BY <1>2, <2>1, <3>1
    <3>3. QED  BY <2>1, <3>2
  <2>3. m - 1 \in U
    BY <2>2
  <2> QED BY <1>2, <2>2, <2>3
<1>4. m \in T /\ \A y \in T : m >= y
  BY <1>2, <1>3
<1>5. QED  BY <1>4 DEF Ticket!Max

-----------------------------------------------------------------------------
(* Types *)

\* Where a flow is: it has a ticket once it has saved or found one, and only some steps belong to both flows.
InFlow ==
  \A p \in Residents : acting[p] # None =>
    /\ acting[p].ticket = None <=> acting[p].at \in {"number", "insert"}
    /\ acting[p].ticket # None => acting[p].ticket \in Ticket!There
    /\ acting[p].at \in {"authorize", "keep"} => acting[p].flow = "pass"
    /\ acting[p].at \in {"number", "insert", "level2"} => acting[p].flow = "file"
    /\ acting[p].flow = "pass" => acting[p].new # None

\* A plan works on a ticket that is there, and hands it to somebody.
InPlan ==
  \A t \in Ids : plan[t] # None => t \in Ticket!There /\ (plan[t].at # "target" => plan[t].new \in Residents)

\* There are numbers beyond those in use.
Bounded == \E b \in Nat : \A t \in Ticket!There : tickets[t].number <= b

Typed == Ticket!TypeOK /\ InFlow /\ InPlan /\ Bounded

LEMMA Init_Typed ==
  ASSUME Ticket!Given, Ticket!Init
  PROVE  Typed
<1>1. Ticket!There = {}
  BY DEF Ticket!Init, Ticket!There
<1>2. Ticket!TypeOK
  BY <1>1 DEF Ticket!Init, Ticket!TypeOK
<1>3. InFlow /\ InPlan
  BY DEF Ticket!Init, InFlow, InPlan
<1>4. Bounded
  BY <1>1 DEF Bounded
<1>5. QED  BY <1>2, <1>3, <1>4 DEF Typed

LEMMA NextNumberBeyond ==
  ASSUME Typed
  PROVE  Ticket!NextNumber \in Nat /\ \A t \in Ticket!There : tickets[t].number < Ticket!NextNumber
<1> DEFINE T == {0} \cup {tickets[t].number : t \in Ticket!There}
<1>1. PICK b \in Nat : \A t \in Ticket!There : tickets[t].number <= b
  BY DEF Typed, Bounded
<1>2. \A t \in Ticket!There : tickets[t].number \in Nat
  BY DEF Typed, Ticket!TypeOK, Ticket!There, Ticket!Rows
<1>3. T \in SUBSET Nat /\ T # {} /\ \A x \in T : x <= b
  BY <1>1, <1>2
<1>4. Ticket!Max(T) \in T /\ \A x \in T : x <= Ticket!Max(T)
  <2> HIDE DEF T
  <2> QED BY <1>3, GreatestNumber
<1>5. PICK m : m = Ticket!Max(T)
  OBVIOUS
<1>6. Ticket!NextNumber = m + 1
  BY <1>5 DEF Ticket!NextNumber
<1>7. m \in Nat /\ \A t \in Ticket!There : tickets[t].number <= m
  BY <1>3, <1>4, <1>5
<1>8. QED  BY <1>2, <1>6, <1>7

\* A step of a flow that changes no row of cases: the flow goes on in a place that fits it, or ends.
LEMMA FlowTyped ==
  ASSUME Typed, NEW p \in Residents, NEW r \in Ticket!Runs \cup {None}, acting' = [acting EXCEPT ![p] = r],
         UNCHANGED <<tickets, plan, been>>, unique' \in BOOLEAN, crowded' \in BOOLEAN,
         overtaken' \in [Ids -> BOOLEAN],
         on' \in [Ids -> SUBSET (Residents \X Ticket!Roles)],
         \A t \in Ticket!There : Ticket!As(t, "assignee")' = Ticket!As(t, "assignee"),
         heard' \in [Ids -> [Residents -> Residents \cup {None}]],
         word' \in [Ids -> Residents \cup {"plan", "told", "mixed"}],
         r # None => /\ r.ticket = None <=> r.at \in {"number", "insert"}
                     /\ r.ticket # None => r.ticket \in Ticket!There
                     /\ r.at \in {"authorize", "keep"} => r.flow = "pass"
                     /\ r.at \in {"number", "insert", "level2"} => r.flow = "file"
                     /\ r.flow = "pass" => r.new # None
  PROVE  Typed'
<1>1. Ticket!There' = Ticket!There
  BY DEF Ticket!There
<1>2. Ticket!TypeOK'
  BY <1>1 DEF Typed, Ticket!TypeOK
<1>3. InFlow'
  BY <1>1 DEF Typed, Ticket!TypeOK, InFlow
<1>4. InPlan' /\ Bounded'
  BY <1>1 DEF Typed, InPlan, Bounded
<1>5. QED  BY <1>2, <1>3, <1>4 DEF Typed

\* The same of a plan.
LEMMA PlanTyped ==
  ASSUME Typed, NEW t \in Ticket!There, NEW r \in Ticket!Plans \cup {None}, plan' = [plan EXCEPT ![t] = r],
         UNCHANGED <<tickets, acting, on, been, unique, crowded, overtaken>>,
         heard' \in [Ids -> [Residents -> Residents \cup {None}]],
         word' \in [Ids -> Residents \cup {"plan", "told", "mixed"}],
         r # None /\ r.at # "target" => r.new \in Residents
  PROVE  Typed'
<1>1. Ticket!There' = Ticket!There
  BY DEF Ticket!There
<1>2. Ticket!TypeOK'
  BY <1>1 DEF Typed, Ticket!TypeOK, Ticket!There, Ticket!As
<1>3. InFlow' /\ Bounded'
  BY <1>1 DEF Typed, InFlow, Bounded
<1>4. InPlan'
  BY <1>1 DEF Typed, Ticket!TypeOK, InPlan, Ticket!There
<1>5. QED  BY <1>2, <1>3, <1>4 DEF Typed

\* A hand-over changes the handler and nothing else of the rows of cases, and the trigger moves the assignee with it.
LEMMA HandToTyped ==
  ASSUME Ticket!Given, Typed, NEW t \in Ticket!There, NEW new \in Residents, NEW seen,
         NEW parties \in SUBSET (Residents \X {"level2"}),
         NEW who \in Residents \cup {"plan"}, Ticket!HandTo(t, new, seen, parties, who)
  PROVE  /\ Ticket!There' = Ticket!There /\ t \in Ids
         /\ tickets'[t] = [number |-> tickets[t].number, handler |-> new]
         /\ \A u \in Ids \ {t} : tickets'[u] = tickets[u] /\ on'[u] = on[u]
         /\ tickets' \in [Ids -> Ticket!Rows \cup {None}] /\ on' \in [Ids -> SUBSET (Residents \X Ticket!Roles)]
         /\ been' \in [Ids -> SUBSET Residents] /\ overtaken' \in [Ids -> BOOLEAN]
         /\ word' \in [Ids -> Residents \cup {"plan", "told", "mixed"}]
         /\ \A u \in Ticket!There : Ticket!As(u, "assignee")' = {tickets'[u].handler} \ {None}
         /\ Bounded'
<1>1. t \in Ids /\ tickets[t] \in Ticket!Rows /\ tickets \in [Ids -> Ticket!Rows \cup {None}]
  BY DEF Typed, Ticket!TypeOK, Ticket!There
<1>2. tickets'[t] = [number |-> tickets[t].number, handler |-> new]
  BY <1>1 DEF Ticket!HandTo, Ticket!Rows
<1>3. tickets'[t] \in Ticket!Rows /\ tickets'[t] # None
  BY <1>1, <1>2 DEF Ticket!Rows, Ticket!Given
<1>4. \A u \in Ids \ {t} : tickets'[u] = tickets[u] /\ on'[u] = on[u]
  BY <1>1 DEF Ticket!HandTo, Typed, Ticket!TypeOK
<1>5. Ticket!There' = Ticket!There
  BY <1>1, <1>3, <1>4 DEF Ticket!There
<1>6. tickets' \in [Ids -> Ticket!Rows \cup {None}]
  BY <1>1, <1>3, <1>4 DEF Ticket!HandTo
<1>7. on' \in [Ids -> SUBSET (Residents \X Ticket!Roles)] /\ on'[t] = Ticket!Synced(t, new) \cup parties
  <2>1. Ticket!Synced(t, new) \cup parties \in SUBSET (Residents \X Ticket!Roles)
    BY <1>1 DEF Ticket!Synced, Ticket!Roles, Typed, Ticket!TypeOK
  <2>2. QED  BY <1>1, <2>1 DEF Ticket!HandTo, Typed, Ticket!TypeOK
<1>8. been' \in [Ids -> SUBSET Residents]
  BY <1>1 DEF Ticket!HandTo, Typed, Ticket!TypeOK
<1>9. overtaken' \in [Ids -> BOOLEAN]
  BY <1>1 DEF Ticket!HandTo, Typed, Ticket!TypeOK
<1>10. word' \in [Ids -> Residents \cup {"plan", "told", "mixed"}]
  BY <1>1 DEF Ticket!HandTo, Typed, Ticket!TypeOK
<1>11. \A u \in Ticket!There : Ticket!As(u, "assignee")' = {tickets'[u].handler} \ {None}
  <2> SUFFICES ASSUME NEW u \in Ticket!There PROVE Ticket!As(u, "assignee")' = {tickets'[u].handler} \ {None}
    OBVIOUS
  <2>1. CASE u = t
    <3>1. \A p \in Residents : <<p, "assignee">> \in on'[t] <=> p = new
      BY <1>7 DEF Ticket!Synced
    <3>2. new # None
      BY DEF Ticket!Given
    <3>3. QED  BY <1>2, <2>1, <3>1, <3>2 DEF Ticket!As
  <2>2. CASE u # t
    BY <1>4, <2>2 DEF Typed, Ticket!TypeOK, Ticket!As, Ticket!There
  <2>3. QED  BY <2>1, <2>2
<1>12. Bounded'
  <2>1. \A u \in Ticket!There : tickets'[u].number = tickets[u].number
    BY <1>2, <1>4 DEF Ticket!There
  <2>2. QED  BY <1>5, <2>1 DEF Typed, Bounded
<1>13. QED
  BY <1>1, <1>2, <1>4, <1>5, <1>6, <1>7, <1>8, <1>9, <1>10, <1>11, <1>12

\* What a flow of somebody is while it goes on.
LEMMA FlowThere ==
  ASSUME Ticket!Given, Typed, NEW p \in Residents, acting[p] # None
  PROVE  /\ acting[p] \in Ticket!Runs /\ acting \in [Residents -> Ticket!Runs \cup {None}]
         /\ acting[p].at \notin {"number", "insert"} => acting[p].ticket \in Ticket!There
         /\ Ticket!There \subseteq Ids /\ None \notin Ticket!There
BY DEF Typed, Ticket!TypeOK, InFlow, Ticket!There, Ticket!Given

LEMMA FilingTyped ==
  ASSUME Ticket!Given, Typed, NEW p \in Residents, Ticket!StartFile(p) \/ Ticket!Number(p) \/ Ticket!Insert(p)
         \/ Ticket!GiveRouted(p) \/ Ticket!AddLevel2(p)
  PROVE  Typed'
<1> USE DEF Ticket!Running, Ticket!To
<1>1. CASE Ticket!StartFile(p)
  <2>1. PICK r : r = [flow |-> "file", at |-> "number", ticket |-> None, number |-> 0, seen |-> None,
                      new |-> Routed, left |-> {}, has |-> {}]
    OBVIOUS
  <2>2. r \in Ticket!Runs /\ acting' = [acting EXCEPT ![p] = r]
    BY <1>1, <2>1 DEF Ticket!StartFile, Ticket!Runs, Ticket!Given
  <2>3. UNCHANGED <<unique, tickets, on, been, heard, word, overtaken, crowded, plan>>
    BY <1>1 DEF Ticket!StartFile
  <2>4. QED  BY <2>1, <2>2, <2>3, FlowTyped DEF Typed, Ticket!TypeOK, Ticket!As
<1>2. CASE Ticket!Number(p)
  <2>1. PICK r : r = [acting[p] EXCEPT !.number = Ticket!NextNumber, !.at = "insert"]
    OBVIOUS
  <2>2. acting[p] # None /\ acting[p].at = "number" /\ acting[p] \in Ticket!Runs
    BY <1>2, FlowThere DEF Ticket!Number
  <2>3. r \in Ticket!Runs /\ acting' = [acting EXCEPT ![p] = r]
    BY <1>2, <2>1, <2>2, NextNumberBeyond DEF Ticket!Number, Ticket!Runs
  <2>4. UNCHANGED <<unique, tickets, on, been, heard, word, overtaken, crowded, plan>>
    BY <1>2 DEF Ticket!Number
  <2>5. acting[p].ticket = None /\ acting[p].flow = "file"
    BY <2>2 DEF Typed, InFlow
  <2>6. r.ticket = None /\ r.at = "insert" /\ r.flow = "file"
    BY <2>1, <2>2, <2>5 DEF Ticket!Runs
  <2>7. QED  BY <2>3, <2>4, <2>6, FlowTyped DEF Typed, Ticket!TypeOK, Ticket!As
<1>3. CASE Ticket!GiveRouted(p)
  <2>1. PICK r : r = [acting[p] EXCEPT !.at = "level2"]
    OBVIOUS
  <2>2. acting[p] # None /\ acting[p].at = "give" /\ acting[p] \in Ticket!Runs
           /\ acting[p].ticket \in Ticket!There /\ acting[p].flow = "file"
    BY <1>3, FlowThere DEF Ticket!GiveRouted
  <2>3. r \in Ticket!Runs /\ acting' = [acting EXCEPT ![p] = r]
    BY <1>3, <2>1, <2>2 DEF Ticket!GiveRouted, Ticket!Runs
  <2>4. r.ticket = acting[p].ticket /\ r.at = "level2" /\ r.flow = "file"
    BY <2>1, <2>2 DEF Ticket!Runs
  <2>5. UNCHANGED <<unique, heard, crowded, plan>>
    BY <1>3 DEF Ticket!GiveRouted
  <2>6. CASE acting[p].new = None
    <3>1. UNCHANGED <<tickets, on, been, overtaken, word>>
      BY <1>3, <2>6 DEF Ticket!GiveRouted
    <3>2. QED  BY <2>2, <2>3, <2>4, <2>5, <3>1, FlowTyped, FlowThere DEF Typed, Ticket!TypeOK, Ticket!As
  <2>7. CASE acting[p].new # None
    <3>1. acting[p].new \in Residents /\ Ticket!HandTo(acting[p].ticket, acting[p].new, None, {}, p)
      BY <1>3, <2>2, <2>7 DEF Ticket!GiveRouted, Ticket!Runs
    <3>2. Ticket!There' = Ticket!There /\ Ticket!TypeOK' /\ Bounded'
      BY <2>2, <2>3, <2>5, <3>1, HandToTyped DEF Typed, Ticket!TypeOK
    <3>3. InFlow'
      BY <2>2, <2>3, <2>4, <3>2, FlowThere DEF Typed, Ticket!TypeOK, InFlow
    <3>4. InPlan'
      BY <2>5, <3>2 DEF Typed, InPlan
    <3>5. QED  BY <3>2, <3>3, <3>4 DEF Typed
  <2>8. QED  BY <2>6, <2>7
<1>4. CASE Ticket!AddLevel2(p)
  <2>1. PICK r : r = [acting[p] EXCEPT !.at = "look"]
    OBVIOUS
  <2>2. acting[p] # None /\ acting[p].at = "level2" /\ acting[p] \in Ticket!Runs /\ acting[p].ticket \in Ticket!There
    BY <1>4, FlowThere DEF Ticket!AddLevel2
  <2>3. r \in Ticket!Runs /\ acting' = [acting EXCEPT ![p] = r]
    BY <1>4, <2>1, <2>2 DEF Ticket!AddLevel2, Ticket!Runs
  <2>4. r.ticket = acting[p].ticket /\ r.at = "look" /\ r.flow = acting[p].flow /\ r.new = acting[p].new
    BY <2>1, <2>2 DEF Ticket!Runs
  <2>5. UNCHANGED <<unique, tickets, been, heard, overtaken, crowded, plan>>
    BY <1>4 DEF Ticket!AddLevel2
  <2>6. on' = [on EXCEPT ![acting[p].ticket] = @ \cup (Level2 \X {"level2"})]
           /\ on \in [Ids -> SUBSET (Residents \X Ticket!Roles)]
        /\ acting[p].ticket \in Ids
    BY <1>4, <2>2 DEF Ticket!AddLevel2, Typed, Ticket!TypeOK, Ticket!There
  <2>7. on' \in [Ids -> SUBSET (Residents \X Ticket!Roles)]
    BY <2>6 DEF Ticket!Given, Ticket!Roles
  <2>8. \A u \in Ticket!There, x \in Residents : <<x, "assignee">> \in on'[u] <=> <<x, "assignee">> \in on[u]
    BY <2>6 DEF Ticket!There
  <2>9. word' \in [Ids -> Residents \cup {"plan", "told", "mixed"}]
    BY <1>4, <2>6 DEF Ticket!AddLevel2, Typed, Ticket!TypeOK
  <2>10. \A u \in Ticket!There : Ticket!As(u, "assignee")' = Ticket!As(u, "assignee")
    BY <2>8 DEF Ticket!As
  <2>11. QED
    BY <2>2, <2>3, <2>4, <2>5, <2>7, <2>9, <2>10, FlowTyped, FlowThere DEF Typed, Ticket!TypeOK, InFlow
<1>5. CASE Ticket!Insert(p)
  <2>1. acting[p] # None /\ acting[p].at = "insert" /\ acting[p] \in Ticket!Runs /\ acting[p].flow = "file"
    BY <1>5, FlowThere DEF Ticket!Insert, Typed, InFlow
  <2>2. UNCHANGED <<unique, been, heard, word, overtaken, plan>>
    BY <1>5 DEF Ticket!Insert
  <2>3. crowded' \in BOOLEAN
    BY <1>5, Zenon DEF Ticket!Insert
  <2>4. CASE acting' = [acting EXCEPT ![p] = None] /\ UNCHANGED <<tickets, on>>
    BY <2>2, <2>3, <2>4, FlowTyped DEF Typed, Ticket!TypeOK, Ticket!As
  <2>5. CASE \E t \in Ids \ Ticket!There :
               /\ tickets' = [tickets EXCEPT ![t] = [number |-> acting[p].number, handler |-> None]]
               /\ on' = [on EXCEPT ![t] = {<<p, "requester">>}]
               /\ acting' = [acting EXCEPT ![p].ticket = t, ![p].at = "give"]
    <3>1. PICK t \in Ids \ Ticket!There :
               /\ tickets' = [tickets EXCEPT ![t] = [number |-> acting[p].number, handler |-> None]]
               /\ on' = [on EXCEPT ![t] = {<<p, "requester">>}]
               /\ acting' = [acting EXCEPT ![p].ticket = t, ![p].at = "give"]
      BY <2>5
    <3>2. PICK r : r = [acting[p] EXCEPT !.ticket = t, !.at = "give"]
      OBVIOUS
    <3>3. r \in Ticket!Runs /\ r.ticket = t /\ r.at = "give" /\ r.flow = "file" /\ acting' = [acting EXCEPT ![p] = r]
      BY <2>1, <3>1, <3>2 DEF Ticket!Runs
    <3>4. PICK c : c = [number |-> acting[p].number, handler |-> None]
      OBVIOUS
    <3>5. c \in Ticket!Rows /\ c # None /\ c.number = acting[p].number /\ c.number \in Nat /\ c.handler = None
      BY <2>1, <3>4 DEF Ticket!Rows, Ticket!Runs, Ticket!Given
    <3>6. tickets' = [tickets EXCEPT ![t] = c] /\ tickets \in [Ids -> Ticket!Rows \cup {None}]
      BY <3>1, <3>4 DEF Typed, Ticket!TypeOK
    <3>7. Ticket!There' = Ticket!There \cup {t}
      BY <3>5, <3>6 DEF Ticket!There
    <3>8. tickets' \in [Ids -> Ticket!Rows \cup {None}]
      BY <3>5, <3>6
    <3>9. on' \in [Ids -> SUBSET (Residents \X Ticket!Roles)]
      BY <3>1 DEF Ticket!Roles, Typed, Ticket!TypeOK
    <3>10. \A u \in Ticket!There' : Ticket!As(u, "assignee")' = {tickets'[u].handler} \ {None}
      <4>1. \A u \in Ticket!There : Ticket!As(u, "assignee")' = {tickets'[u].handler} \ {None}
        BY <3>1, <3>6 DEF Ticket!As, Typed, Ticket!TypeOK, Ticket!There
      <4>2. on'[t] = {<<p, "requester">>}
        BY <3>1 DEF Typed, Ticket!TypeOK
      <4>3. Ticket!As(t, "assignee")' = {}
        BY <4>2 DEF Ticket!As
      <4>4. tickets'[t].handler = None
        BY <3>5, <3>6
      <4>5. QED  BY <3>7, <4>1, <4>3, <4>4
    <3>11. Ticket!TypeOK'
      BY <2>2, <2>3, <3>3, <3>8, <3>9, <3>10 DEF Typed, Ticket!TypeOK
    <3>12. InFlow'
      BY <3>3, <3>7 DEF Typed, Ticket!TypeOK, InFlow, Ticket!Given
    <3>13. InPlan'
      BY <2>2, <3>7 DEF Typed, InPlan
    <3>14. Bounded'
      <4>1. PICK b \in Nat : \A u \in Ticket!There : tickets[u].number <= b
        BY DEF Typed, Bounded
      <4>2. PICK d \in Nat : d = b + c.number
        BY <3>5
      <4>3. \A u \in Ticket!There : tickets'[u].number <= d
        BY <3>5, <3>6, <4>1, <4>2 DEF Ticket!There, Ticket!Rows
      <4>4. tickets'[t].number <= d
        BY <3>5, <3>6, <4>2
      <4>5. QED  BY <3>7, <4>3, <4>4 DEF Bounded
    <3>15. QED  BY <3>11, <3>12, <3>13, <3>14 DEF Typed
  <2>6. QED  BY <1>5, <2>4, <2>5 DEF Ticket!Insert
<1>6. QED  BY <1>1, <1>2, <1>3, <1>4, <1>5

LEMMA PassingTyped ==
  ASSUME Ticket!Given, Typed, NEW p \in Residents, Ticket!Find(p) \/ Ticket!Authorize(p) \/ Ticket!KeepOld(p)
         \/ Ticket!Give(p)
  PROVE  Typed'
<1> USE DEF Ticket!Running, Ticket!To
<1>1. CASE Ticket!Find(p)
  <2>1. PICK t \in Ticket!There, new \in Residents :
          acting' = [acting EXCEPT ![p] = [flow |-> "pass", at |-> "authorize", ticket |-> t, number |-> 0,
                                     seen |-> tickets[t].handler, new |-> new, left |-> {}, has |-> {}]]
    BY <1>1 DEF Ticket!Find
  <2>2. PICK r : r = [flow |-> "pass", at |-> "authorize", ticket |-> t, number |-> 0,
                      seen |-> tickets[t].handler, new |-> new, left |-> {}, has |-> {}]
    OBVIOUS
  <2>3. t \in Ids /\ t # None /\ new # None /\ tickets[t].handler \in Residents \cup {None}
    BY DEF Ticket!There, Ticket!Given, Typed, Ticket!TypeOK, Ticket!Rows
  <2>4. r \in Ticket!Runs /\ acting' = [acting EXCEPT ![p] = r]
    BY <2>1, <2>2, <2>3 DEF Ticket!Runs
  <2>5. UNCHANGED <<unique, tickets, on, been, heard, word, overtaken, crowded, plan>>
    BY <1>1 DEF Ticket!Find
  <2>6. QED  BY <2>2, <2>3, <2>4, <2>5, FlowTyped DEF Typed, Ticket!TypeOK, Ticket!As
<1>2. CASE Ticket!Authorize(p)
  <2>1. PICK r : r = [acting[p] EXCEPT !.at = "keep"]
    OBVIOUS
  <2>2. acting[p] # None /\ acting[p].at = "authorize" /\ acting[p] \in Ticket!Runs
           /\ acting[p].ticket \in Ticket!There /\ acting[p].ticket # None
    BY <1>2, FlowThere DEF Ticket!Authorize
  <2>3. acting[p].flow = "pass" /\ acting[p].new # None
    BY <2>2 DEF Typed, InFlow
  <2>4. r \in Ticket!Runs /\ r.ticket = acting[p].ticket /\ r.at = "keep" /\ r.flow = "pass" /\ r.new = acting[p].new
    BY <2>1, <2>2, <2>3 DEF Ticket!Runs
  <2>5. acting' = [acting EXCEPT ![p] = r] \/ acting' = [acting EXCEPT ![p] = None]
    BY <1>2, <2>1 DEF Ticket!Authorize
  <2>6. UNCHANGED <<unique, tickets, on, been, heard, word, overtaken, crowded, plan>>
    BY <1>2 DEF Ticket!Authorize
  <2>7. acting' \in [Residents -> Ticket!Runs \cup {None}] /\ on' = on /\ tickets' = tickets /\ plan' = plan
    BY <2>4, <2>5, <2>6 DEF Typed, Ticket!TypeOK
  <2>8. QED  BY <2>2, <2>3, <2>4, <2>5, <2>6, <2>7, FlowTyped DEF Typed, Ticket!TypeOK, Ticket!As
<1>3. CASE Ticket!KeepOld(p)
  <2>1. PICK r : r = [acting[p] EXCEPT !.at = "give"]
    OBVIOUS
  <2>2. /\ acting[p] # None /\ acting[p].at = "keep" /\ acting[p] \in Ticket!Runs
           /\ acting[p].ticket \in Ticket!There /\ acting[p].ticket # None
        /\ acting[p].ticket \in Ids
    BY <1>3, FlowThere DEF Ticket!KeepOld
  <2>3. acting[p].flow = "pass" /\ acting[p].new # None /\ acting[p].seen \in Residents \cup {None}
    BY <2>2 DEF Typed, InFlow, Ticket!Runs
  <2>4. /\ r \in Ticket!Runs /\ r.ticket = acting[p].ticket /\ r.at = "give" /\ r.flow = "pass"
           /\ r.new = acting[p].new
        /\ acting' = [acting EXCEPT ![p] = r]
    BY <1>3, <2>1, <2>2, <2>3 DEF Ticket!KeepOld, Ticket!Runs
  <2>5. UNCHANGED <<unique, tickets, been, heard, overtaken, crowded, plan>>
    BY <1>3 DEF Ticket!KeepOld
  <2>6. /\ on' = [on EXCEPT ![acting[p].ticket] = @ \cup ({acting[p].seen} \ {None}) \X {"helper"}]
        /\ on \in [Ids -> SUBSET (Residents \X Ticket!Roles)]
    BY <1>3 DEF Ticket!KeepOld, Typed, Ticket!TypeOK
  <2>7. on' \in [Ids -> SUBSET (Residents \X Ticket!Roles)]
    BY <2>2, <2>3, <2>6 DEF Ticket!Roles
  <2>8. \A u \in Ticket!There, x \in Residents : <<x, "assignee">> \in on'[u] <=> <<x, "assignee">> \in on[u]
    BY <2>2, <2>6 DEF Ticket!There
  <2>9. word' \in [Ids -> Residents \cup {"plan", "told", "mixed"}]
    BY <1>3, <2>2 DEF Ticket!KeepOld, Typed, Ticket!TypeOK
  <2>10. \A u \in Ticket!There : Ticket!As(u, "assignee")' = Ticket!As(u, "assignee")
    BY <2>8 DEF Ticket!As
  <2>11. QED  BY <2>2, <2>3, <2>4, <2>5, <2>7, <2>9, <2>10, FlowTyped DEF Typed, Ticket!TypeOK
<1>4. CASE Ticket!Give(p)
  <2>1. PICK r : r = [acting[p] EXCEPT !.at = "look"]
    OBVIOUS
  <2>2. acting[p] # None /\ acting[p].at = "give" /\ acting[p] \in Ticket!Runs
           /\ acting[p].ticket \in Ticket!There /\ acting[p].flow = "pass"
    BY <1>4, FlowThere DEF Ticket!Give
  <2>3. acting[p].new \in Residents
    BY <2>2 DEF Typed, InFlow, Ticket!Runs
  <2>4. /\ r \in Ticket!Runs /\ r.ticket = acting[p].ticket /\ r.at = "look" /\ r.flow = "pass" /\ r.new # None
        /\ acting' = [acting EXCEPT ![p] = r]
    BY <1>4, <2>1, <2>2, <2>3 DEF Ticket!Give, Ticket!Runs, Ticket!Given
  <2>5. UNCHANGED <<unique, heard, crowded, plan>>
           /\ Ticket!HandTo(acting[p].ticket, acting[p].new, acting[p].seen, {}, p)
    BY <1>4 DEF Ticket!Give
  <2>6. Ticket!There' = Ticket!There /\ Ticket!TypeOK' /\ Bounded'
    BY <2>2, <2>3, <2>4, <2>5, HandToTyped DEF Typed, Ticket!TypeOK
  <2>7. InFlow'
    BY <2>2, <2>4, <2>6, FlowThere DEF Typed, Ticket!TypeOK, InFlow
  <2>8. InPlan'
    BY <2>5, <2>6 DEF Typed, InPlan
  <2>9. QED  BY <2>6, <2>7, <2>8 DEF Typed
<1>5. QED  BY <1>1, <1>2, <1>3, <1>4

LEMMA TellingTyped ==
  ASSUME Ticket!Given, Typed, NEW p \in Residents, Ticket!Look(p) \/ Ticket!Tell(p) \/ Ticket!Answer(p)
         \/ Ticket!BreakOff(p)
  PROVE  Typed'
<1> USE DEF Ticket!Running, Ticket!To
<1>1. CASE Ticket!Look(p)
  <2>1. PICK r : r = [acting[p] EXCEPT !.left = Ticket!OnIt(acting[p].ticket) \ {p},
           !.has = Ticket!As(acting[p].ticket, "assignee"),
                                    !.at = "tell"]
    OBVIOUS
  <2>2. acting[p] # None /\ acting[p].at = "look" /\ acting[p] \in Ticket!Runs
           /\ acting[p].ticket \in Ticket!There /\ acting[p].ticket # None
    BY <1>1, FlowThere DEF Ticket!Look
  <2>3. Ticket!OnIt(acting[p].ticket) \ {p} \in SUBSET Residents
           /\ Ticket!As(acting[p].ticket, "assignee") \in SUBSET Residents
    <3>1. on[acting[p].ticket] \in SUBSET (Residents \X Ticket!Roles)
      BY <2>2 DEF Ticket!There, Typed, Ticket!TypeOK
    <3>2. QED  BY <3>1 DEF Ticket!OnIt, Ticket!As
  <2>4. acting[p].flow = "pass" => acting[p].new # None
    BY <2>2 DEF Typed, InFlow
  <2>5. r \in Ticket!Runs /\ r.ticket = acting[p].ticket /\ r.at = "tell" /\ r.flow = acting[p].flow
           /\ r.new = acting[p].new
    BY <2>1, <2>2, <2>3 DEF Ticket!Runs
  <2>6. acting' = [acting EXCEPT ![p] = r]
    BY <1>1, <2>1 DEF Ticket!Look
  <2>7. UNCHANGED <<unique, tickets, on, been, heard, word, overtaken, crowded, plan>>
    BY <1>1 DEF Ticket!Look
  <2>8. QED  BY <2>2, <2>4, <2>5, <2>6, <2>7, FlowTyped DEF Typed, Ticket!TypeOK, Ticket!As
<1>2. CASE Ticket!Tell(p)
  <2>1. PICK q \in acting[p].left :
          /\ acting' = [acting EXCEPT ![p].left = @ \ {q}]
          /\ \/ /\ heard' = [heard EXCEPT ![acting[p].ticket][q] =
                               IF q \in acting[p].has THEN q ELSE IF acting[p].flow = "pass" THEN acting[p].new
                               ELSE heard[acting[p].ticket][q]]
                /\ UNCHANGED word
             \/ Ticket!Unheard(acting[p].ticket, p) /\ UNCHANGED heard
    BY <1>2 DEF Ticket!Tell
  <2>2. /\ acting[p] # None /\ acting[p].at = "tell" /\ acting[p] \in Ticket!Runs
           /\ acting[p].ticket \in Ticket!There /\ acting[p].ticket # None
        /\ acting[p].ticket \in Ids
    BY <1>2, FlowThere DEF Ticket!Tell
  <2>3. PICK r : r = [acting[p] EXCEPT !.left = acting[p].left \ {q}]
    OBVIOUS
  <2>4. r \in Ticket!Runs /\ r.ticket = acting[p].ticket /\ r.at = "tell" /\ r.flow = acting[p].flow
           /\ r.new = acting[p].new
    BY <2>2, <2>3 DEF Ticket!Runs
  <2>5. acting' = [acting EXCEPT ![p] = r]
    BY <2>1, <2>3
  <2>6. acting[p].flow = "pass" => acting[p].new # None
    BY <2>2 DEF Typed, InFlow
  <2>7. q \in Residents /\ acting[p].new \in Residents \cup {None}
    BY <2>2 DEF Ticket!Runs
  <2>8. heard' \in [Ids -> [Residents -> Residents \cup {None}]]
    <3>1. heard \in [Ids -> [Residents -> Residents \cup {None}]]
      BY DEF Typed, Ticket!TypeOK
    <3>2. PICK x : x = IF q \in acting[p].has THEN q ELSE IF acting[p].flow = "pass" THEN acting[p].new
                       ELSE heard[acting[p].ticket][q]
      OBVIOUS
    <3>3. x \in Residents \cup {None}
      BY <2>2, <2>7, <3>1, <3>2
    <3>4. heard' = [heard EXCEPT ![acting[p].ticket][q] = x] \/ heard' = heard
      BY <2>1, <3>2
    <3>5. QED  BY <2>2, <2>7, <3>1, <3>3, <3>4
  <2>9. word' \in [Ids -> Residents \cup {"plan", "told", "mixed"}]
    BY <2>1, <2>2 DEF Ticket!Unheard, Typed, Ticket!TypeOK
  <2>10. UNCHANGED <<unique, tickets, on, been, overtaken, crowded, plan>>
    BY <1>2 DEF Ticket!Tell
  <2>11. QED  BY <2>2, <2>4, <2>5, <2>6, <2>8, <2>9, <2>10, FlowTyped DEF Typed, Ticket!TypeOK, Ticket!As
<1>3. CASE Ticket!Answer(p)
  <2>1. acting[p] # None /\ acting[p].at = "tell" /\ acting[p] \in Ticket!Runs /\ acting[p].ticket \in Ids
    BY <1>3, FlowThere DEF Ticket!Answer
  <2>2. acting[p].new \in Residents \cup {None}
    BY <2>1 DEF Ticket!Runs
  <2>3. heard' \in [Ids -> [Residents -> Residents \cup {None}]]
    BY <1>3, <2>1, <2>2 DEF Ticket!Answer, Typed, Ticket!TypeOK
  <2>4. word' \in [Ids -> Residents \cup {"plan", "told", "mixed"}]
    BY <1>3, <2>1 DEF Ticket!Answer, Typed, Ticket!TypeOK
  <2>5. UNCHANGED <<unique, tickets, on, been, overtaken, crowded, plan>> /\ acting' = [acting EXCEPT ![p] = None]
    BY <1>3 DEF Ticket!Answer
  <2>6. QED  BY <2>3, <2>4, <2>5, FlowTyped DEF Typed, Ticket!TypeOK, Ticket!As
<1>4. CASE Ticket!BreakOff(p)
  <2>1. word' \in [Ids -> Residents \cup {"plan", "told", "mixed"}]
    BY <1>4 DEF Ticket!BreakOff, Ticket!Unheard, Typed, Ticket!TypeOK
  <2>2. UNCHANGED <<unique, tickets, on, been, heard, overtaken, crowded, plan>>
           /\ acting' = [acting EXCEPT ![p] = None]
    BY <1>4 DEF Ticket!BreakOff
  <2>3. QED  BY <2>1, <2>2, FlowTyped DEF Typed, Ticket!TypeOK, Ticket!As
<1>5. QED  BY <1>1, <1>2, <1>3, <1>4

LEMMA PlanningTyped ==
  ASSUME Ticket!Given, Typed, NEW t \in Ids, Ticket!PlanReads(t) \/ Ticket!PlanTargets(t) \/ Ticket!PlanGives(t)
         \/ Ticket!PlanTells(t)
  PROVE  Typed'
<1>1. CASE Ticket!PlanReads(t)
  <2>1. PICK r : r = [at |-> "target", old |-> tickets[t].handler, new |-> None]
    OBVIOUS
  <2>2. t \in Ticket!There /\ plan' = [plan EXCEPT ![t] = r]
    BY <1>1, <2>1 DEF Ticket!PlanReads
  <2>3. tickets[t].handler \in Residents \cup {None}
    BY <2>2 DEF Ticket!There, Typed, Ticket!TypeOK, Ticket!Rows
  <2>4. r \in Ticket!Plans /\ r.at = "target"
    BY <2>1, <2>3 DEF Ticket!Plans
  <2>5. UNCHANGED <<unique, tickets, on, been, heard, word, overtaken, crowded, acting>>
    BY <1>1 DEF Ticket!PlanReads
  <2>6. QED  BY <2>2, <2>4, <2>5, PlanTyped DEF Typed, Ticket!TypeOK
<1>2. CASE Ticket!PlanTargets(t)
  <2>1. plan[t] # None /\ plan[t] \in Ticket!Plans /\ t \in Ticket!There
    BY <1>2 DEF Ticket!PlanTargets, Typed, Ticket!TypeOK, InPlan
  <2>2. UNCHANGED <<unique, tickets, on, been, heard, word, overtaken, crowded, acting>>
    BY <1>2 DEF Ticket!PlanTargets
  <2>3. CASE plan' = [plan EXCEPT ![t] = None]
    BY <2>1, <2>2, <2>3, PlanTyped DEF Typed, Ticket!TypeOK
  <2>4. CASE \E q \in Ticket!As(t, "level2") \ {plan[t].old} : plan' = [plan EXCEPT ![t].new = q, ![t].at = "give"]
    <3>1. PICK q \in Ticket!As(t, "level2") : plan' = [plan EXCEPT ![t].new = q, ![t].at = "give"]
      BY <2>4
    <3>2. PICK r : r = [plan[t] EXCEPT !.new = q, !.at = "give"]
      OBVIOUS
    <3>3. q \in Residents
      BY DEF Ticket!As
    <3>4. r \in Ticket!Plans /\ r.new = q /\ plan' = [plan EXCEPT ![t] = r]
      BY <2>1, <3>1, <3>2, <3>3 DEF Ticket!Plans
    <3>5. QED  BY <2>1, <2>2, <3>3, <3>4, PlanTyped DEF Typed, Ticket!TypeOK
  <2>5. QED  BY <1>2, <2>3, <2>4 DEF Ticket!PlanTargets
<1>3. CASE Ticket!PlanGives(t)
  <2>1. plan[t] # None /\ plan[t] \in Ticket!Plans /\ t \in Ticket!There /\ plan[t].at = "give"
           /\ plan[t].new \in Residents
    BY <1>3 DEF Ticket!PlanGives, Typed, Ticket!TypeOK, InPlan
  <2>2. PICK r : r = [plan[t] EXCEPT !.at = "tell"]
    OBVIOUS
  <2>3. r \in Ticket!Plans /\ r.new = plan[t].new /\ plan' = [plan EXCEPT ![t] = r]
    BY <1>3, <2>1, <2>2 DEF Ticket!PlanGives, Ticket!Plans
  <2>4. UNCHANGED <<unique, heard, crowded, acting>>
    BY <1>3 DEF Ticket!PlanGives
  <2>5. PICK parties \in SUBSET (Residents \X {"level2"}) :
           Ticket!HandTo(t, plan[t].new, plan[t].old, parties, "plan")
    <3>1. ({plan[t].old} \ {None}) \X {"level2"} \in SUBSET (Residents \X {"level2"})
      BY <2>1 DEF Ticket!Plans
    <3>2. QED  BY <1>3, <3>1 DEF Ticket!PlanGives
  <2>6. Ticket!There' = Ticket!There /\ Ticket!TypeOK' /\ Bounded'
    BY <2>1, <2>3, <2>4, <2>5, HandToTyped DEF Typed, Ticket!TypeOK
  <2>7. InFlow'
    BY <2>4, <2>6 DEF Typed, InFlow
  <2>8. InPlan'
    BY <2>1, <2>3, <2>6 DEF Typed, Ticket!TypeOK, InPlan
  <2>9. QED  BY <2>6, <2>7, <2>8 DEF Typed
<1>4. CASE Ticket!PlanTells(t)
  <2>1. plan[t] # None /\ plan[t] \in Ticket!Plans /\ t \in Ticket!There
    BY <1>4 DEF Ticket!PlanTells, Typed, Ticket!TypeOK, InPlan
  <2>2. plan' = [plan EXCEPT ![t] = None] /\ UNCHANGED <<unique, tickets, on, been, overtaken, crowded, acting>>
    BY <1>4 DEF Ticket!PlanTells
  <2>3. word' \in [Ids -> Residents \cup {"plan", "told", "mixed"}]
    BY <1>4 DEF Ticket!PlanTells, Ticket!Unheard, Typed, Ticket!TypeOK
  <2>4. heard' \in [Ids -> [Residents -> Residents \cup {None}]]
    <3>1. [p \in Residents |-> IF p \in {plan[t].old, plan[t].new} THEN plan[t].new ELSE heard[t][p]]
            \in [Residents -> Residents \cup {None}]
      BY <2>1 DEF Ticket!Plans, Typed, Ticket!TypeOK
    <3>2. QED  BY <1>4, <3>1 DEF Ticket!PlanTells, Typed, Ticket!TypeOK
  <2>5. QED  BY <2>1, <2>2, <2>3, <2>4, PlanTyped
<1>5. QED  BY <1>1, <1>2, <1>3, <1>4

LEMMA Next_Typed ==
  ASSUME Ticket!Given, Typed, [Ticket!Next]_(Ticket!vars)
  PROVE  Typed'
<1>1. CASE UNCHANGED Ticket!vars
  BY <1>1 DEF Ticket!vars, Typed, Ticket!TypeOK, InFlow, InPlan, Bounded, Ticket!There, Ticket!As
<1>2. QED  BY <1>1, FilingTyped, PassingTyped, TellingTyped, PlanningTyped DEF Ticket!Next

\* The rows of cases, who is on them, what people heard and the flows under way are always of their types, and the
\* assignee's row of case_parties is that of the handler.
THEOREM TypeCorrect == Ticket!Spec => []Ticket!TypeOK
<1> USE TicketGiven
<1>1. Ticket!Init => Typed
  BY Init_Typed
<1>2. Typed /\ [Ticket!Next]_(Ticket!vars) => Typed'
  BY Next_Typed
<1>3. Typed => Ticket!TypeOK
  BY DEF Typed
<1>4. QED  BY <1>1, <1>2, <1>3, PTL DEF Ticket!Spec

-----------------------------------------------------------------------------
(* Whoever handled a ticket stays on it *)

\* Before it is filed nobody has handled it.
Before == \A t \in Ids \ Ticket!There : been[t] = {}

\* Who is about to pass a ticket on has kept the handler they read as a helper.
KeptBack ==
  \A p \in Residents : acting[p] # None /\ acting[p].flow = "pass" /\ acting[p].at = "give" =>
    acting[p].seen = None \/ <<acting[p].seen, "helper">> \in on[acting[p].ticket]

Kept == Ticket!NobodyDropsOut /\ Before /\ KeptBack

\* Putting people on tickets takes nobody off.
LEMMA PuttingOnKeeps ==
  ASSUME Typed, Kept, Ticket!There' = Ticket!There, UNCHANGED <<been, overtaken>>,
         \A t \in Ids : on[t] \subseteq on'[t],
         NEW p \in Residents, \A q \in Residents \ {p} : acting'[q] = acting[q],
         acting'[p] # None /\ acting'[p].flow = "pass" /\ acting'[p].at = "give" =>
           acting'[p].seen = None \/ <<acting'[p].seen, "helper">> \in on'[acting'[p].ticket]
  PROVE  Kept'
<1>1. \A t \in Ids : Ticket!OnIt(t) \subseteq Ticket!OnIt(t)'
  BY DEF Ticket!OnIt
<1>2. Ticket!NobodyDropsOut' /\ Before'
  BY <1>1 DEF Kept, Ticket!NobodyDropsOut, Before, Ticket!There
<1>3. KeptBack'
  <2> SUFFICES ASSUME NEW q \in Residents, acting'[q] # None, acting'[q].flow = "pass", acting'[q].at = "give"
               PROVE  acting'[q].seen = None \/ <<acting'[q].seen, "helper">> \in on'[acting'[q].ticket]
    BY DEF KeptBack
  <2>1. CASE q = p
    BY <2>1
  <2>2. CASE q # p
    <3>1. acting'[q] = acting[q] /\ acting[q].ticket \in Ids
      BY <2>2 DEF Typed, InFlow, Ticket!There
    <3>2. QED  BY <3>1 DEF Kept, KeptBack
  <2>3. QED  BY <2>1, <2>2
<1>4. QED  BY <1>2, <1>3 DEF Kept

\* A hand-over takes only the assignee's row away, and that handler is kept in another one, or another had read it.
LEMMA HandToKeeps ==
  ASSUME Ticket!Given, Typed, Kept, NEW t \in Ticket!There, NEW new \in Residents, NEW seen,
         NEW parties \in SUBSET (Residents \X {"level2"}), NEW who \in Residents \cup {"plan"},
         Ticket!HandTo(t, new, seen, parties, who),
         seen = None \/ <<seen, "helper">> \in on[t] \/ <<seen, "level2">> \in parties
  PROVE  /\ Ticket!NobodyDropsOut' /\ Before'
         /\ \A u \in Ids, x \in Residents : <<x, "helper">> \in on[u] => <<x, "helper">> \in on'[u]
<1>1. /\ Ticket!There' = Ticket!There /\ t \in Ids /\ on'[t] = Ticket!Synced(t, new) \cup parties
      /\ \A u \in Ids \ {t} : on'[u] = on[u]
  BY HandToTyped DEF Ticket!HandTo, Typed, Ticket!TypeOK
<1>2. been'[t] = been[t] \cup {new} /\ \A u \in Ids \ {t} : been'[u] = been[u]
  BY <1>1 DEF Ticket!HandTo, Typed, Ticket!TypeOK
<1>3. \A u \in Ids \ {t} : overtaken'[u] <=> overtaken[u]
  BY <1>1 DEF Ticket!HandTo, Typed, Ticket!TypeOK
<1>4. ~overtaken'[t] => ~overtaken[t] /\ tickets[t].handler = seen
  BY <1>1 DEF Ticket!HandTo, Typed, Ticket!TypeOK
<1>5. ASSUME ~overtaken'[t], NEW x \in been'[t] PROVE x \in Ticket!OnIt(t)'
  <2>1. CASE x = new
    <3>1. <<new, "assignee">> \in on'[t]
      BY <1>1 DEF Ticket!Synced
    <3>2. QED  BY <2>1, <3>1 DEF Ticket!OnIt
  <2>2. CASE x # new
    <3>1. x \in been[t] /\ x \in Ticket!OnIt(t) /\ x \in Residents
      BY <1>1, <1>2, <1>4, <1>5, <2>2 DEF Kept, Ticket!NobodyDropsOut, Typed, Ticket!TypeOK
    <3>2. PICK party \in on[t] : party[1] = x
      BY <3>1 DEF Ticket!OnIt
    <3>3. party \in Residents \X Ticket!Roles
      BY <1>1, <3>2 DEF Typed, Ticket!TypeOK
    <3>4. CASE party[2] # "assignee"
      <4>1. party \in on'[t]
        BY <1>1, <3>2, <3>4 DEF Ticket!Synced
      <4>2. QED  BY <3>2, <4>1 DEF Ticket!OnIt
    <3>5. CASE party[2] = "assignee"
      <4>1. x \in Ticket!As(t, "assignee")
        BY <3>1, <3>2, <3>3, <3>5 DEF Ticket!As
      <4>2. x = seen /\ seen # None
        BY <1>4, <1>5, <4>1 DEF Typed, Ticket!TypeOK
      <4>3. <<x, "helper">> \in on'[t] \/ <<x, "level2">> \in on'[t]
        BY <1>1, <4>2 DEF Ticket!Synced
      <4>4. QED  BY <4>3 DEF Ticket!OnIt
    <3>6. QED  BY <3>4, <3>5
  <2>3. QED  BY <2>1, <2>2
<1>6. Ticket!NobodyDropsOut'
  <2> SUFFICES ASSUME NEW u \in Ticket!There, ~overtaken'[u] PROVE been'[u] \subseteq Ticket!OnIt(u)'
    BY <1>1 DEF Ticket!NobodyDropsOut
  <2>1. CASE u = t
    BY <1>5, <2>1
  <2>2. CASE u # t
    BY <1>1, <1>2, <1>3, <2>2 DEF Ticket!OnIt, Ticket!There, Kept, Ticket!NobodyDropsOut
  <2>3. QED  BY <2>1, <2>2
<1>7. Before'
  BY <1>1, <1>2 DEF Kept, Before
<1>8. \A u \in Ids, x \in Residents : <<x, "helper">> \in on[u] => <<x, "helper">> \in on'[u]
  BY <1>1 DEF Ticket!Synced
<1>9. QED  BY <1>6, <1>7, <1>8

LEMMA Init_Kept ==
  ASSUME Ticket!Init
  PROVE  Kept
BY DEF Ticket!Init, Kept, Ticket!NobodyDropsOut, Before, KeptBack, Ticket!There

LEMMA FlowKeeps ==
  ASSUME Ticket!Given, Typed, Kept, NEW p \in Residents,
         \/ Ticket!StartFile(p) \/ Ticket!Number(p) \/ Ticket!AddLevel2(p) \/ Ticket!Find(p)
         \/ Ticket!Authorize(p) \/ Ticket!KeepOld(p)
         \/ Ticket!Look(p) \/ Ticket!Tell(p) \/ Ticket!Answer(p) \/ Ticket!BreakOff(p)
  PROVE  Kept'
<1> USE DEF Ticket!Running, Ticket!To
<1>1. UNCHANGED <<tickets, been, overtaken>> /\ Ticket!There' = Ticket!There
  BY DEF Ticket!StartFile, Ticket!Number, Ticket!AddLevel2, Ticket!Find, Ticket!Authorize, Ticket!KeepOld,
     Ticket!Look, Ticket!Tell, Ticket!Answer, Ticket!BreakOff, Ticket!There
<1>2. /\ acting \in [Residents -> Ticket!Runs \cup {None}] /\ on \in [Ids -> SUBSET (Residents \X Ticket!Roles)]
      /\ acting[p] # None => acting[p] \in Ticket!Runs
  BY DEF Typed, Ticket!TypeOK
<1>3. \A q \in Residents \ {p} : acting'[q] = acting[q]
  BY <1>2 DEF Ticket!StartFile, Ticket!Number, Ticket!AddLevel2, Ticket!Find, Ticket!Authorize, Ticket!KeepOld,
     Ticket!Look, Ticket!Tell, Ticket!Answer, Ticket!BreakOff
<1>4. \A t \in Ids : on[t] \subseteq on'[t]
  <2>1. CASE Ticket!AddLevel2(p)
    BY <1>2, <2>1 DEF Ticket!AddLevel2
  <2>2. CASE Ticket!KeepOld(p)
    BY <1>2, <2>2 DEF Ticket!KeepOld
  <2>3. CASE ~Ticket!AddLevel2(p) /\ ~Ticket!KeepOld(p)
    <3>1. on' = on
      BY <2>3 DEF Ticket!StartFile, Ticket!Number, Ticket!Find, Ticket!Authorize, Ticket!Look, Ticket!Tell,
         Ticket!Answer, Ticket!BreakOff
    <3>2. QED  BY <3>1
  <2>4. QED  BY <2>1, <2>2, <2>3
<1>5. ASSUME acting'[p] # None, acting'[p].at = "give"
      PROVE  acting'[p].seen = None \/ <<acting'[p].seen, "helper">> \in on'[acting'[p].ticket]
  <2>1. Ticket!KeepOld(p)
    <3>1. ~Ticket!StartFile(p) /\ ~Ticket!Find(p)
      BY <1>2, <1>5 DEF Ticket!StartFile, Ticket!Find
    <3>2. ~Ticket!Number(p) /\ ~Ticket!AddLevel2(p) /\ ~Ticket!Look(p)
      BY <1>2, <1>5 DEF Ticket!Number, Ticket!AddLevel2, Ticket!Look, Ticket!Runs
    <3>3. ~Ticket!Tell(p)
      BY <1>2, <1>5 DEF Ticket!Tell, Ticket!Runs
    <3>4. ~Ticket!Authorize(p) /\ ~Ticket!Answer(p) /\ ~Ticket!BreakOff(p)
      BY <1>2, <1>5 DEF Ticket!Authorize, Ticket!Answer, Ticket!BreakOff, Ticket!Runs
    <3>5. QED  BY <3>1, <3>2, <3>3, <3>4
  <2>2. acting[p] # None /\ acting[p].at = "keep" /\ acting[p] \in Ticket!Runs /\ acting[p].ticket \in Ids
    BY <2>1, FlowThere DEF Ticket!KeepOld
  <2>3. acting'[p].seen = acting[p].seen /\ acting'[p].ticket = acting[p].ticket
    BY <1>2, <2>1, <2>2 DEF Ticket!KeepOld, Ticket!Runs
  <2>4. on'[acting[p].ticket] = on[acting[p].ticket] \cup ({acting[p].seen} \ {None}) \X {"helper"}
    BY <1>2, <2>1, <2>2 DEF Ticket!KeepOld
  <2>5. QED  BY <2>3, <2>4
<1>6. QED  BY <1>1, <1>3, <1>4, <1>5, PuttingOnKeeps

LEMMA InsertKeeps ==
  ASSUME Ticket!Given, Typed, Kept, NEW p \in Residents, Ticket!Insert(p)
  PROVE  Kept'
<1>1. acting[p] # None /\ acting[p].at = "insert" /\ acting[p] \in Ticket!Runs
         /\ acting \in [Residents -> Ticket!Runs \cup {None}]
  BY FlowThere DEF Ticket!Insert, Ticket!Running
<1>2. acting[p].flow = "file"
  BY <1>1 DEF Typed, InFlow
<1>3. UNCHANGED <<been, overtaken>>
  BY DEF Ticket!Insert
<1>4. CASE acting' = [acting EXCEPT ![p] = None] /\ UNCHANGED <<tickets, on>>
  BY <1>1, <1>3, <1>4, PuttingOnKeeps DEF Ticket!There
<1>5. CASE \E t \in Ids \ Ticket!There :
             /\ tickets' = [tickets EXCEPT ![t] = [number |-> acting[p].number, handler |-> None]]
             /\ on' = [on EXCEPT ![t] = {<<p, "requester">>}]
             /\ acting' = [acting EXCEPT ![p].ticket = t, ![p].at = "give"]
  <2>1. PICK t \in Ids \ Ticket!There :
             /\ tickets' = [tickets EXCEPT ![t] = [number |-> acting[p].number, handler |-> None]]
             /\ on' = [on EXCEPT ![t] = {<<p, "requester">>}]
             /\ acting' = [acting EXCEPT ![p].ticket = t, ![p].at = "give"]
    BY <1>5
  <2>2. Ticket!There \subseteq Ticket!There' /\ Ticket!There' \subseteq Ticket!There \cup {t}
    BY <2>1 DEF Ticket!There, Typed, Ticket!TypeOK
  <2>3. \A u \in Ticket!There : on'[u] = on[u]
    BY <2>1 DEF Ticket!There, Typed, Ticket!TypeOK
  <2>4. Ticket!NobodyDropsOut'
    <3> SUFFICES ASSUME NEW u \in Ticket!There', ~overtaken[u] PROVE been[u] \subseteq Ticket!OnIt(u)'
      BY <1>3 DEF Ticket!NobodyDropsOut
    <3>1. CASE u \in Ticket!There
      BY <2>3, <3>1 DEF Kept, Ticket!NobodyDropsOut, Ticket!OnIt
    <3>2. CASE u = t
      BY <3>2 DEF Kept, Before
    <3>3. QED  BY <2>2, <3>1, <3>2
  <2>5. Before'
    BY <1>3, <2>2 DEF Kept, Before
  <2>6. KeptBack'
    <3>1. acting'[p].flow = "file" /\ \A q \in Residents \ {p} : acting'[q] = acting[q]
      BY <1>1, <1>2, <2>1 DEF Ticket!Runs
    <3>2. \A q \in Residents : acting[q] # None /\ acting[q].at = "give" => acting[q].ticket \in Ticket!There
      BY FlowThere
    <3>3. QED  BY <2>3, <3>1, <3>2 DEF Kept, KeptBack
  <2>7. QED  BY <2>4, <2>5, <2>6 DEF Kept
<1>6. QED  BY <1>4, <1>5 DEF Ticket!Insert

LEMMA GivingKeeps ==
  ASSUME Ticket!Given, Typed, Kept, NEW p \in Residents, Ticket!GiveRouted(p) \/ Ticket!Give(p)
  PROVE  Kept'
<1>1. /\ acting[p] # None /\ acting[p].at = "give" /\ acting[p] \in Ticket!Runs /\ acting[p].ticket \in Ticket!There
      /\ acting \in [Residents -> Ticket!Runs \cup {None}]
  BY FlowThere DEF Ticket!GiveRouted, Ticket!Give, Ticket!Running
<1>2. acting'[p].at # "give" /\ \A q \in Residents \ {p} : acting'[q] = acting[q]
  BY <1>1 DEF Ticket!GiveRouted, Ticket!Give, Ticket!To, Ticket!Runs
<1>3. CASE UNCHANGED <<tickets, on, been, overtaken>>
  BY <1>2, <1>3, PuttingOnKeeps DEF Ticket!There
<1>4. ASSUME NEW new \in Residents, NEW seen \in Residents \cup {None},
             Ticket!HandTo(acting[p].ticket, new, seen, {}, p),
             seen = None \/ <<seen, "helper">> \in on[acting[p].ticket]
      PROVE  Kept'
  <2>1. /\ Ticket!NobodyDropsOut' /\ Before'
        /\ \A u \in Ids, x \in Residents : <<x, "helper">> \in on[u] => <<x, "helper">> \in on'[u]
    BY <1>1, <1>4, HandToKeeps
  <2>2. KeptBack'
    <3> SUFFICES ASSUME NEW q \in Residents, acting'[q] # None, acting'[q].flow = "pass", acting'[q].at = "give"
                 PROVE  acting'[q].seen = None \/ <<acting'[q].seen, "helper">> \in on'[acting'[q].ticket]
      BY DEF KeptBack
    <3>1. acting'[q] = acting[q] /\ acting[q] \in Ticket!Runs /\ acting[q].ticket \in Ids
      BY <1>1, <1>2, FlowThere
    <3>2. acting[q].seen \in Residents \cup {None}
      BY <3>1 DEF Ticket!Runs
    <3>3. QED  BY <2>1, <3>1, <3>2 DEF Kept, KeptBack
  <2>3. QED  BY <2>1, <2>2 DEF Kept
<1>5. CASE Ticket!GiveRouted(p)
  <2>1. CASE acting[p].new = None
    BY <1>3, <1>5, <2>1 DEF Ticket!GiveRouted
  <2>2. CASE acting[p].new # None
    <3>1. acting[p].new \in Residents
      BY <1>1, <2>2 DEF Ticket!Runs
    <3>2. QED  BY <1>4, <1>5, <2>2, <3>1 DEF Ticket!GiveRouted
  <2>3. QED  BY <2>1, <2>2
<1>6. CASE Ticket!Give(p)
  <2>1. acting[p].flow = "pass" /\ Ticket!HandTo(acting[p].ticket, acting[p].new, acting[p].seen, {}, p)
    BY <1>6 DEF Ticket!Give
  <2>2. acting[p].new \in Residents /\ acting[p].seen \in Residents \cup {None}
    BY <1>1, <2>1 DEF Typed, InFlow, Ticket!Runs
  <2>3. acting[p].seen = None \/ <<acting[p].seen, "helper">> \in on[acting[p].ticket]
    BY <1>1, <2>1 DEF Kept, KeptBack
  <2>4. QED  BY <1>4, <2>1, <2>2, <2>3
<1>7. QED  BY <1>5, <1>6

LEMMA PlanningKeeps ==
  ASSUME Ticket!Given, Typed, Kept, NEW t \in Ids, Ticket!PlanReads(t) \/ Ticket!PlanTargets(t)
         \/ Ticket!PlanGives(t) \/ Ticket!PlanTells(t)
  PROVE  Kept'
<1>1. CASE Ticket!PlanReads(t) \/ Ticket!PlanTargets(t) \/ Ticket!PlanTells(t)
  <2>1. UNCHANGED <<tickets, on, been, overtaken, acting>> /\ Ticket!There' = Ticket!There
    BY <1>1 DEF Ticket!PlanReads, Ticket!PlanTargets, Ticket!PlanTells, Ticket!There
  <2>2. QED  BY <2>1 DEF Kept, Ticket!NobodyDropsOut, Before, KeptBack, Ticket!OnIt
<1>2. CASE Ticket!PlanGives(t)
  <2>1. plan[t] # None /\ plan[t] \in Ticket!Plans /\ t \in Ticket!There /\ plan[t].new \in Residents
           /\ acting' = acting
    BY <1>2 DEF Ticket!PlanGives, Typed, Ticket!TypeOK, InPlan
  <2>2. PICK parties \in SUBSET (Residents \X {"level2"}) :
          /\ parties = ({plan[t].old} \ {None}) \X {"level2"}
          /\ Ticket!HandTo(t, plan[t].new, plan[t].old, parties, "plan")
    <3>1. ({plan[t].old} \ {None}) \X {"level2"} \in SUBSET (Residents \X {"level2"})
      BY <2>1 DEF Ticket!Plans
    <3>2. QED  BY <1>2, <3>1 DEF Ticket!PlanGives
  <2>3. plan[t].old = None \/ <<plan[t].old, "level2">> \in parties
    BY <2>2
  <2>4. /\ Ticket!NobodyDropsOut' /\ Before'
        /\ \A u \in Ids, x \in Residents : <<x, "helper">> \in on[u] => <<x, "helper">> \in on'[u]
    BY <2>1, <2>2, <2>3, HandToKeeps
  <2>5. KeptBack'
    <3> SUFFICES ASSUME NEW q \in Residents, acting[q] # None, acting[q].flow = "pass", acting[q].at = "give"
                 PROVE  acting[q].seen = None \/ <<acting[q].seen, "helper">> \in on'[acting[q].ticket]
      BY <2>1 DEF KeptBack
    <3>1. acting[q] \in Ticket!Runs /\ acting[q].ticket \in Ids
      BY FlowThere
    <3>2. acting[q].seen \in Residents \cup {None}
      BY <3>1 DEF Ticket!Runs
    <3>3. QED  BY <2>4, <3>1, <3>2 DEF Kept, KeptBack
  <2>6. QED  BY <2>4, <2>5 DEF Kept
<1>3. QED  BY <1>1, <1>2

LEMMA Next_Kept ==
  ASSUME Ticket!Given, Typed, Kept, [Ticket!Next]_(Ticket!vars)
  PROVE  Kept'
<1>1. CASE UNCHANGED Ticket!vars
  BY <1>1 DEF Ticket!vars, Kept, Ticket!NobodyDropsOut, Before, KeptBack, Ticket!There, Ticket!OnIt
<1>2. QED  BY <1>1, FlowKeeps, InsertKeeps, GivingKeeps, PlanningKeeps DEF Ticket!Next

\* Whoever has handled a ticket stays on it, for any people, roles and number of hand-overs that break off anywhere:
\* each of them keeps the handler it replaces, unless it had read another one.
THEOREM NobodyDropsOutHolds == Ticket!Spec => []Ticket!NobodyDropsOut
<1> USE TicketGiven
<1>1. Ticket!Init => Typed /\ Kept
  BY Init_Typed, Init_Kept
<1>2. (Typed /\ Kept) /\ [Ticket!Next]_(Ticket!vars) => (Typed /\ Kept)'
  BY Next_Typed, Next_Kept
<1>3. Typed /\ Kept => Ticket!NobodyDropsOut
  BY DEF Kept
<1>4. QED  BY <1>1, <1>2, <1>3, PTL DEF Ticket!Spec

-----------------------------------------------------------------------------
(* Numbers differ *)

\* The number somebody is about to save is free, unless two complaints were saved at once.
FreeNumber ==
  ~crowded => \A p \in Residents : Ticket!Running(p, "insert")
    => \A t \in Ticket!There : tickets[t].number # acting[p].number

Numbered == Ticket!NumbersDiffer /\ FreeNumber

\* Steps that change no number, and after which nobody new is about to save one.
LEMMA NumbersStay ==
  ASSUME Numbered, Ticket!There' = Ticket!There, \A t \in Ticket!There : tickets'[t].number = tickets[t].number,
         UNCHANGED <<unique, crowded>>,
         \A q \in Residents : acting'[q] # None /\ acting'[q].at = "insert" => acting'[q] = acting[q]
  PROVE  Numbered'
<1>1. Ticket!NumbersDiffer'
  BY DEF Numbered, Ticket!NumbersDiffer
<1>2. FreeNumber'
  BY DEF Numbered, FreeNumber, Ticket!Running
<1>3. QED  BY <1>1, <1>2 DEF Numbered

LEMMA NumberNumbers ==
  ASSUME Typed, Numbered, NEW p \in Residents, Ticket!Number(p)
  PROVE  Numbered'
<1>1. /\ acting[p] # None /\ acting[p] \in Ticket!Runs /\ acting \in [Residents -> Ticket!Runs \cup {None}]
      /\ acting' = [acting EXCEPT ![p].number = Ticket!NextNumber, ![p].at = "insert"]
      /\ UNCHANGED <<unique, tickets, crowded>>
  BY DEF Ticket!Number, Ticket!Running, Typed, Ticket!TypeOK
<1>2. acting'[p].number = Ticket!NextNumber /\ \A q \in Residents \ {p} : acting'[q] = acting[q]
  BY <1>1 DEF Ticket!Runs
<1>3. Ticket!NextNumber \in Nat /\ \A t \in Ticket!There : tickets[t].number \in Nat
         /\ tickets[t].number < Ticket!NextNumber
  BY NextNumberBeyond DEF Typed, Ticket!TypeOK, Ticket!There, Ticket!Rows
<1>4. Ticket!There' = Ticket!There
  BY <1>1 DEF Ticket!There
<1>5. FreeNumber'
  <2>1. \A t \in Ticket!There : tickets[t].number # Ticket!NextNumber
    BY <1>3
  <2>2. QED  BY <1>1, <1>2, <1>4, <2>1 DEF Numbered, FreeNumber, Ticket!Running
<1>6. Ticket!NumbersDiffer'
  BY <1>1, <1>4 DEF Numbered, Ticket!NumbersDiffer
<1>7. QED  BY <1>5, <1>6 DEF Numbered

LEMMA InsertNumbers ==
  ASSUME Ticket!Given, Typed, Numbered, NEW p \in Residents, Ticket!Insert(p)
  PROVE  Numbered'
<1>1. /\ acting[p] # None /\ acting[p].at = "insert" /\ acting[p] \in Ticket!Runs
         /\ acting \in [Residents -> Ticket!Runs \cup {None}]
      /\ unique \in BOOLEAN /\ crowded \in BOOLEAN /\ unique' = unique
      /\ tickets \in [Ids -> Ticket!Rows \cup {None}]
  BY FlowThere DEF Ticket!Insert, Ticket!Running, Typed, Ticket!TypeOK
<1>2. crowded \/ (\E q \in Residents \ {p} : Ticket!Running(q, "insert")) => crowded'
  BY DEF Ticket!Insert
<1>3. CASE acting' = [acting EXCEPT ![p] = None] /\ UNCHANGED <<tickets, on>>
  <2>1. Ticket!There' = Ticket!There
    BY <1>3 DEF Ticket!There
  <2>2. Ticket!NumbersDiffer'
    BY <1>1, <1>2, <1>3, <2>1 DEF Numbered, Ticket!NumbersDiffer
  <2>3. FreeNumber'
    BY <1>1, <1>2, <1>3, <2>1 DEF Numbered, FreeNumber, Ticket!Running
  <2>4. QED  BY <2>2, <2>3 DEF Numbered
<1>4. ASSUME unique => \A t \in Ticket!There : tickets[t].number # acting[p].number,
             NEW t \in Ids \ Ticket!There,
             tickets' = [tickets EXCEPT ![t] = [number |-> acting[p].number, handler |-> None]],
             acting' = [acting EXCEPT ![p].ticket = t, ![p].at = "give"]
      PROVE  Numbered'
  <2>1. Ticket!There' \subseteq Ticket!There \cup {t} /\ \A u \in Ticket!There : tickets'[u] = tickets[u]
    BY <1>1, <1>4 DEF Ticket!There
  <2>2. tickets'[t].number = acting[p].number
    BY <1>1, <1>4
  <2>3. ~crowded' => \A u \in Ticket!There : tickets[u].number # acting[p].number
    BY <1>1, <1>2 DEF Numbered, FreeNumber, Ticket!Running
  <2>4. ASSUME NEW u \in Ticket!There, tickets[u].number = acting[p].number PROVE crowded' /\ ~unique'
    BY <1>1, <1>4, <2>3, <2>4
  <2>5. ASSUME NEW u \in Ticket!There, NEW v \in Ticket!There, u # v, tickets[u].number = tickets[v].number
        PROVE  crowded' /\ ~unique'
    BY <1>1, <1>2, <2>5 DEF Numbered, Ticket!NumbersDiffer
  <2>6. Ticket!NumbersDiffer'
    BY <2>1, <2>2, <2>4, <2>5 DEF Ticket!NumbersDiffer
  <2>7. FreeNumber'
    <3>1. acting'[p].at = "give" /\ \A q \in Residents \ {p} : acting'[q] = acting[q]
      BY <1>1, <1>4 DEF Ticket!Runs
    <3>2. ~crowded' => \A q \in Residents : ~Ticket!Running(q, "insert")'
      BY <1>2, <3>1 DEF Ticket!Running
    <3>3. QED  BY <3>2 DEF FreeNumber
  <2>8. QED  BY <2>6, <2>7 DEF Numbered
<1>5. QED  BY <1>3, <1>4 DEF Ticket!Insert

LEMMA Next_Numbered ==
  ASSUME Ticket!Given, Typed, Numbered, [Ticket!Next]_(Ticket!vars)
  PROVE  Numbered'
<1> USE DEF Ticket!Running, Ticket!To
<1>1. acting \in [Residents -> Ticket!Runs \cup {None}]
  BY DEF Typed, Ticket!TypeOK
<1>2. CASE UNCHANGED Ticket!vars
  BY <1>2, NumbersStay DEF Ticket!vars, Ticket!There
<1>3. ASSUME NEW p \in Residents, Ticket!StartFile(p) \/ Ticket!AddLevel2(p) \/ Ticket!Find(p)
             \/ Ticket!Authorize(p) \/ Ticket!KeepOld(p)
      PROVE  Numbered'
  <2>1. UNCHANGED <<unique, tickets, crowded>> /\ Ticket!There' = Ticket!There
    BY <1>3 DEF Ticket!StartFile, Ticket!AddLevel2, Ticket!Find, Ticket!Authorize, Ticket!KeepOld, Ticket!There
  <2>2. \A q \in Residents : acting'[q] # None /\ acting'[q].at = "insert" => acting'[q] = acting[q]
    BY <1>1, <1>3 DEF Ticket!StartFile, Ticket!AddLevel2, Ticket!Find, Ticket!Authorize, Ticket!KeepOld, Ticket!Runs
  <2>3. QED  BY <2>1, <2>2, NumbersStay
<1>4. ASSUME NEW p \in Residents, Ticket!Look(p) \/ Ticket!Tell(p) \/ Ticket!Answer(p) \/ Ticket!BreakOff(p)
      PROVE  Numbered'
  <2>1. UNCHANGED <<unique, tickets, crowded>> /\ Ticket!There' = Ticket!There
    BY <1>4 DEF Ticket!Look, Ticket!Tell, Ticket!Answer, Ticket!BreakOff, Ticket!There
  <2>2. \A q \in Residents : acting'[q] # None /\ acting'[q].at = "insert" => acting'[q] = acting[q]
    <3>1. CASE Ticket!Look(p)
      BY <1>1, <3>1 DEF Ticket!Look, Ticket!Runs
    <3>2. CASE Ticket!Tell(p)
      BY <1>1, <3>2 DEF Ticket!Tell, Ticket!Runs
    <3>3. CASE Ticket!Answer(p) \/ Ticket!BreakOff(p)
      BY <1>1, <3>3 DEF Ticket!Answer, Ticket!BreakOff
    <3>4. QED  BY <1>4, <3>1, <3>2, <3>3
  <2>3. QED  BY <2>1, <2>2, NumbersStay
<1>5. ASSUME NEW p \in Residents, Ticket!GiveRouted(p) \/ Ticket!Give(p)
      PROVE  Numbered'
  <2>1. acting[p] # None /\ acting[p].at = "give" /\ acting[p] \in Ticket!Runs /\ acting[p].ticket \in Ticket!There
        /\ UNCHANGED <<unique, crowded>>
    BY <1>5, FlowThere DEF Ticket!GiveRouted, Ticket!Give
  <2>2. \A q \in Residents : acting'[q] # None /\ acting'[q].at = "insert" => acting'[q] = acting[q]
    BY <1>1, <1>5, <2>1 DEF Ticket!GiveRouted, Ticket!Give, Ticket!Runs
  <2>3. Ticket!There' = Ticket!There /\ \A t \in Ticket!There : tickets'[t].number = tickets[t].number
    <3>1. CASE tickets' = tickets
      BY <3>1 DEF Ticket!There
    <3>2. ASSUME NEW new \in Residents, NEW seen, Ticket!HandTo(acting[p].ticket, new, seen, {}, p)
          PROVE  Ticket!There' = Ticket!There /\ \A t \in Ticket!There : tickets'[t].number = tickets[t].number
      <4>1. /\ Ticket!There' = Ticket!There /\ acting[p].ticket \in Ids
            /\ tickets'[acting[p].ticket] = [number |-> tickets[acting[p].ticket].number, handler |-> new]
            /\ \A u \in Ids \ {acting[p].ticket} : tickets'[u] = tickets[u]
        BY <2>1, <3>2, HandToTyped
      <4>2. QED  BY <4>1 DEF Ticket!There
    <3>3. CASE Ticket!GiveRouted(p) /\ acting[p].new # None
      BY <2>1, <3>2, <3>3 DEF Ticket!GiveRouted, Ticket!Runs
    <3>4. CASE Ticket!Give(p)
      <4>1. acting[p].new \in Residents
        BY <2>1, <3>4 DEF Ticket!Give, Typed, InFlow, Ticket!Runs
      <4>2. QED  BY <3>2, <3>4, <4>1 DEF Ticket!Give
    <3>5. QED  BY <1>5, <3>1, <3>3, <3>4 DEF Ticket!GiveRouted
  <2>4. QED  BY <2>1, <2>2, <2>3, NumbersStay
<1>6. ASSUME NEW t \in Ids, Ticket!PlanReads(t) \/ Ticket!PlanTargets(t) \/ Ticket!PlanTells(t)
      PROVE  Numbered'
  BY <1>6, NumbersStay DEF Ticket!PlanReads, Ticket!PlanTargets, Ticket!PlanTells, Ticket!There
<1>7. ASSUME NEW t \in Ids, Ticket!PlanGives(t)
      PROVE  Numbered'
  <2>1. /\ plan[t] # None /\ plan[t] \in Ticket!Plans /\ t \in Ticket!There /\ plan[t].new \in Residents
        /\ UNCHANGED <<unique, crowded, acting>>
    BY <1>7 DEF Ticket!PlanGives, Typed, Ticket!TypeOK, InPlan
  <2>2. PICK parties \in SUBSET (Residents \X {"level2"}) :
           Ticket!HandTo(t, plan[t].new, plan[t].old, parties, "plan")
    <3>1. ({plan[t].old} \ {None}) \X {"level2"} \in SUBSET (Residents \X {"level2"})
      BY <2>1 DEF Ticket!Plans
    <3>2. QED  BY <1>7, <3>1 DEF Ticket!PlanGives
  <2>3. /\ Ticket!There' = Ticket!There /\ tickets'[t] = [number |-> tickets[t].number, handler |-> plan[t].new]
        /\ \A u \in Ids \ {t} : tickets'[u] = tickets[u]
    BY <2>1, <2>2, HandToTyped
  <2>4. \A u \in Ticket!There : tickets'[u].number = tickets[u].number
    BY <2>3 DEF Ticket!There
  <2>5. QED  BY <2>1, <2>3, <2>4, NumbersStay
<1>8. QED  BY <1>2, <1>3, <1>4, <1>5, <1>6, <1>7, NumberNumbers, InsertNumbers DEF Ticket!Next

\* Two records share a number only if they were saved at once, in a table without a unique rule, whatever interleaves.
THEOREM NumbersDifferHolds == Ticket!Spec => []Ticket!NumbersDiffer
<1> USE TicketGiven
<1>1. Ticket!Init => Typed /\ Numbered
  <2>1. Ticket!Init => Ticket!NumbersDiffer /\ FreeNumber
    BY DEF Ticket!Init, Ticket!NumbersDiffer, FreeNumber, Ticket!Running, Ticket!There
  <2>2. QED  BY <2>1, Init_Typed DEF Numbered
<1>2. (Typed /\ Numbered) /\ [Ticket!Next]_(Ticket!vars) => (Typed /\ Numbered)'
  BY Next_Typed, Next_Numbered
<1>3. Typed /\ Numbered => Ticket!NumbersDiffer
  BY DEF Numbered
<1>4. QED  BY <1>1, <1>2, <1>3, PTL DEF Ticket!Spec

-----------------------------------------------------------------------------
(* Who is on a ticket knows who has it *)

\* A flow that is to tell the people of a ticket of it.
TellsOn(p, t) == acting[p] # None /\ acting[p].ticket = t /\ acting[p].at \in {"level2", "look", "tell"}

\* Whose word is the last one is still telling, of the handler there is.
TellsOfIt(t) ==
  \A p \in Residents : word[t] = p =>
    t \in Ticket!There /\ TellsOn(p, t) /\ acting[p].new # None /\ acting[p].new = tickets[t].handler

\* Whoever tells of a change of handler has the last word, or nobody has it.
OneTells(t) ==
  /\ \A p \in Residents : TellsOn(p, t) /\ acting[p].new # None =>
       word[t] \in {p, "mixed"} /\ tickets[t].handler # None
  /\ plan[t] # None /\ plan[t].at = "tell" => word[t] \in {"plan", "mixed"} /\ tickets[t].handler # None

\* Who tells knows who has it.
KnowsWho(t) ==
  \A p \in Residents : TellsOn(p, t) /\ acting[p].at = "tell" =>
    /\ word[t] # "mixed" => acting[p].has = {tickets[t].handler} \ {None}
    /\ tickets[t].handler = None => acting[p].has = {}

\* What was told of the last change is right, and the handler is still to be told or was told.
ToldSoFar(t) ==
  \A p \in Residents : word[t] = p =>
    /\ acting[p].flow = "file" => \A q \in Residents : heard[t][q] \in {None, acting[p].new}
    /\ acting[p].at = "tell" =>
         /\ \A q \in Ticket!OnIt(t) \ (acting[p].left \cup {p}) : heard[t][q] \in {None, acting[p].new}
         /\ acting[p].new \in acting[p].left \cup {p} \/ heard[t][acting[p].new] = acting[p].new

\* As long as a ticket has no handler nobody heard of one.
NobodyHeard(t) == t \notin Ticket!There \/ tickets[t].handler = None => \A q \in Residents : heard[t][q] = None

LastWord(t) ==
  t \in Ticket!There /\ word[t] = "told" =>
    /\ \A p \in Ticket!OnIt(t) : heard[t][p] \in {None, tickets[t].handler}
    /\ tickets[t].handler # None => heard[t][tickets[t].handler] = tickets[t].handler

SaidOf(t) == TellsOfIt(t) /\ OneTells(t) /\ KnowsWho(t) /\ ToldSoFar(t) /\ NobodyHeard(t) /\ LastWord(t)

Said == \A t \in Ids : SaidOf(t)

\* A step leaves a ticket as it was if nobody there begins to tell, is told or is put on it unless the word is mixed.
LEMMA Frame ==
  ASSUME Ticket!Given, NEW t \in Ids, SaidOf(t), tickets'[t] = tickets[t], heard'[t] = heard[t],
         word'[t] = "mixed" \/ (word'[t] = word[t] /\ Ticket!OnIt(t)' = Ticket!OnIt(t)),
         \A p \in Residents : acting'[p] # acting[p] =>
           word'[t] # p /\ (TellsOn(p, t)' => acting'[p].new = None /\ acting'[p].at # "tell"),
         plan'[t] # plan[t] => plan'[t] = None \/ plan'[t].at # "tell"
  PROVE  SaidOf(t)'
<1>1. (t \in Ticket!There)' <=> t \in Ticket!There
  BY DEF Ticket!There
<1>2. \A p \in Residents : acting'[p] = acting[p] => (TellsOn(p, t)' <=> TellsOn(p, t))
  BY DEF TellsOn
<1>3. "mixed" \notin Residents
  BY DEF Ticket!Given
<1>4. TellsOfIt(t)'
  BY <1>1, <1>2, <1>3 DEF SaidOf, TellsOfIt
<1>5. OneTells(t)'
  BY <1>2 DEF SaidOf, OneTells
<1>6. KnowsWho(t)'
  BY <1>2 DEF SaidOf, KnowsWho
<1>7. ToldSoFar(t)'
  BY <1>3 DEF SaidOf, ToldSoFar
<1>8. NobodyHeard(t)' /\ LastWord(t)'
  BY <1>1 DEF SaidOf, NobodyHeard, LastWord
<1>9. QED  BY <1>4, <1>5, <1>6, <1>7, <1>8 DEF SaidOf

\* The tickets a step has nothing to do with.
LEMMA Elsewhere ==
  ASSUME Ticket!Given, Typed, Said, NEW p \in Residents, NEW t \in Ids, \A u \in Ids \ {t} :
           /\ tickets'[u] = tickets[u] /\ heard'[u] = heard[u] /\ word'[u] = word[u] /\ on'[u] = on[u]
           /\ plan'[u] = plan[u],
         \A q \in Residents \ {p} : acting'[q] = acting[q], acting[p] = None \/ acting[p].ticket \in {t, None},
         acting'[p] = None \/ acting'[p].ticket = t
  PROVE  \A u \in Ids \ {t} : SaidOf(u)'
<1> SUFFICES ASSUME NEW u \in Ids \ {t} PROVE SaidOf(u)'
  OBVIOUS
<1>1. SaidOf(u) /\ Ticket!OnIt(u)' = Ticket!OnIt(u) /\ u # None
  BY DEF Said, Ticket!OnIt, Ticket!Given
<1>2. word[u] # p
  BY <1>1 DEF SaidOf, TellsOfIt, TellsOn
<1>3. ~TellsOn(p, u)'
  BY <1>1 DEF TellsOn
<1>4. QED  BY <1>1, <1>2, <1>3, Frame

\* A hand-over: its own flow, or the plan, is the one that tells from now on, or the word is mixed.
LEMMA HandToSaid ==
  ASSUME Ticket!Given, Typed, Said, NEW t \in Ticket!There, NEW new \in Residents, NEW seen,
         NEW parties \in SUBSET (Residents \X {"level2"}), NEW who \in Residents \cup {"plan"},
         Ticket!HandTo(t, new, seen, parties, who),
         heard' = heard,
         \A q \in Residents \ {who} : acting'[q] = acting[q], who = "plan" \/ plan' = plan,
         who \in Residents => /\ TellsOn(who, t)' /\ acting'[who].at # "tell" /\ acting'[who].new = new
                              /\ acting'[who].flow = "file" => seen = None
  PROVE  SaidOf(t)'
<1>1. /\ Ticket!There' = Ticket!There /\ t \in Ids /\ tickets'[t] = [number |-> tickets[t].number, handler |-> new]
      /\ SaidOf(t)
  BY HandToTyped DEF Said
<1>2. tickets'[t].handler = new /\ new # None
  BY <1>1 DEF Ticket!Given
<1>3. word'[t] = IF tickets[t].handler # seen \/ Ticket!Telling(t, who) THEN "mixed" ELSE who
  BY <1>1 DEF Ticket!HandTo, Typed, Ticket!TypeOK
<1>4. "mixed" \notin Residents /\ "told" \notin Residents /\ "plan" \notin Residents
  BY DEF Ticket!Given
<1>5. \A q \in Residents \ {who} : TellsOn(q, t)' => TellsOn(q, t) /\ word'[t] = "mixed"
  BY <1>3 DEF TellsOn, Ticket!Telling
<1>6. TellsOfIt(t)'
  BY <1>1, <1>2, <1>3, <1>4 DEF TellsOfIt
<1>7. OneTells(t)'
  <2>1. \A q \in Residents : TellsOn(q, t)' => word'[t] \in {q, "mixed"}
    BY <1>3, <1>5
  <2>2. plan'[t] # None /\ plan'[t].at = "tell" => word'[t] \in {"plan", "mixed"}
    BY <1>3 DEF Ticket!Telling
  <2>3. QED  BY <1>2, <2>1, <2>2 DEF OneTells
<1>8. KnowsWho(t)'
  BY <1>2, <1>5 DEF KnowsWho
<1>9. ToldSoFar(t)'
  <2> SUFFICES ASSUME NEW p \in Residents, word'[t] = p, acting'[p].flow = "file"
         PROVE \A q \in Residents : heard[t][q] = None
    BY <1>3, <1>4 DEF ToldSoFar
  <2>1. p = who /\ tickets[t].handler = None
    BY <1>3, <1>4
  <2>2. QED  BY <1>1, <2>1 DEF SaidOf, NobodyHeard
<1>10. NobodyHeard(t)' /\ LastWord(t)'
  BY <1>1, <1>2, <1>3, <1>4 DEF NobodyHeard, LastWord
<1>11. QED  BY <1>6, <1>7, <1>8, <1>9, <1>10 DEF SaidOf

LEMMA BeginningSaid ==
  ASSUME Ticket!Given, Typed, Said, NEW p \in Residents, Ticket!StartFile(p) \/ Ticket!Number(p)
         \/ Ticket!Find(p) \/ Ticket!Authorize(p)
  PROVE  Said'
<1> USE DEF Ticket!Running, Ticket!To
<1> SUFFICES ASSUME NEW t \in Ids PROVE SaidOf(t)'
  BY DEF Said
<1>1. SaidOf(t) /\ UNCHANGED <<tickets, heard, word, on, plan>> /\ acting \in [Residents -> Ticket!Runs \cup {None}]
  BY DEF Said, Ticket!StartFile, Ticket!Number, Ticket!Find, Ticket!Authorize, Typed, Ticket!TypeOK
<1>2. Ticket!OnIt(t)' = Ticket!OnIt(t)
  BY <1>1 DEF Ticket!OnIt
<1>3. \A q \in Residents \ {p} : acting'[q] = acting[q]
  BY <1>1 DEF Ticket!StartFile, Ticket!Number, Ticket!Find, Ticket!Authorize
<1>4. word[t] # p
  BY <1>1 DEF SaidOf, TellsOfIt, TellsOn, Ticket!StartFile, Ticket!Number, Ticket!Find, Ticket!Authorize
<1>5. ~TellsOn(p, t)'
  <2>1. CASE Ticket!StartFile(p) \/ Ticket!Find(p)
    BY <1>1, <2>1 DEF TellsOn, Ticket!StartFile, Ticket!Find
  <2>2. CASE Ticket!Number(p) \/ Ticket!Authorize(p)
    BY <1>1, <2>2 DEF TellsOn, Ticket!Number, Ticket!Authorize, Ticket!Runs
  <2>3. QED  BY <2>1, <2>2
<1>6. QED  BY <1>1, <1>2, <1>3, <1>4, <1>5, Frame

LEMMA InsertSaid ==
  ASSUME Ticket!Given, Typed, Said, NEW p \in Residents, Ticket!Insert(p)
  PROVE  Said'
<1>1. /\ acting[p] # None /\ acting[p].at = "insert" /\ acting[p] \in Ticket!Runs
         /\ acting \in [Residents -> Ticket!Runs \cup {None}]
      /\ UNCHANGED <<heard, word, plan>>
  BY FlowThere DEF Ticket!Insert, Ticket!Running
<1>2. acting[p].ticket = None /\ \A t \in Ids : word[t] # p /\ t # None
  BY <1>1 DEF Typed, InFlow, Said, SaidOf, TellsOfIt, TellsOn, Ticket!Given
<1>3. CASE acting' = [acting EXCEPT ![p] = None] /\ UNCHANGED <<tickets, on>>
  <2> SUFFICES ASSUME NEW t \in Ids PROVE SaidOf(t)'
    BY DEF Said
  <2>1. SaidOf(t) /\ Ticket!OnIt(t)' = Ticket!OnIt(t)
    BY <1>3 DEF Said, Ticket!OnIt
  <2>2. ~TellsOn(p, t)' /\ \A q \in Residents \ {p} : acting'[q] = acting[q]
    BY <1>1, <1>3 DEF TellsOn
  <2>3. QED  BY <1>1, <1>2, <1>3, <2>1, <2>2, Frame
<1>4. ASSUME NEW t \in Ids \ Ticket!There,
             tickets' = [tickets EXCEPT ![t] = [number |-> acting[p].number, handler |-> None]],
             on' = [on EXCEPT ![t] = {<<p, "requester">>}],
             acting' = [acting EXCEPT ![p].ticket = t, ![p].at = "give"]
      PROVE  Said'
  <2>1. \A q \in Residents \ {p} : acting'[q] = acting[q]
    BY <1>1, <1>4
  <2>2. acting'[p].ticket = t /\ acting'[p].at = "give"
    BY <1>1, <1>4 DEF Ticket!Runs
  <2>3. \A u \in Ids \ {t} : tickets'[u] = tickets[u] /\ on'[u] = on[u]
    BY <1>4 DEF Typed, Ticket!TypeOK
  <2>4. \A u \in Ids \ {t} : SaidOf(u)'
    BY <1>1, <1>2, <2>1, <2>2, <2>3, Elsewhere
  <2>5. SaidOf(t) /\ plan[t] = None /\ tickets'[t].handler = None
    BY <1>4 DEF Said, Typed, Ticket!TypeOK, InPlan
  <2>6. \A q \in Residents : ~TellsOn(q, t)'
    <3>1. \A q \in Residents : acting[q] # None /\ acting[q].ticket # None => acting[q].ticket \in Ticket!There
      BY DEF Typed, InFlow
    <3>2. QED  BY <1>2, <1>4, <2>1, <2>2, <3>1 DEF TellsOn
  <2>7. \A q \in Residents : word[t] # q /\ heard[t][q] = None
    BY <1>4, <2>5 DEF SaidOf, TellsOfIt, NobodyHeard
  <2>8. Ticket!OnIt(t)' \subseteq Residents
    BY <1>4 DEF Ticket!OnIt, Typed, Ticket!TypeOK
  <2>9. SaidOf(t)'
    BY <1>1, <2>5, <2>6, <2>7, <2>8 DEF SaidOf, TellsOfIt, OneTells, KnowsWho, ToldSoFar, NobodyHeard, LastWord
  <2>10. QED  BY <2>4, <2>9 DEF Said
<1>5. QED  BY <1>3, <1>4 DEF Ticket!Insert

\* Who is on a ticket once rows are added.
LEMMA OnItWith ==
  ASSUME NEW A, NEW B, NEW role
  PROVE  {party[1] : party \in A \cup (B \X {role})} = {party[1] : party \in A} \cup B
<1>1. ASSUME NEW b \in B PROVE b \in {party[1] : party \in A \cup (B \X {role})}
  <2>1. <<b, role>> \in B \X {role} /\ <<b, role>>[1] = b
    OBVIOUS
  <2>2. QED  BY <2>1
<1>2. \A party \in B \X {role} : party[1] \in B
  OBVIOUS
<1>3. QED  BY <1>1, <1>2

LEMMA HandlerIsOn ==
  ASSUME Typed, NEW t \in Ticket!There, tickets[t].handler # None
  PROVE  tickets[t].handler \in Ticket!OnIt(t)
<1>1. tickets[t].handler \in Ticket!As(t, "assignee")
  BY DEF Typed, Ticket!TypeOK
<1>2. PICK h \in Residents : h = tickets[t].handler /\ <<h, "assignee">> \in on[t]
  BY <1>1 DEF Ticket!As
<1>3. <<h, "assignee">>[1] = h
  OBVIOUS
<1>4. QED  BY <1>2, <1>3 DEF Ticket!OnIt

LEMMA KeepOldSaid ==
  ASSUME Ticket!Given, Typed, Said, NEW p \in Residents, Ticket!KeepOld(p)
  PROVE  Said'
<1>1. /\ acting[p] # None /\ acting[p].at = "keep" /\ acting[p] \in Ticket!Runs
         /\ acting \in [Residents -> Ticket!Runs \cup {None}]
      /\ UNCHANGED <<tickets, heard, plan>>
  BY FlowThere DEF Ticket!KeepOld, Ticket!Running
<1>2. PICK t \in Ticket!There : t = acting[p].ticket /\ t \in Ids
  BY <1>1, FlowThere
<1>3. /\ \A q \in Residents \ {p} : acting'[q] = acting[q]
      /\ acting'[p].ticket = t /\ acting'[p].at = "give"
  BY <1>1, <1>2 DEF Ticket!KeepOld, Ticket!To, Ticket!Runs
<1>4. /\ on'[t] = on[t] \cup ({acting[p].seen} \ {None}) \X {"helper"}
      /\ word'[t] = IF acting[p].seen \in Ticket!OnIt(t) \cup {None} THEN word[t] ELSE "mixed"
      /\ \A u \in Ids \ {t} : on'[u] = on[u] /\ word'[u] = word[u]
  BY <1>1, <1>2 DEF Ticket!KeepOld, Typed, Ticket!TypeOK
<1>5. \A u \in Ids \ {t} : SaidOf(u)'
  BY <1>1, <1>2, <1>3, <1>4, Elsewhere
<1>6. word'[t] = "mixed" \/ (word'[t] = word[t] /\ Ticket!OnIt(t)' = Ticket!OnIt(t))
  <2>1. CASE acting[p].seen \in Ticket!OnIt(t) \cup {None}
    <3>1. Ticket!OnIt(t)' = Ticket!OnIt(t) \cup ({acting[p].seen} \ {None})
      <4>1. PICK B : B = {acting[p].seen} \ {None}
        OBVIOUS
      <4>2. on'[t] = on[t] \cup (B \X {"helper"}) /\ Ticket!OnIt(t)' = {party[1] : party \in on'[t]}
        BY <1>4, <4>1 DEF Ticket!OnIt
      <4>3. {party[1] : party \in on[t] \cup (B \X {"helper"})} = {party[1] : party \in on[t]} \cup B
        BY OnItWith
      <4>4. Ticket!OnIt(t)' = {party[1] : party \in on[t] \cup (B \X {"helper"})}
        BY <4>2
      <4>5. QED  BY <4>1, <4>3, <4>4 DEF Ticket!OnIt
    <3>2. acting[p].seen = None \/ acting[p].seen \in Ticket!OnIt(t)
      BY <2>1
    <3>3. QED  BY <1>4, <2>1, <3>1, <3>2
  <2>2. CASE acting[p].seen \notin Ticket!OnIt(t) \cup {None}
    BY <1>4, <2>2
  <2>3. QED  BY <2>1, <2>2
<1>7. SaidOf(t)'
  <2>1. SaidOf(t) /\ word[t] # p
    BY <1>1, <1>2 DEF Said, SaidOf, TellsOfIt, TellsOn
  <2>2. word'[t] # p
    BY <1>6, <2>1 DEF Ticket!Given
  <2>3. ~TellsOn(p, t)'
    BY <1>3 DEF TellsOn
  <2>4. QED  BY <1>1, <1>2, <1>3, <1>6, <2>1, <2>2, <2>3, Frame
<1>8. QED  BY <1>5, <1>7 DEF Said

LEMMA GivingSaid ==
  ASSUME Ticket!Given, Typed, Said, NEW p \in Residents, Ticket!GiveRouted(p) \/ Ticket!Give(p)
  PROVE  Said'
<1>1. /\ acting[p] # None /\ acting[p].at = "give" /\ acting[p] \in Ticket!Runs
         /\ acting \in [Residents -> Ticket!Runs \cup {None}]
      /\ UNCHANGED <<heard, plan>>
  BY FlowThere DEF Ticket!GiveRouted, Ticket!Give, Ticket!Running
<1>2. PICK t \in Ticket!There : t = acting[p].ticket /\ t \in Ids
  BY <1>1, FlowThere
<1>3. /\ \A q \in Residents \ {p} : acting'[q] = acting[q]
      /\ acting'[p] # None /\ acting'[p].ticket = t /\ acting'[p].at \in {"level2", "look"}
      /\ acting'[p].new = acting[p].new /\ acting'[p].flow = acting[p].flow
  <2>1. PICK r : r = acting'[p]
    OBVIOUS
  <2>2. /\ \A q \in Residents \ {p} : acting'[q] = acting[q]
        /\ r = [acting[p] EXCEPT !.at = "level2"] \/ r = [acting[p] EXCEPT !.at = "look"]
    BY <1>1, <2>1 DEF Ticket!GiveRouted, Ticket!Give, Ticket!To
  <2>3. r \in Ticket!Runs /\ r.ticket = t /\ r.at \in {"level2", "look"} /\ r.new = acting[p].new
           /\ r.flow = acting[p].flow
    BY <1>1, <1>2, <2>2 DEF Ticket!Runs
  <2>4. QED  BY <2>1, <2>2, <2>3 DEF Ticket!Given
<1>4. SaidOf(t) /\ word[t] # p
  BY <1>1, <1>2 DEF Said, SaidOf, TellsOfIt, TellsOn
<1>5. CASE UNCHANGED <<tickets, on, word>> /\ acting[p].new = None
  <2>1. SaidOf(t)'
    <3>1. Ticket!OnIt(t)' = Ticket!OnIt(t)
      BY <1>5 DEF Ticket!OnIt
    <3>2. \A q \in Residents : acting'[q] # acting[q] => word'[t] # q /\ acting'[q].new = None
             /\ acting'[q].at # "tell"
      BY <1>3, <1>4, <1>5
    <3>3. tickets'[t] = tickets[t] /\ heard'[t] = heard[t] /\ plan'[t] = plan[t] /\ word'[t] = word[t]
      BY <1>1, <1>5
    <3>4. word'[t] = "mixed" \/ (word'[t] = word[t] /\ Ticket!OnIt(t)' = Ticket!OnIt(t))
      BY <3>1, <3>3
    <3>5. \A q \in Residents : acting'[q] # acting[q] =>
            word'[t] # q /\ (TellsOn(q, t)' => acting'[q].new = None /\ acting'[q].at # "tell")
      BY <3>2
    <3>6. plan'[t] # plan[t] => plan'[t] = None \/ plan'[t].at # "tell"
      BY <3>3
    <3>7. QED  BY <1>2, <1>4, <3>3, <3>4, <3>5, <3>6, Frame
  <2>2. \A u \in Ids \ {t} : SaidOf(u)'
    BY <1>1, <1>2, <1>3, <1>5, Elsewhere
  <2>3. QED  BY <2>1, <2>2 DEF Said
<1>6. ASSUME NEW new \in Residents, NEW seen, acting[p].new = new, Ticket!HandTo(t, new, seen, {}, p),
             acting[p].flow = "file" => seen = None
      PROVE  Said'
  <2>1. TellsOn(p, t)' /\ acting'[p].at # "tell" /\ acting'[p].new = new /\ (acting'[p].flow = "file" => seen = None)
    BY <1>3, <1>6 DEF TellsOn
  <2>2. SaidOf(t)'
    BY <1>1, <1>3, <1>6, <2>1, HandToSaid DEF Ticket!Given
  <2>3. \A u \in Ids \ {t} : tickets'[u] = tickets[u] /\ on'[u] = on[u] /\ word'[u] = word[u]
    BY <1>6 DEF Ticket!HandTo, Typed, Ticket!TypeOK
  <2>4. \A u \in Ids \ {t} : SaidOf(u)'
    BY <1>1, <1>2, <1>3, <2>3, Elsewhere
  <2>5. QED  BY <2>2, <2>4 DEF Said
<1>7. CASE Ticket!GiveRouted(p)
  <2>1. CASE acting[p].new = None
    BY <1>5, <1>7, <2>1 DEF Ticket!GiveRouted
  <2>2. CASE acting[p].new # None
    <3>1. acting[p].new \in Residents /\ Ticket!HandTo(t, acting[p].new, None, {}, p)
      BY <1>1, <1>2, <1>7, <2>2 DEF Ticket!GiveRouted, Ticket!Runs
    <3>2. QED  BY <1>6, <3>1
  <2>3. QED  BY <2>1, <2>2
<1>8. CASE Ticket!Give(p)
  <2>1. acting[p].flow = "pass" /\ Ticket!HandTo(t, acting[p].new, acting[p].seen, {}, p)
    BY <1>2, <1>8 DEF Ticket!Give
  <2>2. acting[p].new \in Residents
    BY <1>1, <2>1 DEF Typed, InFlow, Ticket!Runs
  <2>3. QED  BY <1>6, <2>1, <2>2
<1>9. QED  BY <1>7, <1>8

LEMMA AddLevel2Said ==
  ASSUME Ticket!Given, Typed, Said, NEW p \in Residents, Ticket!AddLevel2(p)
  PROVE  Said'
<1>1. /\ acting[p] # None /\ acting[p].at = "level2" /\ acting[p] \in Ticket!Runs
         /\ acting \in [Residents -> Ticket!Runs \cup {None}]
      /\ UNCHANGED <<tickets, heard, plan>>
  BY FlowThere DEF Ticket!AddLevel2, Ticket!Running
<1>2. PICK t \in Ticket!There : t = acting[p].ticket /\ t \in Ids
  BY <1>1, FlowThere
<1>3. /\ \A q \in Residents \ {p} : acting'[q] = acting[q]
      /\ acting'[p] # None /\ acting'[p].ticket = t /\ acting'[p].at = "look" /\ acting'[p].new = acting[p].new
      /\ acting'[p].flow = acting[p].flow
  <2>1. PICK r : r = [acting[p] EXCEPT !.at = "look"]
    OBVIOUS
  <2>2. acting' = [acting EXCEPT ![p] = r]
    BY <1>1, <2>1 DEF Ticket!AddLevel2, Ticket!To
  <2>3. r \in Ticket!Runs /\ r.ticket = t /\ r.at = "look" /\ r.new = acting[p].new /\ r.flow = acting[p].flow
    BY <1>1, <1>2, <2>1 DEF Ticket!Runs
  <2>4. QED  BY <1>1, <2>2, <2>3 DEF Ticket!Given
<1>4. /\ on'[t] = on[t] \cup (Level2 \X {"level2"})
      /\ word'[t] = IF tickets[t].handler = acting[p].new \/ Level2 \subseteq Ticket!OnIt(t) THEN word[t] ELSE "mixed"
      /\ \A u \in Ids \ {t} : on'[u] = on[u] /\ word'[u] = word[u]
  BY <1>1, <1>2 DEF Ticket!AddLevel2, Typed, Ticket!TypeOK
<1>5. \A u \in Ids \ {t} : SaidOf(u)'
  BY <1>1, <1>2, <1>3, <1>4, Elsewhere
<1>6. /\ (t \in Ticket!There)' /\ SaidOf(t) /\ TellsOn(p, t) /\ TellsOn(p, t)'
      /\ \A q \in Residents \ {p} : TellsOn(q, t)' <=> TellsOn(q, t)
      /\ "mixed" \notin Residents
  BY <1>1, <1>2, <1>3 DEF TellsOn, Said, Ticket!There, Ticket!Given
<1>7. Ticket!OnIt(t)' = Ticket!OnIt(t) \cup Level2
  <2>1. on'[t] = on[t] \cup (Level2 \X {"level2"}) /\ Ticket!OnIt(t)' = {party[1] : party \in on'[t]}
    BY <1>4 DEF Ticket!OnIt
  <2>2. {party[1] : party \in on[t] \cup (Level2 \X {"level2"})} = {party[1] : party \in on[t]} \cup Level2
    BY OnItWith
  <2>3. Ticket!OnIt(t)' = {party[1] : party \in on[t] \cup (Level2 \X {"level2"})}
    BY <2>1
  <2>4. QED  BY <2>2, <2>3 DEF Ticket!OnIt
<1>8. SaidOf(t)'
  <2>1. TellsOfIt(t)'
    BY <1>1, <1>3, <1>4, <1>6 DEF SaidOf, TellsOfIt
  <2>2. OneTells(t)'
    BY <1>1, <1>3, <1>4, <1>6 DEF SaidOf, OneTells
  <2>3. KnowsWho(t)'
    BY <1>1, <1>3, <1>4, <1>6 DEF SaidOf, KnowsWho
  <2>4. NobodyHeard(t)'
    BY <1>1, <1>6 DEF SaidOf, NobodyHeard
  <2>5. CASE word'[t] = "mixed"
    <3>1. ToldSoFar(t)' /\ LastWord(t)'
      BY <1>6, <2>5 DEF ToldSoFar, LastWord
    <3>2. QED  BY <2>1, <2>2, <2>3, <2>4, <3>1 DEF SaidOf
  <2>6. CASE Level2 \subseteq Ticket!OnIt(t) /\ word'[t] # "mixed"
    <3>1. Ticket!OnIt(t)' = Ticket!OnIt(t) /\ word'[t] = word[t]
      BY <1>4, <1>7, <2>6
    <3>2. ToldSoFar(t)' /\ LastWord(t)'
      BY <1>1, <1>3, <1>6, <3>1 DEF SaidOf, ToldSoFar, LastWord
    <3>3. QED  BY <2>1, <2>2, <2>3, <2>4, <3>2 DEF SaidOf
  <2>7. CASE tickets[t].handler = acting[p].new /\ word'[t] # "mixed"
    <3>1. word'[t] = word[t]
      BY <1>4, <2>7
    <3>2. acting[p].new # None => word[t] = p
      BY <1>6, <2>7, <3>1 DEF SaidOf, OneTells
    <3>3. acting[p].new = None => \A q \in Residents : word[t] # q /\ heard[t][q] = None
      BY <1>6, <2>7 DEF SaidOf, TellsOfIt, NobodyHeard
    <3>4. Ticket!OnIt(t)' \subseteq Residents
      <4>1. Ticket!OnIt(t) \subseteq Residents
        BY <1>2 DEF Ticket!OnIt, Typed, Ticket!TypeOK
      <4>2. QED  BY <1>7, <4>1 DEF Ticket!Given
    <3>5. ToldSoFar(t)'
      BY <1>1, <1>3, <1>6, <3>1, <3>2, <3>3 DEF SaidOf, ToldSoFar
    <3>6. LastWord(t)'
      BY <1>1, <1>6, <2>7, <3>1, <3>2, <3>3, <3>4 DEF LastWord, Ticket!Given
    <3>7. QED  BY <2>1, <2>2, <2>3, <2>4, <3>5, <3>6 DEF SaidOf
  <2>8. QED  BY <1>4, <2>5, <2>6, <2>7
<1>9. QED  BY <1>5, <1>8 DEF Said

LEMMA LookSaid ==
  ASSUME Ticket!Given, Typed, Said, NEW p \in Residents, Ticket!Look(p)
  PROVE  Said'
<1>1. /\ acting[p] # None /\ acting[p].at = "look" /\ acting[p] \in Ticket!Runs
         /\ acting \in [Residents -> Ticket!Runs \cup {None}]
      /\ UNCHANGED <<tickets, on, heard, word, plan>>
  BY FlowThere DEF Ticket!Look, Ticket!Running
<1>2. PICK t \in Ticket!There : t = acting[p].ticket /\ t \in Ids
  BY <1>1, FlowThere
<1>3. /\ \A q \in Residents \ {p} : acting'[q] = acting[q]
      /\ acting'[p] # None /\ acting'[p].ticket = t /\ acting'[p].at = "tell" /\ acting'[p].new = acting[p].new
      /\ acting'[p].flow = acting[p].flow /\ acting'[p].left = Ticket!OnIt(t) \ {p}
         /\ acting'[p].has = Ticket!As(t, "assignee")
  <2>1. PICK r : r = [acting[p] EXCEPT !.left = Ticket!OnIt(t) \ {p}, !.has = Ticket!As(t, "assignee"), !.at = "tell"]
    OBVIOUS
  <2>2. acting' = [acting EXCEPT ![p] = r]
    BY <1>2, <2>1 DEF Ticket!Look
  <2>3. Ticket!OnIt(t) \subseteq Residents
    BY <1>2 DEF Ticket!OnIt, Typed, Ticket!TypeOK
  <2>4. r \in Ticket!Runs /\ r.ticket = t /\ r.at = "tell" /\ r.new = acting[p].new /\ r.flow = acting[p].flow
        /\ r.left = Ticket!OnIt(t) \ {p} /\ r.has = Ticket!As(t, "assignee")
    BY <1>1, <1>2, <2>1, <2>3 DEF Ticket!Runs, Ticket!As
  <2>5. QED  BY <1>1, <2>2, <2>4 DEF Ticket!Given
<1>4. \A u \in Ids \ {t} : SaidOf(u)'
  BY <1>1, <1>2, <1>3, Elsewhere
<1>5. /\ (t \in Ticket!There)' /\ SaidOf(t) /\ TellsOn(p, t) /\ TellsOn(p, t)' /\ Ticket!OnIt(t)' = Ticket!OnIt(t)
      /\ \A q \in Residents \ {p} : TellsOn(q, t)' <=> TellsOn(q, t)
  BY <1>1, <1>2, <1>3 DEF TellsOn, Said, Ticket!There, Ticket!OnIt
<1>6. Ticket!As(t, "assignee") = {tickets[t].handler} \ {None}
  BY DEF Typed, Ticket!TypeOK
<1>7. tickets[t].handler # None => tickets[t].handler \in Ticket!OnIt(t)
  BY HandlerIsOn
<1>8. TellsOfIt(t)'
  BY <1>1, <1>3, <1>5 DEF SaidOf, TellsOfIt
<1>9. OneTells(t)'
  BY <1>1, <1>3, <1>5 DEF SaidOf, OneTells
<1>10. KnowsWho(t)'
  BY <1>1, <1>3, <1>5, <1>6 DEF SaidOf, KnowsWho
<1>11. ToldSoFar(t)'
  BY <1>1, <1>3, <1>5, <1>7 DEF SaidOf, ToldSoFar, TellsOfIt
<1>12. NobodyHeard(t)' /\ LastWord(t)'
  BY <1>1, <1>5 DEF SaidOf, NobodyHeard, LastWord
<1>13. QED  BY <1>4, <1>8, <1>9, <1>10, <1>11, <1>12 DEF Said, SaidOf

\* A person is told: of the handler there is, unless the word is mixed, or of nothing new.
LEMMA TellSaid ==
  ASSUME Ticket!Given, Typed, Said, NEW p \in Residents, Ticket!Tell(p)
  PROVE  Said'
<1>1. /\ acting[p] # None /\ acting[p].at = "tell" /\ acting[p] \in Ticket!Runs
         /\ acting \in [Residents -> Ticket!Runs \cup {None}]
      /\ UNCHANGED <<tickets, on, plan>>
      /\ heard \in [Ids -> [Residents -> Residents \cup {None}]]
  BY FlowThere DEF Ticket!Tell, Ticket!Running, Typed, Ticket!TypeOK
<1>2. PICK t \in Ticket!There : t = acting[p].ticket /\ t \in Ids
  BY <1>1, FlowThere
<1>3. PICK q \in acting[p].left : \E whose :
        /\ whose = IF q \in acting[p].has THEN q ELSE IF acting[p].flow = "pass" THEN acting[p].new ELSE heard[t][q]
        /\ acting' = [acting EXCEPT ![p].left = @ \ {q}]
        /\ \/ heard' = [heard EXCEPT ![t][q] = whose] /\ word' = word
           \/ heard' = heard /\ word' = [word EXCEPT ![t] = IF @ = p THEN "mixed" ELSE @]
  BY <1>2 DEF Ticket!Tell, Ticket!Unheard
<1>4. PICK whose :
        /\ whose = IF q \in acting[p].has THEN q ELSE IF acting[p].flow = "pass" THEN acting[p].new ELSE heard[t][q]
        /\ acting' = [acting EXCEPT ![p].left = @ \ {q}]
        /\ \/ heard' = [heard EXCEPT ![t][q] = whose] /\ word' = word
           \/ heard' = heard /\ word' = [word EXCEPT ![t] = IF @ = p THEN "mixed" ELSE @]
  BY <1>3
<1>5. /\ \A x \in Residents \ {p} : acting'[x] = acting[x]
      /\ acting'[p] # None /\ acting'[p].ticket = t /\ acting'[p].at = "tell" /\ acting'[p].new = acting[p].new
      /\ acting'[p].flow = acting[p].flow /\ acting'[p].left = acting[p].left \ {q} /\ acting'[p].has = acting[p].has
  <2>1. PICK r : r = [acting[p] EXCEPT !.left = acting[p].left \ {q}]
    OBVIOUS
  <2>2. acting' = [acting EXCEPT ![p] = r]
    BY <1>4, <2>1
  <2>3. /\ r \in Ticket!Runs /\ r.ticket = t /\ r.at = "tell" /\ r.new = acting[p].new /\ r.flow = acting[p].flow
        /\ r.left = acting[p].left \ {q} /\ r.has = acting[p].has
    BY <1>1, <1>2, <2>1 DEF Ticket!Runs
  <2>4. QED  BY <1>1, <2>2, <2>3 DEF Ticket!Given
<1>6. \A u \in Ids \ {t} : heard'[u] = heard[u] /\ word'[u] = word[u]
  BY <1>1, <1>2, <1>4 DEF Typed, Ticket!TypeOK
<1>7. \A u \in Ids \ {t} : SaidOf(u)'
  BY <1>1, <1>2, <1>5, <1>6, Elsewhere
<1>8. /\ (t \in Ticket!There)' /\ SaidOf(t) /\ TellsOn(p, t) /\ TellsOn(p, t)' /\ Ticket!OnIt(t)' = Ticket!OnIt(t)
      /\ \A x \in Residents \ {p} : TellsOn(x, t)' <=> TellsOn(x, t)
      /\ q \in Residents /\ q # None /\ "mixed" \notin Residents /\ acting[p].new \in Residents \cup {None}
  BY <1>1, <1>2, <1>5 DEF TellsOn, Said, Ticket!There, Ticket!OnIt, Ticket!Given, Ticket!Runs
<1>9. ASSUME heard' = heard, word' = [word EXCEPT ![t] = IF @ = p THEN "mixed" ELSE @]
      PROVE  SaidOf(t)'
  <2>1. word'[t] = IF word[t] = p THEN "mixed" ELSE word[t]
    BY <1>2, <1>9 DEF Typed, Ticket!TypeOK
  <2>2. word'[t] # p
    BY <1>8, <2>1
  <2>3. TellsOfIt(t)'
    BY <1>1, <1>5, <1>8, <2>1, <2>2 DEF SaidOf, TellsOfIt
  <2>4. OneTells(t)'
    BY <1>1, <1>5, <1>8, <2>1 DEF SaidOf, OneTells
  <2>5. KnowsWho(t)'
    BY <1>1, <1>5, <1>8, <2>1 DEF SaidOf, KnowsWho
  <2>6. ToldSoFar(t)'
    BY <1>5, <1>8, <1>9, <2>1, <2>2 DEF SaidOf, ToldSoFar
  <2>7. NobodyHeard(t)' /\ LastWord(t)'
    BY <1>1, <1>8, <1>9, <2>1 DEF SaidOf, NobodyHeard, LastWord
  <2>8. QED  BY <2>3, <2>4, <2>5, <2>6, <2>7 DEF SaidOf
<1>10. ASSUME heard' = [heard EXCEPT ![t][q] = whose], word' = word
      PROVE  SaidOf(t)'
  <2>1. heard'[t][q] = whose /\ \A x \in Residents \ {q} : heard'[t][x] = heard[t][x]
    BY <1>1, <1>2, <1>8, <1>10
  <2>2. word[t] # "mixed" => acting[p].has = {tickets[t].handler} \ {None}
    BY <1>1, <1>8 DEF SaidOf, KnowsWho
  <2>3. word[t] # "mixed" /\ acting[p].new # None => word[t] = p /\ acting[p].new = tickets[t].handler
    BY <1>8 DEF SaidOf, OneTells, TellsOfIt
  <2>4. acting[p].flow = "pass" => acting[p].new # None
    BY <1>1 DEF Typed, InFlow
  <2>5. word[t] # "mixed" => whose = tickets[t].handler \/ (whose = heard[t][q] /\ acting[p].flow # "pass")
    BY <1>4, <1>8, <2>2, <2>3, <2>4
  <2>6. word[t] # "mixed" /\ q = tickets[t].handler => whose = q
    BY <1>4, <1>8, <2>2
  <2>7. tickets[t].handler = None => whose = heard[t][q]
    BY <1>1, <1>4, <1>8, <2>4 DEF SaidOf, KnowsWho, OneTells
  <2>8. TellsOfIt(t)'
    BY <1>1, <1>5, <1>8, <1>10 DEF SaidOf, TellsOfIt
  <2>9. OneTells(t)'
    BY <1>1, <1>5, <1>8, <1>10 DEF SaidOf, OneTells
  <2>10. KnowsWho(t)'
    BY <1>1, <1>5, <1>8, <1>10 DEF SaidOf, KnowsWho
  <2>11. NobodyHeard(t)'
    BY <1>1, <1>8, <2>1, <2>7 DEF SaidOf, NobodyHeard
  <2>12. LastWord(t)'
    <3> SUFFICES ASSUME word[t] = "told"
                 PROVE  /\ \A x \in Ticket!OnIt(t) : heard'[t][x] \in {None, tickets[t].handler}
                        /\ tickets[t].handler # None => heard'[t][tickets[t].handler] = tickets[t].handler
      BY <1>1, <1>8, <1>10 DEF LastWord
    <3>1. /\ \A x \in Ticket!OnIt(t) : heard[t][x] \in {None, tickets[t].handler}
          /\ tickets[t].handler # None => heard[t][tickets[t].handler] = tickets[t].handler
      BY <1>8 DEF SaidOf, LastWord
    <3>2. Ticket!OnIt(t) \subseteq Residents /\ tickets[t].handler \in Residents \cup {None}
      BY <1>2 DEF Ticket!OnIt, Typed, Ticket!TypeOK, Ticket!Rows, Ticket!There
    <3>3. QED  BY <2>1, <2>5, <2>6, <3>1, <3>2
  <2>13. ToldSoFar(t)'
    <3> SUFFICES ASSUME NEW r \in Residents, word[t] = r
                 PROVE  /\ acting'[r].flow = "file" => \A x \in Residents : heard'[t][x] \in {None, acting'[r].new}
                        /\ acting'[r].at = "tell" =>
                             /\ \A x \in Ticket!OnIt(t) \ (acting'[r].left \cup {r}) :
                                   heard'[t][x] \in {None, acting'[r].new}
                             /\ acting'[r].new \in acting'[r].left \cup {r}
                                \/ heard'[t][acting'[r].new] = acting'[r].new
      BY <1>8, <1>10 DEF ToldSoFar
    <3>1. /\ word[t] # "mixed" /\ acting[r].new = tickets[t].handler /\ tickets[t].handler # None
          /\ acting'[r].new = acting[r].new /\ acting'[r].flow = acting[r].flow /\ acting'[r].at = acting[r].at
      BY <1>1, <1>5, <1>8 DEF SaidOf, TellsOfIt
    <3>2. /\ acting[r].flow = "file" => \A x \in Residents : heard[t][x] \in {None, acting[r].new}
          /\ acting[r].at = "tell" =>
               /\ \A x \in Ticket!OnIt(t) \ (acting[r].left \cup {r}) : heard[t][x] \in {None, acting[r].new}
               /\ acting[r].new \in acting[r].left \cup {r} \/ heard[t][acting[r].new] = acting[r].new
      BY <1>8 DEF SaidOf, ToldSoFar
    <3>3. Ticket!OnIt(t) \subseteq Residents /\ tickets[t].handler \in Residents
      BY <1>2, <3>1 DEF Ticket!OnIt, Typed, Ticket!TypeOK, Ticket!Rows, Ticket!There
    <3>4. acting[r].flow = "file" => \A x \in Residents : heard'[t][x] \in {None, acting[r].new}
      BY <2>1, <2>5, <3>1, <3>2
    <3>5. ASSUME acting[r].at = "tell" PROVE acting[r].new \in acting'[r].left \cup {r}
                 \/ heard'[t][acting[r].new] = acting[r].new
      <4>1. CASE q = acting[r].new
        BY <2>1, <2>6, <3>1, <4>1
      <4>2. CASE q # acting[r].new
        BY <1>5, <2>1, <3>1, <3>2, <3>3, <3>5, <4>2
      <4>3. QED  BY <4>1, <4>2
    <3>6. ASSUME acting[r].at = "tell", NEW x \in Ticket!OnIt(t) \ (acting'[r].left \cup {r})
          PROVE  heard'[t][x] \in {None, acting[r].new}
      <4>1. CASE x # q
        BY <1>5, <2>1, <3>2, <3>3, <3>6, <4>1
      <4>2. CASE x = q /\ whose = tickets[t].handler
        BY <2>1, <3>1, <4>2
      <4>3. CASE x = q /\ whose = heard[t][q] /\ acting[p].flow # "pass"
        <5>1. CASE r = p
          <6>1. acting[r].flow = "file"
            BY <1>1, <4>3, <5>1 DEF Ticket!Runs
          <6>2. QED  BY <3>3, <3>4, <3>6, <6>1
        <5>2. CASE r # p
          BY <1>5, <2>1, <3>2, <3>6, <4>3, <5>2
        <5>3. QED  BY <5>1, <5>2
      <4>4. QED  BY <2>5, <3>1, <4>1, <4>2, <4>3
    <3>7. QED  BY <3>1, <3>4, <3>5, <3>6
  <2>14. QED  BY <2>8, <2>9, <2>10, <2>11, <2>12, <2>13 DEF SaidOf
<1>11. SaidOf(t)'
  BY <1>4, <1>9, <1>10
<1>12. QED  BY <1>7, <1>11 DEF Said

\* The last one who is told is the one who did it.
LEMMA AnswerSaid ==
  ASSUME Ticket!Given, Typed, Said, NEW p \in Residents, Ticket!Answer(p)
  PROVE  Said'
<1>1. /\ acting[p] # None /\ acting[p].at = "tell" /\ acting[p] \in Ticket!Runs
         /\ acting \in [Residents -> Ticket!Runs \cup {None}]
      /\ acting[p].left = {} /\ acting' = [acting EXCEPT ![p] = None]
      /\ UNCHANGED <<tickets, on, plan>>
      /\ heard \in [Ids -> [Residents -> Residents \cup {None}]]
  BY FlowThere DEF Ticket!Answer, Ticket!Running, Typed, Ticket!TypeOK
<1>2. PICK t \in Ticket!There : t = acting[p].ticket /\ t \in Ids
  BY <1>1, FlowThere
<1>3. /\ \A x \in Residents \ {p} : acting'[x] = acting[x] /\ heard'[t][x] = heard[t][x]
      /\ acting'[p] = None
      /\ heard'[t][p] = IF acting[p].new = None THEN heard[t][p] ELSE acting[p].new
      /\ word'[t] = IF word[t] = p THEN "told" ELSE word[t]
      /\ \A u \in Ids \ {t} : heard'[u] = heard[u] /\ word'[u] = word[u]
  BY <1>1, <1>2 DEF Ticket!Answer, Typed, Ticket!TypeOK
<1>4. \A u \in Ids \ {t} : SaidOf(u)'
  BY <1>1, <1>2, <1>3, Elsewhere
<1>5. /\ (t \in Ticket!There)' /\ SaidOf(t) /\ TellsOn(p, t) /\ ~TellsOn(p, t)' /\ Ticket!OnIt(t)' = Ticket!OnIt(t)
      /\ \A x \in Residents \ {p} : TellsOn(x, t)' <=> TellsOn(x, t)
      /\ "mixed" \notin Residents /\ "told" \notin Residents /\ "plan" \notin Residents
      /\ acting[p].new \in Residents \cup {None}
  BY <1>1, <1>2, <1>3 DEF TellsOn, Said, Ticket!There, Ticket!OnIt, Ticket!Given, Ticket!Runs
<1>6. TellsOfIt(t)'
  BY <1>1, <1>3, <1>5 DEF SaidOf, TellsOfIt
<1>7. OneTells(t)'
  BY <1>1, <1>3, <1>5 DEF SaidOf, OneTells
<1>8. KnowsWho(t)'
  BY <1>1, <1>3, <1>5 DEF SaidOf, KnowsWho
<1>9. NobodyHeard(t)'
  BY <1>1, <1>3, <1>5 DEF SaidOf, NobodyHeard, OneTells
<1>10. CASE word[t] = p
  <2>1. /\ acting[p].new = tickets[t].handler /\ tickets[t].handler # None
        /\ \A x \in Ticket!OnIt(t) \ {p} : heard[t][x] \in {None, acting[p].new}
        /\ acting[p].new = p \/ heard[t][acting[p].new] = acting[p].new
    BY <1>1, <1>5, <1>10 DEF SaidOf, TellsOfIt, ToldSoFar
  <2>2. Ticket!OnIt(t) \subseteq Residents
    BY <1>2 DEF Ticket!OnIt, Typed, Ticket!TypeOK
  <2>3. ToldSoFar(t)'
    BY <1>3, <1>5, <1>10 DEF ToldSoFar
  <2>4. LastWord(t)'
    BY <1>1, <1>3, <1>5, <2>1, <2>2 DEF LastWord
  <2>5. QED  BY <1>4, <1>6, <1>7, <1>8, <1>9, <2>3, <2>4 DEF Said, SaidOf
<1>11. CASE word[t] # p /\ word[t] = "mixed"
  <2>1. ToldSoFar(t)' /\ LastWord(t)'
    BY <1>3, <1>5, <1>11 DEF ToldSoFar, LastWord
  <2>2. QED  BY <1>4, <1>6, <1>7, <1>8, <1>9, <2>1 DEF Said, SaidOf
<1>12. CASE word[t] # p /\ word[t] # "mixed"
  <2>1. acting[p].new = None
    BY <1>5, <1>12 DEF SaidOf, OneTells
  <2>2. \A x \in Residents : heard'[t][x] = heard[t][x]
    BY <1>3, <2>1
  <2>3. Ticket!OnIt(t) \subseteq Residents /\ tickets[t].handler \in Residents \cup {None}
    BY <1>2 DEF Ticket!OnIt, Typed, Ticket!TypeOK, Ticket!Rows, Ticket!There
  <2>4. LastWord(t)'
    BY <1>1, <1>3, <1>5, <1>12, <2>2, <2>3 DEF SaidOf, LastWord
  <2>5. ToldSoFar(t)'
    BY <1>1, <1>3, <1>5, <1>12, <2>2, <2>3 DEF SaidOf, ToldSoFar, TellsOfIt
  <2>6. QED  BY <1>4, <1>6, <1>7, <1>8, <1>9, <2>4, <2>5 DEF Said, SaidOf
<1>13. QED  BY <1>10, <1>11, <1>12

LEMMA BreakOffSaid ==
  ASSUME Ticket!Given, Typed, Said, NEW p \in Residents, Ticket!BreakOff(p)
  PROVE  Said'
<1> SUFFICES ASSUME NEW t \in Ids PROVE SaidOf(t)'
  BY DEF Said
<1>1. /\ SaidOf(t) /\ UNCHANGED <<tickets, heard, on, plan>> /\ acting' = [acting EXCEPT ![p] = None]
      /\ acting \in [Residents -> Ticket!Runs \cup {None}] /\ t # None /\ "mixed" \notin Residents
      /\ word \in [Ids -> Residents \cup {"plan", "told", "mixed"}]
  BY DEF Said, Ticket!BreakOff, Typed, Ticket!TypeOK, Ticket!Given
<1>2. Ticket!OnIt(t)' = Ticket!OnIt(t) /\ \A q \in Residents \ {p} : acting'[q] = acting[q]
  BY <1>1 DEF Ticket!OnIt
<1>3. ~TellsOn(p, t)'
  BY <1>1 DEF TellsOn
<1>4. word[t] = p => acting[p].ticket = t
  BY <1>1 DEF SaidOf, TellsOfIt, TellsOn
<1>5. word'[t] # p /\ (word'[t] = "mixed" \/ word'[t] = word[t])
  <2>1. CASE acting[p].ticket = t
    <3>1. word'[t] = IF word[t] = p THEN "mixed" ELSE word[t]
      BY <1>1, <2>1 DEF Ticket!BreakOff, Ticket!Unheard
    <3>2. QED  BY <1>1, <3>1
  <2>2. CASE acting[p].ticket # t
    <3>1. word'[t] = word[t]
      BY <1>1, <2>2 DEF Ticket!BreakOff, Ticket!Unheard
    <3>2. QED  BY <1>4, <2>2, <3>1
  <2>3. QED  BY <2>1, <2>2
<1>6. QED  BY <1>1, <1>2, <1>3, <1>5, Frame

LEMMA PlanningSaid ==
  ASSUME Ticket!Given, Typed, Said, NEW t \in Ids, Ticket!PlanReads(t) \/ Ticket!PlanTargets(t)
         \/ Ticket!PlanGives(t) \/ Ticket!PlanTells(t)
  PROVE  Said'
<1>1. acting' = acting /\ plan \in [Ids -> Ticket!Plans \cup {None}]
  BY DEF Ticket!PlanReads, Ticket!PlanTargets, Ticket!PlanGives, Ticket!PlanTells, Typed, Ticket!TypeOK
<1>2. ASSUME \A u \in Ids \ {t} : /\ tickets'[u] = tickets[u] /\ heard'[u] = heard[u] /\ word'[u] = word[u]
                                  /\ on'[u] = on[u] /\ plan'[u] = plan[u]
      PROVE  \A u \in Ids \ {t} : SaidOf(u)'
  <2> SUFFICES ASSUME NEW u \in Ids \ {t} PROVE SaidOf(u)'
    OBVIOUS
  <2>1. SaidOf(u) /\ Ticket!OnIt(u)' = Ticket!OnIt(u)
    BY <1>2 DEF Said, Ticket!OnIt
  <2>2. QED  BY <1>1, <1>2, <2>1, Frame
<1>3. CASE Ticket!PlanReads(t) \/ Ticket!PlanTargets(t)
  <2>1. UNCHANGED <<tickets, heard, word, on>> /\ Ticket!OnIt(t)' = Ticket!OnIt(t) /\ SaidOf(t)
    BY <1>3 DEF Ticket!PlanReads, Ticket!PlanTargets, Said, Ticket!OnIt
  <2>2. \A u \in Ids \ {t} : plan'[u] = plan[u]
    BY <1>1, <1>3 DEF Ticket!PlanReads, Ticket!PlanTargets
  <2>3. plan'[t] = None \/ plan'[t].at # "tell"
    <3>1. CASE Ticket!PlanReads(t)
      BY <1>1, <3>1 DEF Ticket!PlanReads
    <3>2. CASE Ticket!PlanTargets(t)
      BY <1>1, <3>2 DEF Ticket!PlanTargets, Ticket!Plans
    <3>3. QED  BY <1>3, <3>1, <3>2
  <2>4. SaidOf(t)'
    BY <1>1, <2>1, <2>3, Frame
  <2>5. \A u \in Ids \ {t} : SaidOf(u)'
    BY <1>2, <2>1, <2>2
  <2>6. QED  BY <2>4, <2>5 DEF Said
<1>4. CASE Ticket!PlanGives(t)
  <2>1. plan[t] # None /\ plan[t] \in Ticket!Plans /\ t \in Ticket!There /\ plan[t].new \in Residents
    BY <1>4 DEF Ticket!PlanGives, Typed, Ticket!TypeOK, InPlan
  <2>2. PICK parties \in SUBSET (Residents \X {"level2"}) :
           Ticket!HandTo(t, plan[t].new, plan[t].old, parties, "plan")
    <3>1. ({plan[t].old} \ {None}) \X {"level2"} \in SUBSET (Residents \X {"level2"})
      BY <2>1 DEF Ticket!Plans
    <3>2. QED  BY <1>4, <3>1 DEF Ticket!PlanGives
  <2>3. heard' = heard /\ \A u \in Ids \ {t} : plan'[u] = plan[u]
    BY <1>1, <1>4 DEF Ticket!PlanGives
  <2>4. SaidOf(t)'
    BY <1>1, <2>1, <2>2, <2>3, HandToSaid DEF Ticket!Given
  <2>5. \A u \in Ids \ {t} : tickets'[u] = tickets[u] /\ on'[u] = on[u] /\ word'[u] = word[u]
    BY <2>2 DEF Ticket!HandTo, Typed, Ticket!TypeOK
  <2>6. \A u \in Ids \ {t} : SaidOf(u)'
    BY <1>2, <2>3, <2>5
  <2>7. QED  BY <2>4, <2>6 DEF Said
<1>5. CASE Ticket!PlanTells(t)
  <2>1. plan[t] # None /\ plan[t].at = "tell" /\ t \in Ticket!There /\ SaidOf(t) /\ UNCHANGED <<tickets, on>>
    BY <1>5 DEF Ticket!PlanTells, Typed, InPlan, Said
  <2>2. plan'[t] = None /\ \A u \in Ids \ {t} : plan'[u] = plan[u] /\ heard'[u] = heard[u] /\ word'[u] = word[u]
    BY <1>1, <1>5 DEF Ticket!PlanTells, Ticket!Unheard, Typed, Ticket!TypeOK
  <2>3. word'[t] = "mixed" /\ tickets[t].handler # None
    BY <1>5, <2>1 DEF Ticket!PlanTells, Ticket!Unheard, SaidOf, OneTells, Typed, Ticket!TypeOK
  <2>4. (t \in Ticket!There)' /\ "mixed" \notin Residents /\ \A q \in Residents : TellsOn(q, t)' <=> TellsOn(q, t)
    BY <1>1, <2>1 DEF Ticket!There, Ticket!Given, TellsOn
  <2>5. SaidOf(t)'
    BY <1>1, <2>1, <2>2, <2>3, <2>4 DEF SaidOf, TellsOfIt, OneTells, KnowsWho, ToldSoFar, NobodyHeard, LastWord
  <2>6. \A u \in Ids \ {t} : SaidOf(u)'
    BY <1>2, <2>1, <2>2
  <2>7. QED  BY <2>5, <2>6 DEF Said
<1>6. QED  BY <1>3, <1>4, <1>5

LEMMA Init_Said ==
  ASSUME Ticket!Given, Ticket!Init
  PROVE  Said
BY DEF Ticket!Given, Ticket!Init, Said, SaidOf, TellsOfIt, OneTells, KnowsWho, ToldSoFar, NobodyHeard, LastWord,
   Ticket!There, TellsOn

LEMMA Next_Said ==
  ASSUME Ticket!Given, Typed, Said, [Ticket!Next]_(Ticket!vars)
  PROVE  Said'
<1>1. CASE UNCHANGED Ticket!vars
  <2> SUFFICES ASSUME NEW t \in Ids PROVE SaidOf(t)'
    BY DEF Said
  <2>1. SaidOf(t) /\ Ticket!OnIt(t)' = Ticket!OnIt(t) /\ UNCHANGED <<tickets, heard, word, acting, plan>>
    BY <1>1 DEF Said, Ticket!OnIt, Ticket!vars
  <2>2. QED  BY <2>1, Frame
<1>2. QED
  BY <1>1, BeginningSaid, InsertSaid, KeepOldSaid, GivingSaid, AddLevel2Said, LookSaid, TellSaid, AnswerSaid,
     BreakOffSaid, PlanningSaid DEF Ticket!Next

\* Once the last change of a ticket's handler was made known by one alone, who is on the ticket and was told anything
\* believes what is so, and the handler knows: for any people, roles, routing, hand-overs and faults.
THEOREM LastWordIsTrueHolds == Ticket!Spec => []Ticket!LastWordIsTrue
<1> USE TicketGiven
<1>1. Ticket!Init => Typed /\ Said
  BY Init_Typed, Init_Said
<1>2. (Typed /\ Said) /\ [Ticket!Next]_(Ticket!vars) => (Typed /\ Said)'
  BY Next_Typed, Next_Said
<1>3. Typed /\ Said => Ticket!LastWordIsTrue
  BY DEF Said, SaidOf, LastWord, Ticket!LastWordIsTrue, Ticket!There
<1>4. QED  BY <1>1, <1>2, <1>3, PTL DEF Ticket!Spec

-----------------------------------------------------------------------------
(* The flows, as admins change them *)

(* The invariant *)

Snapshots == UNION {[V -> Edit!Kept] : V \in SUBSET Nat}
Syncing == {"roles", "others", "grant"}
Forgetting == {"granted", "roles", "others", "grant", "forget"}

\* What a request is, going by its kind and by how far it is.
Sound(q) ==
  /\ q \in Edit!Asks
  /\ \/ q.kind = "save"   /\ q.stage \in {"save"} \cup Forgetting /\ (q.stage = "forget" => q.plain = FALSE)
     \/ q.kind = "create" /\ q.stage = "create"
     \/ q.kind = "create" /\ q.stage \in {"base", "save", "granted"} \cup Syncing /\ q.plain = TRUE
     \/ q.kind = "roles"  /\ q.stage \in Syncing
     \/ q.kind = "role"   /\ q.stage \in {"next"} \cup Syncing
     \/ q.kind = "switch" /\ q.stage \in {"switch", "flip"} \cup Syncing
     \/ q.kind = "delete" /\ q.stage \in {"keep", "remove"} \cup Syncing
  /\ q.stage # "next" => q.flow \in Editable
  /\ q.kind = "role" => q.role \in PanelRoles
  /\ q.stage \in {"save", "create", "base", "granted", "keep"} \cup Syncing => q.text \in Texts

EditTyped ==
  /\ row \in [Editable -> Edit!Rows \cup {None}]
  /\ made \in [Editable -> Seq(Edit!Made)]
  /\ kept \in [Editable -> Snapshots]
  /\ permissions \in [PanelRoles -> SUBSET Edit!Keys]
  /\ page \in [Admins -> Edit!Pages \cup {None}]
  /\ request \in [Admins -> Edit!Asks \cup {None}]
  /\ \A a \in Admins : request[a] # None => Sound(request[a])
  /\ requests \in 0..MaxRequests /\ cuts \in 0..MaxCuts /\ crossed \in BOOLEAN
  /\ sketch \in [Editable -> Nat] /\ behind \in SUBSET Editable

\* A flow is at the last version that was made of it.
LastMade == \A f \in Editable : Edit!There(f) =>
  /\ made[f] # <<>>
  /\ row[f].version = Len(made[f])
  /\ row[f].text = made[f][Len(made[f])].text

\* What is kept is what was made ...
KeptIsMade == \A f \in Editable : \A v \in DOMAIN kept[f] : v \in 1..Len(made[f]) /\ kept[f][v].text = made[f][v].text

\* ... and all that was made is kept, but for the flow's version as it stands.
MadeIsKept == \A f \in Editable : \A v \in 1..Len(made[f]) : v < Len(made[f]) \/ ~Edit!There(f)
  => v \in DOMAIN kept[f]

\* The last version of a flow that is being deleted is kept, or is the one the request is about to keep.
Goes(q) == q.kind = "delete" =>
  /\ q.stage = "keep" => q.base \in 1..Len(made[q.flow]) /\ q.text = made[q.flow][q.base].text
  /\ Len(made[q.flow]) \in DOMAIN kept[q.flow] \/ (q.stage = "keep" /\ q.base = Len(made[q.flow]))

\* A request that saves starts from the version it is going to replace, or is one of plain words and not alone, or of
\* a flow with a draft that was kept late.
Starts(q) ==
  /\ q.kind = "save" => q.from = q.base \/ (q.plain = TRUE /\ (~Edit!Calm \/ q.flow \in behind))
  /\ q.kind = "create" =>
       /\ q.from = 1
       /\ q.stage = "save" => q.base = 1 \/ ~Edit!Calm
       /\ q.stage \in {"base", "save"} /\ Edit!There(q.flow) => row[q.flow].version = 1 \/ ~Edit!Calm

Opened(p) == (p.from = p.base /\ p.live = p.base) \/ (p.plain = TRUE /\ (~Edit!Calm \/ p.flow \in behind))

Alone == crossed \/ \A a, b \in Admins : request[a] # None /\ request[b] # None => a = b

\* The plain words and the draft say the flow's version, or the one who changed it is about to drop them.
Drops(q, f) == q.flow = f /\ q.kind = "save" /\ q.plain = FALSE /\ q.stage \in Forgetting
WordsFit(f) == row[f].plain \in {0, row[f].version} /\ (sketch[f] \in {0, row[f].version} \/ f \in behind)
SaysIt(f) == WordsFit(f) \/ \E a \in Admins : request[a] # None /\ Drops(request[a], f)

History == LastMade /\ KeptIsMade /\ MadeIsKept
Going == \A a \in Admins : request[a] # None => Goes(request[a])
Starting ==
  /\ \A a \in Admins : request[a] # None => Starts(request[a])
  /\ \A a \in Admins : page[a] # None => Opened(page[a])
InWords == Edit!Calm => \A f \in Editable : Edit!There(f) => SaysIt(f)

EditInv == EditTyped /\ History /\ Going /\ Alone /\ Starting /\ InWords /\ Edit!EditsBuildOnTheLast

-----------------------------------------------------------------------------
(* What is asked for *)

\* A request begins: a new one, of which only this much matters.
Begins(a, q) ==
  /\ request[a] = None /\ Sound(q)
  /\ request' = [request EXCEPT ![a] = q]
  /\ requests' \in 0..MaxRequests
  /\ crossed' = (crossed \/ \E b \in Admins \ {a} : request[b] # None)
  /\ page' = page \/ page' = [page EXCEPT ![a] = None]
  /\ UNCHANGED <<row, kept, permissions, cuts, sketch, behind, made>>
  /\ q.kind = "save" =>
       /\ q.stage = "save" /\ page[a] # None
       /\ \/ q.from = q.base
          \/ q.plain = page[a].plain /\ q.from = page[a].from /\ q.base = page[a].base /\ q.flow = page[a].flow
  /\ q.kind = "create" => q.stage = "create" /\ q.from = 1
  /\ q.kind = "delete" => q.stage = "keep" /\ Edit!There(q.flow) /\ q.text = row[q.flow].text
         /\ q.base = row[q.flow].version

LEMMA AskIsOne ==
  ASSUME Edit!Given, EditTyped, NEW a \in Admins, Edit!Free(a), NEW q, Edit!Ask(a, q)
  PROVE  /\ request[a] = None
         /\ request' = [request EXCEPT ![a] = q]
         /\ requests' \in 0..MaxRequests
         /\ crossed' = (crossed \/ \E b \in Admins \ {a} : request[b] # None)
<1>1. requests \in Nat /\ MaxRequests \in Nat /\ requests < MaxRequests /\ requests' = requests + 1
  BY DEF Edit!Given, EditTyped, Edit!Free, Edit!Ask
<1> QED BY <1>1 DEF Edit!Free, Edit!Ask

LEMMA SentIsOne == Edit!Sent \in Edit!Asks
<1>1. "" \in Edit!Kinds /\ "" \in Edit!Stages /\ {} \in SUBSET Edit!Tasks
  BY DEF Edit!Kinds, Edit!Stages
<1> QED BY <1>1 DEF Edit!Sent, Edit!Asks

LEMMA AskSaveBegins ==
  ASSUME Edit!Given, EditTyped, NEW a \in Admins, NEW t \in Texts, Edit!AskSave(a, t)
  PROVE  \E q \in Edit!Asks : Begins(a, q)
<1> DEFINE p == page[a]
           q == [Edit!Sent EXCEPT !.kind = "save", !.stage = "save", !.flow = p.flow, !.base = p.base,
                  !.from = p.from,
                    !.plain = p.plain, !.text = t]
<1>1. Edit!Free(a) /\ page[a] # None /\ Edit!Ask(a, q) /\ Edit!Leave(a) /\ UNCHANGED <<row, kept, permissions,
        cuts, sketch, behind, made>>
  BY DEF Edit!AskSave, Edit!drafts
<1>2. page[a] \in Edit!Pages
  BY <1>1 DEF EditTyped
<1>3. p.flow \in Editable /\ p.base \in Nat /\ p.from \in Nat /\ p.plain \in BOOLEAN
  BY <1>2 DEF Edit!Pages
<1>4. /\ q \in Edit!Asks
      /\ q.kind = "save" /\ q.stage = "save" /\ q.flow = p.flow /\ q.text = t
      /\ q.plain = p.plain /\ q.from = p.from /\ q.base = p.base
  <2>1. Edit!Sent \in Edit!Asks
    BY SentIsOne
  <2>2. q \in Edit!Asks
    BY <1>3, <2>1 DEF Edit!Asks, Edit!Kinds, Edit!Stages
  <2>3. q.kind = "save" /\ q.stage = "save" /\ q.flow = p.flow /\ q.text = t
    BY <2>1 DEF Edit!Asks
  <2>4. q.plain = p.plain /\ q.from = p.from /\ q.base = p.base
    BY <2>1 DEF Edit!Asks
  <2> QED BY <2>2, <2>3, <2>4
<1> HIDE DEF q
<1>5. Sound(q)
  BY <1>3, <1>4 DEF Sound
<1>6. Begins(a, q)
  BY <1>1, <1>4, <1>5, AskIsOne DEF Begins, Edit!Leave, Edit!Shows
<1> QED BY <1>4, <1>6

\* What is kept of a flow has steps.
LEMMA KeptHasSteps ==
  ASSUME EditTyped, NEW f \in Editable, NEW v \in DOMAIN kept[f]
  PROVE  kept[f][v] \in Edit!Kept /\ kept[f][v].text \in Texts /\ v \in Nat
<1>1. kept[f] \in Snapshots
  BY DEF EditTyped
<1>2. PICK V \in SUBSET Nat : kept[f] \in [V -> Edit!Kept]
  BY <1>1 DEF Snapshots
<1>3. kept[f][v] \in Edit!Kept /\ v \in Nat
  BY <1>2
<1> QED BY <1>3 DEF Edit!Kept

\* A row has a version and steps.
LEMMA RowIsOne ==
  ASSUME EditTyped, NEW f \in Editable, Edit!There(f)
  PROVE  row[f] \in Edit!Rows /\ row[f].text \in Texts /\ row[f].version \in Nat /\ row[f].plain \in Nat
         /\ row[f].on \in BOOLEAN
<1>1. row[f] \in Edit!Rows
  BY DEF EditTyped, Edit!There
<1> QED BY <1>1 DEF Edit!Rows

LEMMA AskRestoreBegins ==
  ASSUME Edit!Given, EditTyped, NEW a \in Admins, NEW v, Edit!AskRestore(a, v)
  PROVE  \E q \in Edit!Asks : Begins(a, q)
<1> DEFINE p == page[a]
           t == kept[p.flow][v].text
           q == [Edit!Sent EXCEPT !.kind = "save", !.stage = "save", !.flow = p.flow, !.base = p.base,
                  !.from = p.base,
                    !.text = t]
<1>1. Edit!Free(a) /\ page[a] # None /\ Edit!Ask(a, q) /\ Edit!Leave(a) /\ UNCHANGED <<row, kept, permissions,
        cuts, sketch, behind, made>>
      /\ v \in DOMAIN kept[p.flow]
  BY DEF Edit!AskRestore, Edit!drafts
<1>2. page[a] \in Edit!Pages
  BY <1>1 DEF EditTyped
<1>3. p.flow \in Editable /\ p.base \in Nat
  BY <1>2 DEF Edit!Pages
<1>4. t \in Texts
  BY <1>1, <1>3, KeptHasSteps
<1> HIDE DEF t
<1>5. /\ q \in Edit!Asks
      /\ q.kind = "save" /\ q.stage = "save" /\ q.flow = p.flow /\ q.text = t
      /\ q.from = q.base
  <2>1. Edit!Sent \in Edit!Asks
    BY SentIsOne
  <2>2. q \in Edit!Asks
    BY <1>3, <1>4, <2>1 DEF Edit!Asks, Edit!Kinds, Edit!Stages
  <2>3. q.kind = "save" /\ q.stage = "save" /\ q.flow = p.flow /\ q.text = t
    BY <2>1 DEF Edit!Asks
  <2>4. q.from = q.base
    BY <2>1 DEF Edit!Asks
  <2> QED BY <2>2, <2>3, <2>4
<1> HIDE DEF q
<1>6. Sound(q)
  BY <1>3, <1>4, <1>5 DEF Sound
<1>7. Begins(a, q)
  BY <1>1, <1>5, <1>6, AskIsOne DEF Begins, Edit!Leave, Edit!Shows
<1> QED BY <1>5, <1>7

LEMMA AskCreateBegins ==
  ASSUME Edit!Given, EditTyped, NEW a \in Admins, NEW f \in Editable, NEW t \in Texts, NEW plain \in BOOLEAN,
         Edit!AskCreate(a, f, t, plain)
  PROVE  \E q \in Edit!Asks : Begins(a, q)
<1> DEFINE q == [Edit!Sent EXCEPT !.kind = "create", !.stage = "create", !.flow = f, !.base = 1, !.from = 1,
        !.plain = plain,
                    !.text = t]
<1>1. Edit!Free(a) /\ Edit!Ask(a, q) /\ UNCHANGED <<row, kept, permissions, page, cuts, sketch, behind, made>>
  BY DEF Edit!AskCreate, Edit!drafts
<1>2. /\ q \in Edit!Asks
      /\ q.kind = "create" /\ q.stage = "create" /\ q.flow = f /\ q.text = t /\ q.from = 1
  <2>1. Edit!Sent \in Edit!Asks
    BY SentIsOne
  <2>2. q \in Edit!Asks
    BY <2>1 DEF Edit!Asks, Edit!Kinds, Edit!Stages
  <2>3. q.kind = "create" /\ q.stage = "create" /\ q.flow = f /\ q.text = t /\ q.from = 1
    BY <2>1 DEF Edit!Asks
  <2> QED BY <2>2, <2>3
<1> HIDE DEF q
<1>3. Sound(q)
  BY <1>2 DEF Sound
<1>4. Begins(a, q)
  BY <1>1, <1>2, <1>3, AskIsOne DEF Begins
<1> QED BY <1>2, <1>4

LEMMA AskRolesBegins ==
  ASSUME Edit!Given, EditTyped, NEW a \in Admins, NEW f \in Editable, NEW R \in SUBSET PanelRoles,
         Edit!AskRoles(a, f, R)
  PROVE  \E q \in Edit!Asks : Begins(a, q)
<1> DEFINE q == [Edit!Sent EXCEPT !.kind = "roles", !.stage = "roles", !.flow = f, !.text = row[f].text, !.roles = R]
<1>1. Edit!Free(a) /\ Edit!There(f) /\ Edit!Ask(a, q) /\ UNCHANGED <<row, kept, permissions, page, cuts, sketch,
         behind, made>>
  BY DEF Edit!AskRoles, Edit!drafts
<1>2. row[f].text \in Texts
  BY <1>1, RowIsOne
<1>3. /\ q \in Edit!Asks
      /\ q.kind = "roles" /\ q.stage = "roles" /\ q.flow = f /\ q.text = row[f].text
  <2>1. Edit!Sent \in Edit!Asks
    BY SentIsOne
  <2>2. q \in Edit!Asks
    BY <1>2, <2>1 DEF Edit!Asks, Edit!Kinds, Edit!Stages
  <2>3. q.kind = "roles" /\ q.stage = "roles" /\ q.flow = f /\ q.text = row[f].text
    BY <2>1 DEF Edit!Asks
  <2> QED BY <2>2, <2>3
<1> HIDE DEF q
<1>4. Sound(q)
  BY <1>2, <1>3 DEF Sound, Syncing
<1>5. Begins(a, q)
  BY <1>1, <1>3, <1>4, AskIsOne DEF Begins
<1> QED BY <1>3, <1>5

LEMMA AskRoleBegins ==
  ASSUME Edit!Given, EditTyped, NEW a \in Admins, NEW r \in PanelRoles, NEW W \in SUBSET (Editable \ Blocks),
         Edit!AskRole(a, r, W)
  PROVE  \E q \in Edit!Asks : Begins(a, q)
<1> DEFINE T == {[flow |-> f, text |-> row[f].text, wanted |-> f \in W]
        : f \in {g \in Editable \ Blocks : Edit!There(g)}}
           q == [Edit!Sent EXCEPT !.kind = "role", !.stage = "next", !.role = r, !.todo = T]
<1>1. Edit!Free(a) /\ Edit!Ask(a, q) /\ UNCHANGED <<row, kept, permissions, page, cuts, sketch, behind, made>>
  BY DEF Edit!AskRole, Edit!drafts
<1>2. T \in SUBSET Edit!Tasks
  <2> SUFFICES ASSUME NEW f \in Editable, Edit!There(f)
               PROVE  [flow |-> f, text |-> row[f].text, wanted |-> f \in W] \in Edit!Tasks
    OBVIOUS
  <2>1. row[f].text \in Texts
    BY RowIsOne
  <2>2. (f \in W) \in BOOLEAN
    OBVIOUS
  <2>3. PICK b \in BOOLEAN : b = (f \in W)
    BY <2>2
  <2>4. [flow |-> f, text |-> row[f].text, wanted |-> b] \in Edit!Tasks
    BY <2>1 DEF Edit!Tasks
  <2> QED BY <2>3, <2>4
<1> HIDE DEF T
<1>3. /\ q \in Edit!Asks
      /\ q.kind = "role" /\ q.stage = "next" /\ q.role = r
  <2>1. Edit!Sent \in Edit!Asks
    BY SentIsOne
  <2>2. q \in Edit!Asks
    BY <1>2, <2>1 DEF Edit!Asks, Edit!Kinds, Edit!Stages
  <2>3. q.kind = "role" /\ q.stage = "next" /\ q.role = r
    BY <2>1 DEF Edit!Asks
  <2> QED BY <2>2, <2>3
<1> HIDE DEF q
<1>4. Sound(q)
  BY <1>3 DEF Sound, Syncing
<1>5. Begins(a, q)
  BY <1>1, <1>3, <1>4, AskIsOne DEF Begins
<1> QED BY <1>3, <1>5

LEMMA AskSwitchBegins ==
  ASSUME Edit!Given, EditTyped, NEW a \in Admins, NEW f \in Editable, Edit!AskSwitch(a, f)
  PROVE  \E q \in Edit!Asks : Begins(a, q)
<1> DEFINE q == [Edit!Sent EXCEPT !.kind = "switch", !.stage = "switch", !.flow = f, !.on = ~row[f].on]
<1>1. Edit!Free(a) /\ Edit!There(f) /\ Edit!Ask(a, q) /\ UNCHANGED <<row, kept, permissions, page, cuts, sketch,
         behind, made>>
  BY DEF Edit!AskSwitch, Edit!drafts
<1>2. PICK b \in BOOLEAN : b = ~row[f].on
  BY Zenon
<1>3. /\ q \in Edit!Asks
      /\ q.kind = "switch" /\ q.stage = "switch" /\ q.flow = f
  <2>1. Edit!Sent \in Edit!Asks
    BY SentIsOne
  <2>2. q = [Edit!Sent EXCEPT !.kind = "switch", !.stage = "switch", !.flow = f, !.on = b]
    BY <1>2
  <2> HIDE DEF q
  <2>3. q \in Edit!Asks
    BY <2>1, <2>2 DEF Edit!Asks, Edit!Kinds, Edit!Stages
  <2>4. q.kind = "switch" /\ q.stage = "switch" /\ q.flow = f
    BY <2>1, <2>2 DEF Edit!Asks
  <2> QED BY <2>3, <2>4
<1> HIDE DEF q
<1>4. Sound(q)
  BY <1>3 DEF Sound, Syncing
<1>5. Begins(a, q)
  BY <1>1, <1>3, <1>4, AskIsOne DEF Begins
<1> QED BY <1>3, <1>5

LEMMA AskDeleteBegins ==
  ASSUME Edit!Given, EditTyped, NEW a \in Admins, NEW f \in Editable, Edit!AskDelete(a, f)
  PROVE  \E q \in Edit!Asks : Begins(a, q)
<1> DEFINE q == [Edit!Sent EXCEPT !.kind = "delete", !.stage = "keep", !.flow = f, !.text = row[f].text,
                    !.base = row[f].version]
<1>1. Edit!Free(a) /\ Edit!There(f) /\ Edit!Ask(a, q) /\ UNCHANGED <<row, kept, permissions, page, cuts, sketch,
         behind, made>>
  BY DEF Edit!AskDelete, Edit!drafts
<1>2. row[f].text \in Texts /\ row[f].version \in Nat
  BY <1>1, RowIsOne
<1>3. /\ q \in Edit!Asks
      /\ q.kind = "delete" /\ q.stage = "keep" /\ q.flow = f /\ q.text = row[f].text /\ q.base = row[f].version
  <2>1. Edit!Sent \in Edit!Asks
    BY SentIsOne
  <2>2. q \in Edit!Asks
    BY <1>2, <2>1 DEF Edit!Asks, Edit!Kinds, Edit!Stages
  <2>3. q.kind = "delete" /\ q.stage = "keep" /\ q.flow = f /\ q.text = row[f].text /\ q.base = row[f].version
    BY <2>1 DEF Edit!Asks
  <2> QED BY <2>2, <2>3
<1> HIDE DEF q
<1>4. Sound(q)
  BY <1>2, <1>3 DEF Sound, Syncing
<1>5. Begins(a, q)
  BY <1>1, <1>3, <1>4, AskIsOne DEF Begins
<1> QED BY <1>3, <1>5

\* Whatever an admin asks for, a request begins.
LEMMA AskingBegins ==
  ASSUME Edit!Given, EditTyped, NEW a \in Admins, Edit!Asking(a)
  PROVE  \E q \in Edit!Asks : Begins(a, q)
<1>1. CASE \E t \in Texts : Edit!AskSave(a, t)
  BY <1>1, AskSaveBegins
<1>2. CASE \E v \in Edit!Versions : Edit!AskRestore(a, v)
  BY <1>2, AskRestoreBegins
<1>3. CASE \E f \in Editable, t \in Texts, plain \in BOOLEAN : Edit!AskCreate(a, f, t, plain)
  BY <1>3, AskCreateBegins
<1>4. CASE \E f \in Editable, R \in SUBSET PanelRoles : Edit!AskRoles(a, f, R)
  BY <1>4, AskRolesBegins
<1>5. CASE \E r \in PanelRoles, W \in SUBSET (Editable \ Blocks) : Edit!AskRole(a, r, W)
  BY <1>5, AskRoleBegins
<1>6. CASE \E f \in Editable : Edit!AskSwitch(a, f)
  BY <1>6, AskSwitchBegins
<1>7. CASE \E f \in Editable : Edit!AskDelete(a, f)
  BY <1>7, AskDeleteBegins
<1> QED BY <1>1, <1>2, <1>3, <1>4, <1>5, <1>6, <1>7 DEF Edit!Asking

-----------------------------------------------------------------------------
(* Requests on their way *)

\* A request goes on as x, or is over when x is None.
Moves(a, x) ==
  LET q == request[a]
  IN  /\ q # None
      /\ request' = [request EXCEPT ![a] = x]
      /\ x # None =>
           /\ Sound(x)
           /\ x.kind = q.kind /\ x.plain = q.plain /\ x.from = q.from
           /\ x.stage \in {"granted", "next", "forget", "flip", "remove"} \cup Syncing
           /\ q.kind # "role" => x.flow = q.flow /\ x.base = q.base

\* One that may end without dropping the plain words.
MayEnd(q) == ~(q.kind = "save" /\ q.plain = FALSE /\ q.stage \in Forgetting)

\* A request moves, and nothing else does but the roles.
Quiet(a) ==
  /\ \E x \in Edit!Asks \cup {None} : Moves(a, x) /\ (x = None => MayEnd(request[a]))
  /\ request[a].stage # "keep"
  /\ permissions' \in [PanelRoles -> SUBSET Edit!Keys]
  /\ UNCHANGED <<row, kept, page, requests, cuts, sketch, behind, made, crossed>>

\* What is under way is sound.
LEMMA UnderWay ==
  ASSUME EditTyped, NEW a \in Admins, request[a] # None
  PROVE  request[a] \in Edit!Asks /\ Sound(request[a])
BY DEF EditTyped, Sound

LEMMA CreateFailsMoves ==
  ASSUME Edit!Given, EditTyped, NEW a \in Admins, Edit!CreateFails(a)
  PROVE  Quiet(a)
<1>1. request[a] # None /\ request[a].stage = "create" /\ request' = [request EXCEPT ![a] = None]
      /\ UNCHANGED <<row, kept, permissions, page, requests, cuts, sketch, behind, made, crossed>>
  BY DEF Edit!CreateFails, Edit!At, Edit!Over, Edit!history, Edit!drafts
<1>2. Moves(a, None) /\ MayEnd(request[a])
  BY <1>1 DEF Moves, MayEnd, Forgetting
<1> QED BY <1>1, <1>2 DEF Quiet, EditTyped

LEMMA RefuseMoves ==
  ASSUME Edit!Given, EditTyped, NEW a \in Admins, Edit!Refuse(a)
  PROVE  Quiet(a)
<1>1. request[a] # None /\ request[a].stage = "save" /\ request' = [request EXCEPT ![a] = None]
      /\ UNCHANGED <<row, kept, permissions, page, requests, cuts, sketch, behind, made, crossed>>
  BY DEF Edit!Refuse, Edit!At, Edit!Over, Edit!history, Edit!drafts
<1>2. Moves(a, None) /\ MayEnd(request[a])
  BY <1>1 DEF Moves, MayEnd, Forgetting
<1> QED BY <1>1, <1>2 DEF Quiet, EditTyped

LEMMA RoleDoneMoves ==
  ASSUME Edit!Given, EditTyped, NEW a \in Admins, Edit!RoleDone(a)
  PROVE  Quiet(a)
<1>1. request[a] # None /\ request[a].stage = "next" /\ request' = [request EXCEPT ![a] = None]
      /\ UNCHANGED <<row, kept, permissions, page, requests, cuts, sketch, behind, made, crossed>>
  BY DEF Edit!RoleDone, Edit!At, Edit!Over, Edit!history, Edit!drafts
<1>2. Moves(a, None) /\ MayEnd(request[a])
  BY <1>1 DEF Moves, MayEnd, Forgetting
<1> QED BY <1>1, <1>2 DEF Quiet, EditTyped

LEMMA ReadGrantedMoves ==
  ASSUME Edit!Given, EditTyped, NEW a \in Admins, Edit!ReadGranted(a)
  PROVE  Quiet(a)
<1> DEFINE q == request[a]
           x == [q EXCEPT !.stage = "roles", !.roles = Edit!Holders(q.flow)]
<1>1. q # None /\ q.stage = "granted" /\ request' = [request EXCEPT ![a] = x]
      /\ UNCHANGED <<row, kept, permissions, page, requests, cuts, sketch, behind, made, crossed>>
  BY DEF Edit!ReadGranted, Edit!At, Edit!GoOn, Edit!history, Edit!drafts
<1>2. q \in Edit!Asks /\ Sound(q)
  BY <1>1, UnderWay
<1> HIDE DEF q
<1>3. Edit!Holders(q.flow) \in SUBSET PanelRoles
  BY DEF Edit!Holders
<1>4. /\ x \in Edit!Asks /\ x.stage = "roles"
      /\ x.kind = q.kind /\ x.plain = q.plain /\ x.from = q.from /\ x.base = q.base /\ x.flow = q.flow
             /\ x.text = q.text
      /\ x.role = q.role
  <2>1. x \in Edit!Asks
    BY <1>2, <1>3 DEF Edit!Asks, Edit!Stages
  <2>2. x.stage = "roles" /\ x.kind = q.kind /\ x.plain = q.plain /\ x.from = q.from
    BY <1>2 DEF Edit!Asks
  <2>3. x.base = q.base /\ x.flow = q.flow /\ x.text = q.text /\ x.role = q.role
    BY <1>2 DEF Edit!Asks
  <2> QED BY <2>1, <2>2, <2>3
<1> HIDE DEF x
<1>5. Sound(x)
  BY <1>1, <1>2, <1>4 DEF Sound, Syncing, Forgetting
<1>6. Moves(a, x)
  BY <1>1, <1>4, <1>5 DEF Moves, q, Syncing
<1>7. x # None
  BY <1>4 DEF Edit!Given
<1> QED BY <1>1, <1>4, <1>6, <1>7 DEF Quiet, EditTyped, q

LEMMA ReadRolesMoves ==
  ASSUME Edit!Given, EditTyped, NEW a \in Admins, Edit!ReadRoles(a)
  PROVE  Quiet(a)
<1> DEFINE q == request[a]
           x == [q EXCEPT !.stage = "others", !.seen = permissions]
<1>1. q # None /\ q.stage = "roles" /\ request' = [request EXCEPT ![a] = x]
      /\ UNCHANGED <<row, kept, permissions, page, requests, cuts, sketch, behind, made, crossed>>
  BY DEF Edit!ReadRoles, Edit!At, Edit!GoOn, Edit!history, Edit!drafts
<1>2. q \in Edit!Asks /\ Sound(q)
  BY <1>1, UnderWay
<1> HIDE DEF q
<1>3. permissions \in [PanelRoles -> SUBSET Edit!Keys]
  BY DEF EditTyped
<1>4. /\ x \in Edit!Asks /\ x.stage = "others"
      /\ x.kind = q.kind /\ x.plain = q.plain /\ x.from = q.from /\ x.base = q.base /\ x.flow = q.flow
             /\ x.text = q.text
      /\ x.role = q.role
  <2>1. x \in Edit!Asks
    BY <1>2, <1>3 DEF Edit!Asks, Edit!Stages
  <2>2. x.stage = "others" /\ x.kind = q.kind /\ x.plain = q.plain /\ x.from = q.from
    BY <1>2 DEF Edit!Asks
  <2>3. x.base = q.base /\ x.flow = q.flow /\ x.text = q.text /\ x.role = q.role
    BY <1>2 DEF Edit!Asks
  <2> QED BY <2>1, <2>2, <2>3
<1> HIDE DEF x
<1>5. Sound(x)
  BY <1>1, <1>2, <1>4 DEF Sound, Syncing, Forgetting
<1>6. Moves(a, x)
  BY <1>1, <1>4, <1>5 DEF Moves, q, Syncing
<1>7. x # None
  BY <1>4 DEF Edit!Given
<1> QED BY <1>1, <1>4, <1>6, <1>7 DEF Quiet, EditTyped, q

LEMMA ReadOthersMoves ==
  ASSUME Edit!Given, EditTyped, NEW a \in Admins, Edit!ReadOthers(a)
  PROVE  Quiet(a)
<1> DEFINE q == request[a]
           x == [q EXCEPT !.stage = "grant", !.left = PanelRoles,
                      !.others = [g \in Edit!SwitchedOn(Editable \ {q.flow}) |-> row[g].text]]
<1>1. q # None /\ q.stage = "others" /\ request' = [request EXCEPT ![a] = x]
      /\ UNCHANGED <<row, kept, permissions, page, requests, cuts, sketch, behind, made, crossed>>
  BY DEF Edit!ReadOthers, Edit!At, Edit!GoOn, Edit!history, Edit!drafts
<1>2. q \in Edit!Asks /\ Sound(q)
  BY <1>1, UnderWay
<1> HIDE DEF q
<1>3. [g \in Edit!SwitchedOn(Editable \ {q.flow}) |-> row[g].text] \in Edit!Steps
  <2>1. \A g \in Edit!SwitchedOn(Editable \ {q.flow}) : g \in Editable /\ row[g].text \in Texts
    BY RowIsOne DEF Edit!SwitchedOn
  <2> QED BY <2>1 DEF Edit!Steps
<1>4. /\ x \in Edit!Asks /\ x.stage = "grant"
      /\ x.kind = q.kind /\ x.plain = q.plain /\ x.from = q.from /\ x.base = q.base /\ x.flow = q.flow
             /\ x.text = q.text
      /\ x.role = q.role
  <2>1. x \in Edit!Asks
    BY <1>2, <1>3 DEF Edit!Asks, Edit!Stages
  <2>2. x.stage = "grant" /\ x.kind = q.kind /\ x.plain = q.plain /\ x.from = q.from
    BY <1>2 DEF Edit!Asks
  <2>3. x.base = q.base /\ x.flow = q.flow /\ x.text = q.text /\ x.role = q.role
    BY <1>2 DEF Edit!Asks
  <2> QED BY <2>1, <2>2, <2>3
<1> HIDE DEF x
<1>5. Sound(x)
  BY <1>1, <1>2, <1>4 DEF Sound, Syncing, Forgetting
<1>6. Moves(a, x)
  BY <1>1, <1>4, <1>5 DEF Moves, q, Syncing
<1>7. x # None
  BY <1>4 DEF Edit!Given
<1> QED BY <1>1, <1>4, <1>6, <1>7 DEF Quiet, EditTyped, q

\* A bounded set of numbers has a greatest one.
LEMMA GreatestIsThere ==
  ASSUME NEW T \in SUBSET Nat, T # {}, NEW b \in Nat, \A x \in T : x <= b
  PROVE  \E x \in T : \A y \in T : y <= x
<1> DEFINE U == {n \in Nat : \A x \in T : x <= n}
<1>1. b \in U /\ U \in SUBSET Nat
  OBVIOUS
<1>2. PICK m \in U : \A n \in U : m <= n
  <2> HIDE DEF U
  <2> QED BY <1>1, LeastNumber
<1>3. m \in T
  <2> SUFFICES ASSUME m \notin T PROVE FALSE
    OBVIOUS
  <2>1. \A x \in T : x \in Nat /\ x < m
    BY <1>2
  <2>2. m \in Nat /\ m - 1 \in Nat /\ \A x \in T : x <= m - 1
    <3>1. PICK x \in T : TRUE
      OBVIOUS
    <3>2. m \in Nat /\ x \in Nat /\ x < m
      BY <1>2, <2>1, <3>1
    <3>3. QED  BY <2>1, <3>2
  <2>3. m - 1 \in U
    BY <2>2
  <2> QED BY <1>2, <2>2, <2>3
<1> QED BY <1>2, <1>3

\* The roles of the newest version that was kept are roles.
LEMMA LatestAreRoles ==
  ASSUME EditTyped, KeptIsMade, NEW f \in Editable
  PROVE  Edit!Latest(f) \in SUBSET PanelRoles
<1>1. CASE kept[f] = <<>>
  BY <1>1 DEF Edit!Latest
<1>2. CASE kept[f] # <<>>
  <2> DEFINE D == DOMAIN kept[f]
  <2>1. PICK V \in SUBSET Nat : kept[f] \in [V -> Edit!Kept]
    BY DEF EditTyped, Snapshots
  <2>2. D = V
    BY <2>1
  <2>3. D # {}
    <3> SUFFICES ASSUME D = {} PROVE FALSE
      OBVIOUS
    <3>1. kept[f] = [v \in {} |-> kept[f][v]]
      BY <2>1, <2>2
    <3>2. <<>> = [v \in {} |-> kept[f][v]]
      OBVIOUS
    <3> QED BY <1>2, <3>1, <3>2
  <2>4. Len(made[f]) \in Nat /\ \A v \in D : v <= Len(made[f])
    BY DEF EditTyped, KeptIsMade
  <2> HIDE DEF D
  <2>5. \E v \in D : \A w \in D : w <= v
    BY <2>1, <2>2, <2>3, <2>4, GreatestIsThere
  <2>6. (CHOOSE v \in D : \A w \in D : w <= v) \in D
    BY <2>5
  <2>7. kept[f][CHOOSE v \in D : \A w \in D : w <= v] \in Edit!Kept
    BY <2>1, <2>2, <2>6
  <2> QED BY <1>2, <2>7 DEF Edit!Latest, Edit!Kept, D
<1> QED BY <1>1, <1>2

LEMMA SwitchReadsMoves ==
  ASSUME Edit!Given, EditTyped, KeptIsMade, NEW a \in Admins, Edit!SwitchReads(a)
  PROVE  Quiet(a)
<1> DEFINE q == request[a]
           R == IF q.on THEN Edit!Latest(q.flow) ELSE {}
           x == [q EXCEPT !.stage = "roles", !.text = row[q.flow].text, !.roles = R]
<1>1. q # None /\ q.stage = "switch" /\ UNCHANGED <<row, kept, permissions, page, requests, cuts, sketch, behind,
         made, crossed>>
  BY DEF Edit!SwitchReads, Edit!At, Edit!drafts
<1>2. q \in Edit!Asks /\ Sound(q)
  BY <1>1, UnderWay
<1>3. q.flow \in Editable /\ q.kind = "switch"
  BY <1>1, <1>2 DEF Sound, Syncing, Forgetting
<1>4. CASE Edit!There(q.flow) /\ row[q.flow].on # q.on
  <2>1. request' = [request EXCEPT ![a] = x]
    BY <1>4 DEF Edit!SwitchReads, Edit!GoOn
  <2>2. row[q.flow].text \in Texts
    BY <1>3, <1>4, RowIsOne
  <2>3. R \in SUBSET PanelRoles
    BY <1>3, LatestAreRoles
  <2> HIDE DEF q, R
  <2>4. x \in Edit!Asks
    BY <1>2, <2>2, <2>3 DEF Edit!Asks, Edit!Stages
  <2>5. x.stage = "roles" /\ x.kind = q.kind /\ x.plain = q.plain /\ x.from = q.from
    BY <1>2 DEF Edit!Asks
  <2>6. x.base = q.base /\ x.flow = q.flow /\ x.text = row[q.flow].text
    BY <1>2 DEF Edit!Asks
  <2> HIDE DEF x
  <2>7. Sound(x)
    BY <1>1, <1>2, <1>3, <2>2, <2>4, <2>5, <2>6 DEF Sound, Syncing, Forgetting
  <2>8. Moves(a, x)
    BY <1>1, <2>1, <2>4, <2>5, <2>6, <2>7 DEF Moves, q, Syncing
  <2>9. x # None
    BY <2>4 DEF Edit!Given
  <2> QED BY <1>1, <2>4, <2>8, <2>9 DEF Quiet, EditTyped, q
<1>5. CASE ~(Edit!There(q.flow) /\ row[q.flow].on # q.on)
  <2>1. request' = [request EXCEPT ![a] = None]
    BY <1>5 DEF Edit!SwitchReads, Edit!Over
  <2>2. Moves(a, None) /\ MayEnd(request[a])
    BY <1>1, <1>3, <2>1 DEF Moves, MayEnd, Forgetting
  <2> QED BY <1>1, <2>2 DEF Quiet, EditTyped
<1> QED BY <1>4, <1>5

LEMMA RoleFlowMoves ==
  ASSUME Edit!Given, EditTyped, NEW a \in Admins, Edit!RoleFlow(a)
  PROVE  Quiet(a)
<1> DEFINE q == request[a]
<1>1. q # None /\ q.stage = "next" /\ UNCHANGED <<row, kept, permissions, page, requests, cuts, sketch, behind,
         made, crossed>>
  BY DEF Edit!RoleFlow, Edit!NextFlow, Edit!At, Edit!drafts
<1>2. q \in Edit!Asks /\ Sound(q)
  BY <1>1, UnderWay
<1>3. q.kind = "role" /\ q.role \in PanelRoles
  BY <1>1, <1>2 DEF Sound, Syncing, Forgetting
<1>4. PICK y \in q.todo : IF (y.flow \in permissions[q.role]) = y.wanted
         THEN request' = [request EXCEPT ![a] = [q EXCEPT !.todo = q.todo \ {y}]]
         ELSE request' = [request EXCEPT ![a] =
                [q EXCEPT !.todo = q.todo \ {y}, !.stage = "roles", !.flow = y.flow, !.text = y.text,
                   !.roles = IF y.wanted THEN Edit!Holders(y.flow) \cup {q.role}
                            ELSE Edit!Holders(y.flow) \ {q.role}]]
  BY DEF Edit!RoleFlow, Edit!NextFlow, Edit!GoOn
<1>5. y.flow \in Editable /\ y.text \in Texts /\ q.todo \ {y} \in SUBSET Edit!Tasks
  BY <1>2, <1>4 DEF Edit!Asks, Edit!Tasks
<1> HIDE DEF q
<1>6. SUFFICES ASSUME NEW x \in Edit!Asks, request' = [request EXCEPT ![a] = x], Sound(x),
                      x.kind = q.kind, x.plain = q.plain, x.from = q.from, x.stage \in {"next", "roles"}
               PROVE  Quiet(a)
  <2>1. CASE (y.flow \in permissions[q.role]) = y.wanted
    <3> DEFINE x == [q EXCEPT !.todo = q.todo \ {y}]
    <3>1. x \in Edit!Asks
      BY <1>2, <1>5 DEF Edit!Asks
    <3>2. x.stage = q.stage /\ x.kind = q.kind /\ x.plain = q.plain /\ x.from = q.from /\ x.role = q.role
      BY <1>2 DEF Edit!Asks
    <3>3. request' = [request EXCEPT ![a] = x]
      BY <1>4, <2>1
    <3> HIDE DEF x
    <3>4. Sound(x)
      BY <1>1, <1>3, <3>1, <3>2 DEF Sound, Syncing, q
    <3> QED BY <1>1, <1>6, <3>1, <3>2, <3>3, <3>4 DEF q
  <2>2. CASE ~((y.flow \in permissions[q.role]) = y.wanted)
    <3> DEFINE R == IF y.wanted THEN Edit!Holders(y.flow) \cup {q.role} ELSE Edit!Holders(y.flow) \ {q.role}
               x == [q EXCEPT !.todo = q.todo \ {y}, !.stage = "roles", !.flow = y.flow, !.text = y.text, !.roles = R]
    <3>1. R \in SUBSET PanelRoles
      BY <1>3 DEF Edit!Holders
    <3>2. request' = [request EXCEPT ![a] = x]
      BY <1>4, <2>2
    <3> HIDE DEF R
    <3>3. x \in Edit!Asks
      BY <1>2, <1>5, <3>1 DEF Edit!Asks, Edit!Stages
    <3>4. x.stage = "roles" /\ x.kind = q.kind /\ x.plain = q.plain /\ x.from = q.from
      BY <1>2 DEF Edit!Asks
    <3>5. x.flow = y.flow /\ x.text = y.text /\ x.role = q.role
      BY <1>2 DEF Edit!Asks
    <3> HIDE DEF x
    <3>6. Sound(x)
      BY <1>3, <1>5, <3>3, <3>4, <3>5 DEF Sound, Syncing
    <3> QED BY <1>6, <3>2, <3>3, <3>4, <3>6
  <2> QED BY <2>1, <2>2
<1>7. Moves(a, x)
  BY <1>1, <1>3, <1>6 DEF Moves, q, Syncing
<1>8. x # None
  BY <1>6 DEF Edit!Given
<1> QED BY <1>1, <1>6, <1>7, <1>8 DEF Quiet, EditTyped, q

LEMMA GrantMoves ==
  ASSUME Edit!Given, EditTyped, NEW a \in Admins, Edit!Grant(a)
  PROVE  Quiet(a)
<1> DEFINE q == request[a]
<1>1. q # None /\ q.stage = "grant" /\ UNCHANGED <<row, kept, page, requests, cuts, sketch, behind, made, crossed>>
  BY DEF Edit!Grant, Edit!At, Edit!history, Edit!drafts
<1>2. q \in Edit!Asks /\ Sound(q)
  BY <1>1, UnderWay
<1>3. PICK r \in q.left :
        /\ permissions' = [permissions EXCEPT ![r] =
              IF r \in q.roles THEN @ \cup (Edit!Required(q) \ q.seen[r])
              ELSE @ \ ((Edit!Required(q) \cap q.seen[r]) \ Edit!StillNeeded(q, r))]
        /\ IF q.left # {r} THEN request' = [request EXCEPT ![a] = [q EXCEPT !.left = q.left \ {r}]]
           ELSE IF Edit!Then(q) = "over" THEN request' = [request EXCEPT ![a] = None]
           ELSE request' = [request EXCEPT ![a] =
                  [q EXCEPT !.stage = Edit!Then(q), !.left = {}, !.seen = None, !.others = None]]
  BY DEF Edit!Grant, Edit!GoOn, Edit!Over
<1>4. r \in PanelRoles /\ q.left \ {r} \in SUBSET PanelRoles
  BY <1>2, <1>3 DEF Edit!Asks
<1>5. q.flow \in Editable /\ q.text \in Texts
  BY <1>1, <1>2 DEF Sound, Syncing
<1>6. permissions' \in [PanelRoles -> SUBSET Edit!Keys]
  <2>1. Edit!Required(q) \in SUBSET Edit!Keys
    BY <1>5 DEF Edit!Required, Edit!Keys
  <2>2. permissions \in [PanelRoles -> SUBSET Edit!Keys]
    BY DEF EditTyped
  <2>3. permissions[r] \cup (Edit!Required(q) \ q.seen[r]) \in SUBSET Edit!Keys
    BY <1>4, <2>1, <2>2
  <2>4. permissions[r] \ ((Edit!Required(q) \cap q.seen[r]) \ Edit!StillNeeded(q, r)) \in SUBSET Edit!Keys
    BY <1>4, <2>2
  <2>5. CASE r \in q.roles
    <3>1. permissions' = [permissions EXCEPT ![r] = permissions[r] \cup (Edit!Required(q) \ q.seen[r])]
      BY <1>3, <2>5
    <3> QED BY <2>2, <2>3, <3>1
  <2>6. CASE r \notin q.roles
    <3>1. permissions' = [permissions EXCEPT ![r] = permissions[r]
            \ ((Edit!Required(q) \cap q.seen[r]) \ Edit!StillNeeded(q, r))]
      BY <1>3, <2>6
    <3> QED BY <2>2, <2>4, <3>1
  <2> QED BY <2>5, <2>6
<1>7. CASE q.left # {r}
  <2> DEFINE x == [q EXCEPT !.left = q.left \ {r}]
  <2>1. request' = [request EXCEPT ![a] = x]
    BY <1>3, <1>7
  <2> HIDE DEF q
  <2>2. x \in Edit!Asks
    BY <1>2, <1>4 DEF Edit!Asks
  <2>3. x.stage = "grant" /\ x.kind = q.kind /\ x.plain = q.plain /\ x.from = q.from
    BY <1>1, <1>2 DEF Edit!Asks
  <2>4. x.base = q.base /\ x.flow = q.flow /\ x.text = q.text /\ x.role = q.role
    BY <1>2 DEF Edit!Asks
  <2> HIDE DEF x
  <2>5. Sound(x)
    BY <1>1, <1>2, <2>2, <2>3, <2>4 DEF Sound, Syncing, Forgetting
  <2>6. Moves(a, x)
    BY <1>1, <2>1, <2>2, <2>3, <2>4, <2>5 DEF Moves, q, Syncing
  <2>7. x # None
    BY <2>2 DEF Edit!Given
  <2> QED BY <1>1, <1>6, <2>2, <2>6, <2>7 DEF Quiet, q
<1>8. CASE q.left = {r} /\ Edit!Then(q) = "over"
  <2>1. request' = [request EXCEPT ![a] = None]
    BY <1>3, <1>8
  <2>2. MayEnd(q)
    BY <1>8 DEF MayEnd, Edit!Then
  <2>3. Moves(a, None)
    BY <1>1, <2>1 DEF Moves
  <2> QED BY <1>1, <1>6, <2>2, <2>3 DEF Quiet
<1>9. CASE q.left = {r} /\ Edit!Then(q) # "over"
  <2> DEFINE x == [q EXCEPT !.stage = Edit!Then(q), !.left = {}, !.seen = None, !.others = None]
  <2>1. request' = [request EXCEPT ![a] = x]
    BY <1>3, <1>9
  <2> HIDE DEF q
  <2>2. \/ q.kind = "save" /\ q.plain = FALSE /\ Edit!Then(q) = "forget"
        \/ q.kind = "switch" /\ Edit!Then(q) = "flip"
        \/ q.kind = "delete" /\ Edit!Then(q) = "remove"
        \/ q.kind = "role" /\ Edit!Then(q) = "next"
    <3>1. q.plain \in BOOLEAN
      BY <1>2 DEF Edit!Asks
    <3> QED BY <1>9, <3>1 DEF Edit!Then
  <2>3. Edit!Then(q) \in Edit!Stages /\ Edit!Then(q) \in {"forget", "flip", "remove", "next"}
    BY <2>2 DEF Edit!Stages
  <2>4. x \in Edit!Asks
    BY <1>2, <2>3 DEF Edit!Asks
  <2>5. x.stage = Edit!Then(q) /\ x.kind = q.kind /\ x.plain = q.plain /\ x.from = q.from
    BY <1>2 DEF Edit!Asks
  <2>6. x.base = q.base /\ x.flow = q.flow /\ x.text = q.text /\ x.role = q.role
    BY <1>2 DEF Edit!Asks
  <2> HIDE DEF x
  <2>7. Sound(x)
    BY <1>2, <1>5, <2>2, <2>4, <2>5, <2>6 DEF Sound, Forgetting, Syncing
  <2>8. Moves(a, x)
    BY <1>1, <2>1, <2>3, <2>5, <2>6, <2>7 DEF Moves, q
  <2>9. x # None
    BY <2>4 DEF Edit!Given
  <2> QED BY <1>1, <1>6, <2>4, <2>8, <2>9 DEF Quiet, q
<1> QED BY <1>7, <1>8, <1>9

-----------------------------------------------------------------------------
(* What stays when requests begin, move and end *)

\* Requests stay sound.
LEMMA SoundStays ==
  ASSUME EditTyped, NEW a \in Admins, NEW x \in Edit!Asks \cup {None}, x # None => Sound(x),
         request' = [request EXCEPT ![a] = x]
  PROVE  /\ request' \in [Admins -> Edit!Asks \cup {None}]
         /\ \A b \in Admins : request'[b] # None => Sound(request'[b])
         /\ request'[a] = x /\ \A b \in Admins \ {a} : request'[b] = request[b]
BY DEF EditTyped

\* Calm does not come back.
LEMMA CalmWas ==
  ASSUME cuts' = cuts, crossed => crossed', Edit!Calm'
  PROVE  Edit!Calm
BY DEF Edit!Calm

LEMMA QuietTyped ==
  ASSUME EditTyped, NEW a \in Admins, Quiet(a)
  PROVE  EditTyped'
<1>1. PICK x \in Edit!Asks \cup {None} : Moves(a, x)
  BY DEF Quiet
<1>2. request' = [request EXCEPT ![a] = x] /\ (x # None => Sound(x))
  BY <1>1 DEF Moves
<1>3. /\ request' \in [Admins -> Edit!Asks \cup {None}]
      /\ \A b \in Admins : request'[b] # None => Sound(request'[b])
  BY <1>2, SoundStays
<1>4. \A b \in Admins : request'[b] # None => Sound(request[b])'
  BY <1>3 DEF Sound
<1> QED BY <1>3, <1>4 DEF EditTyped, Quiet

\* A move of a request, as the other parts of the invariant see it.
LEMMA MoveSeen ==
  ASSUME EditTyped, NEW a \in Admins, NEW x \in Edit!Asks \cup {None}, Moves(a, x)
  PROVE  /\ request'[a] = x /\ \A b \in Admins \ {a} : request'[b] = request[b]
         /\ \A b \in Admins : request'[b] # None => request[b] # None
BY DEF EditTyped, Moves

LEMMA QuietGoing ==
  ASSUME EditTyped, Going, NEW a \in Admins, Quiet(a)
  PROVE  Going'
<1>1. PICK x \in Edit!Asks \cup {None} : Moves(a, x)
  BY DEF Quiet
<1>2. UNCHANGED <<kept, made>> /\ request[a].stage # "keep"
  BY DEF Quiet
<1> SUFFICES ASSUME NEW b \in Admins, request'[b] # None
             PROVE  Goes(request[b])'
  BY DEF Going
<1>3. CASE b # a
  <2>1. request'[b] = request[b] /\ Goes(request[b])
    BY <1>1, <1>3, MoveSeen DEF Going
  <2> QED BY <1>2, <2>1 DEF Goes
<1>4. CASE b = a
  <2>1. request'[a] = x /\ request[a] # None /\ Goes(request[a])
    BY <1>1, MoveSeen DEF Going, Moves
  <2>2. x.kind = "delete" => x.flow = request[a].flow /\ request[a].kind = "delete" /\ x.stage # "keep"
    BY <1>1, <1>4, <2>1 DEF Moves, Syncing
  <2> QED BY <1>2, <1>4, <2>1, <2>2 DEF Goes
<1> QED BY <1>3, <1>4

LEMMA QuietStarting ==
  ASSUME EditTyped, Starting, NEW a \in Admins, Quiet(a)
  PROVE  Starting'
<1>1. PICK x \in Edit!Asks \cup {None} : Moves(a, x)
  BY DEF Quiet
<1>2. UNCHANGED <<row, page, cuts, sketch, behind, crossed>>
  BY DEF Quiet
<1>3. Edit!Calm' = Edit!Calm /\ behind' = behind
  BY <1>2 DEF Edit!Calm
<1>4. \A b \in Admins : page'[b] # None => Opened(page[b])'
  BY <1>2, <1>3 DEF Starting, Opened
<1>5. ASSUME NEW b \in Admins, request'[b] # None
      PROVE  Starts(request[b])'
  <2>1. CASE b # a
    <3>1. request'[b] = request[b] /\ Starts(request[b])
      BY <1>1, <1>5, <2>1, MoveSeen DEF Starting
    <3> QED BY <1>2, <1>3, <3>1 DEF Starts, Edit!There
  <2>2. CASE b = a
    <3>1. request'[a] = x /\ request[a] # None /\ Starts(request[a])
      BY <1>1, MoveSeen DEF Starting, Moves
    <3>2. /\ x.kind = request[a].kind /\ x.plain = request[a].plain /\ x.from = request[a].from
          /\ x.stage \notin {"save", "base"}
          /\ x.kind = "save" => x.base = request[a].base /\ x.flow = request[a].flow
      BY <1>1, <1>5, <2>2, <3>1 DEF Moves, Syncing
    <3> QED BY <1>3, <2>2, <3>1, <3>2 DEF Starts
  <2> QED BY <2>1, <2>2
<1> QED BY <1>4, <1>5 DEF Starting

LEMMA QuietInWords ==
  ASSUME EditTyped, InWords, NEW a \in Admins, Quiet(a)
  PROVE  InWords'
<1>1. PICK x \in Edit!Asks \cup {None} : Moves(a, x) /\ (x = None => MayEnd(request[a]))
  BY DEF Quiet
<1>2. UNCHANGED <<row, cuts, sketch, behind, crossed>>
  BY DEF Quiet
<1> SUFFICES ASSUME Edit!Calm', NEW f \in Editable, Edit!There(f)'
             PROVE  SaysIt(f)'
  BY DEF InWords
<1>3. Edit!Calm /\ Edit!There(f) /\ SaysIt(f)
  BY <1>2 DEF Edit!Calm, Edit!There, InWords
<1>4. CASE WordsFit(f)
  BY <1>2, <1>4 DEF SaysIt, WordsFit
<1>5. ASSUME NEW b \in Admins, request[b] # None, Drops(request[b], f)
      PROVE  SaysIt(f)'
  <2>1. request'[b] # None /\ Drops(request'[b], f)
    <3>1. CASE b # a
      BY <1>1, <1>5, <3>1, MoveSeen
    <3>2. CASE b = a
      <4>1. x # None
        BY <1>1, <1>5, <3>2 DEF MayEnd, Drops
      <4>2. request'[b] = x /\ x.kind = request[b].kind /\ x.plain = request[b].plain /\ x.flow = request[b].flow
        BY <1>1, <1>5, <3>2, <4>1, MoveSeen DEF Moves, Drops
      <4>3. x.stage \in Forgetting
        BY <1>1, <1>5, <3>2, <4>1, <4>2 DEF Moves, Drops, Sound, Forgetting, Syncing
      <4> QED BY <1>5, <4>1, <4>2, <4>3 DEF Drops
    <3> QED BY <3>1, <3>2
  <2>2. Drops(request[b], f)'
    BY <2>1 DEF Drops
  <2> QED BY <2>1, <2>2 DEF SaysIt
<1> QED BY <1>3, <1>4, <1>5 DEF SaysIt

LEMMA QuietKeeps ==
  ASSUME Edit!Given, EditInv, NEW a \in Admins, Quiet(a)
  PROVE  EditInv'
<1>1. EditTyped' /\ Going' /\ Starting' /\ InWords'
  BY QuietTyped, QuietGoing, QuietStarting, QuietInWords DEF EditInv
<1>2. UNCHANGED <<row, kept, made, cuts, sketch, behind, crossed>>
  BY DEF Quiet
<1>3. History'
  BY <1>2 DEF EditInv, History, LastMade, KeptIsMade, MadeIsKept, Edit!There
<1>4. Edit!EditsBuildOnTheLast'
  BY <1>2 DEF EditInv, Edit!EditsBuildOnTheLast, Edit!BuildsOn, Edit!Calm
<1>5. Alone'
  <2>1. PICK x \in Edit!Asks \cup {None} : Moves(a, x)
    BY DEF Quiet
  <2>2. \A b \in Admins : request'[b] # None => request[b] # None
    BY <2>1, MoveSeen DEF EditInv
  <2> QED BY <1>2, <2>2 DEF EditInv, Alone
<1> QED BY <1>1, <1>3, <1>4, <1>5 DEF EditInv

-----------------------------------------------------------------------------
(* Requests that begin *)

LEMMA BeginTyped ==
  ASSUME Edit!Given, EditTyped, NEW a \in Admins, NEW q \in Edit!Asks, Begins(a, q)
  PROVE  EditTyped'
<1>1. request' = [request EXCEPT ![a] = q] /\ Sound(q)
  BY DEF Begins
<1>2. /\ request' \in [Admins -> Edit!Asks \cup {None}]
      /\ \A b \in Admins : request'[b] # None => Sound(request'[b])
  BY <1>1, SoundStays
<1>3. \A b \in Admins : request'[b] # None => Sound(request[b])'
  BY <1>2 DEF Sound
<1>4. page' \in [Admins -> Edit!Pages \cup {None}]
  BY DEF EditTyped, Begins
<1>5. requests' \in 0..MaxRequests /\ UNCHANGED <<row, kept, permissions, cuts, sketch, behind, made>>
  BY DEF Begins
<1>6. crossed' \in BOOLEAN
  <2>1. crossed' = (crossed \/ \E b \in Admins \ {a} : request[b] # None)
    BY DEF Begins
  <2> QED BY <2>1, Zenon
<1> QED BY <1>2, <1>3, <1>4, <1>5, <1>6 DEF EditTyped

LEMMA BeginKeeps ==
  ASSUME Edit!Given, EditInv, NEW a \in Admins, NEW q \in Edit!Asks, Begins(a, q)
  PROVE  EditInv'
<1>1. EditTyped /\ EditTyped'
  BY BeginTyped DEF EditInv
<1>2. UNCHANGED <<row, kept, made, cuts, sketch, behind>> /\ (crossed => crossed') /\ request[a] = None /\ q # None
  BY DEF Begins, Edit!Given
<1>3. request'[a] = q /\ \A b \in Admins \ {a} : request'[b] = request[b]
  BY <1>1 DEF Begins, EditTyped
<1>4. Edit!Calm' => Edit!Calm
  BY <1>2, CalmWas
<1>5. History'
  BY <1>2 DEF EditInv, History, LastMade, KeptIsMade, MadeIsKept, Edit!There
<1>6. Edit!EditsBuildOnTheLast'
  BY <1>2, <1>4 DEF EditInv, Edit!EditsBuildOnTheLast, Edit!BuildsOn
<1>7. Alone'
  <2>1. crossed' = (crossed \/ \E b \in Admins \ {a} : request[b] # None)
    BY DEF Begins
  <2>2. CASE crossed \/ \E b \in Admins \ {a} : request[b] # None
    BY <2>1, <2>2 DEF Alone
  <2>3. CASE ~(crossed \/ \E b \in Admins \ {a} : request[b] # None)
    BY <1>3, <2>3 DEF Alone
  <2> QED BY <2>2, <2>3
<1>8. Going'
  <2> SUFFICES ASSUME NEW b \in Admins, request'[b] # None
               PROVE  Goes(request[b])'
    BY DEF Going
  <2>1. CASE b # a
    BY <1>2, <1>3, <2>1 DEF EditInv, Going, Goes
  <2>2. CASE b = a
    <3> SUFFICES ASSUME q.kind = "delete"
                 PROVE  /\ q.base \in 1..Len(made[q.flow]) /\ q.text = made[q.flow][q.base].text
                        /\ q.stage = "keep" /\ q.base = Len(made[q.flow])
      BY <1>2, <1>3, <2>2 DEF Goes
    <3>1. q.stage = "keep" /\ Edit!There(q.flow) /\ q.text = row[q.flow].text /\ q.base = row[q.flow].version
      BY DEF Begins
    <3>2. q.flow \in Editable
      BY <3>1 DEF Begins, Sound
    <3>3. made[q.flow] # <<>> /\ q.base = Len(made[q.flow]) /\ q.text = made[q.flow][Len(made[q.flow])].text
      BY <3>1, <3>2 DEF EditInv, History, LastMade
    <3>4. made[q.flow] \in Seq(Edit!Made)
      BY <1>1, <3>2 DEF EditTyped
    <3>5. Len(made[q.flow]) \in Nat /\ Len(made[q.flow]) >= 1
      BY <3>3, <3>4
    <3> QED BY <3>1, <3>3, <3>5
  <2> QED BY <2>1, <2>2
<1>9. Starting'
  <2>1. ASSUME NEW b \in Admins, page'[b] # None
        PROVE  Opened(page[b])'
    <3>1. page'[b] = page[b]
      BY <1>1, <2>1 DEF Begins, EditTyped
    <3> QED BY <1>2, <1>4, <2>1, <3>1 DEF EditInv, Starting, Opened
  <2>2. ASSUME NEW b \in Admins, request'[b] # None
        PROVE  Starts(request[b])'
    <3>1. CASE b # a
      BY <1>2, <1>3, <1>4, <2>2, <3>1 DEF EditInv, Starting, Starts, Edit!There
    <3>2. CASE b = a
      <4>1. q.kind = "save" => q.from = q.base \/ (q.plain = TRUE /\ (~Edit!Calm \/ q.flow \in behind))
        BY <1>2 DEF Begins, EditInv, Starting, Opened
      <4>2. q.kind = "create" => q.stage = "create" /\ q.from = 1
        BY DEF Begins
      <4> QED BY <1>2, <1>3, <1>4, <3>2, <4>1, <4>2 DEF Starts
    <3> QED BY <3>1, <3>2
  <2> QED BY <2>1, <2>2 DEF Starting
<1>10. InWords'
  <2> SUFFICES ASSUME Edit!Calm', NEW f \in Editable, Edit!There(f)'
               PROVE  SaysIt(f)'
    BY DEF InWords
  <2>1. SaysIt(f)
    BY <1>2, <1>4 DEF EditInv, InWords, Edit!There
  <2>2. \A b \in Admins : request[b] # None /\ Drops(request[b], f) => request'[b] # None /\ Drops(request[b], f)'
    BY <1>2, <1>3 DEF Drops
  <2> QED BY <1>2, <2>1, <2>2 DEF SaysIt, WordsFit
<1> QED BY <1>1, <1>5, <1>6, <1>7, <1>8, <1>9, <1>10 DEF EditInv

-----------------------------------------------------------------------------
(* What changes of a flow is not its steps *)

\* Requests go on as they are, or are over.
Stays == /\ request' \in [Admins -> Edit!Asks \cup {None}]
         /\ \A b \in Admins : request'[b] # None => request'[b] = request[b]

\* The flows have the versions and the steps they had.
Relabels ==
  /\ row' \in [Editable -> Edit!Rows \cup {None}]
  /\ \A f \in Editable : row'[f] # None <=> row[f] # None
  /\ \A f \in Editable : row[f] # None => row'[f].version = row[f].version /\ row'[f].text = row[f].text
  /\ UNCHANGED <<kept, permissions, page, requests, cuts, behind, made, crossed>>
  /\ sketch' \in [Editable -> Nat]

LEMMA OverStays ==
  ASSUME EditTyped, NEW a \in Admins, request' = [request EXCEPT ![a] = None]
  PROVE  Stays /\ request'[a] = None /\ \A b \in Admins \ {a} : request'[b] = request[b]
BY DEF EditTyped, Stays

LEMMA StaysTyped ==
  ASSUME EditTyped, Stays, row' \in [Editable -> Edit!Rows \cup {None}], made' \in [Editable -> Seq(Edit!Made)],
         kept' \in [Editable -> Snapshots],
         requests' = requests, cuts' \in 0..MaxCuts, UNCHANGED <<permissions, page, crossed, behind>>,
         sketch' \in [Editable -> Nat]
  PROVE  EditTyped'
<1>1. \A b \in Admins : request'[b] # None => Sound(request'[b])
  BY DEF EditTyped, Stays
<1>2. \A b \in Admins : request'[b] # None => Sound(request[b])'
  BY <1>1 DEF Sound
<1> QED BY <1>2 DEF EditTyped, Stays

LEMMA RelabelKeeps ==
  ASSUME Edit!Given, EditInv, Relabels, Stays
  PROVE  EditTyped' /\ History' /\ Going' /\ Alone' /\ Starting' /\ Edit!EditsBuildOnTheLast'
<1>1. EditTyped'
  BY StaysTyped DEF EditInv, Relabels, EditTyped
<1>2. History'
  <2>1. LastMade'
    BY DEF EditInv, Relabels, History, LastMade, Edit!There
  <2>2. KeptIsMade'
    BY DEF EditInv, Relabels, History, KeptIsMade
  <2>3. MadeIsKept'
    BY DEF EditInv, Relabels, History, MadeIsKept, Edit!There
  <2> QED BY <2>1, <2>2, <2>3 DEF History
<1>3. Going'
  BY DEF EditInv, Relabels, Stays, Going, Goes
<1>4. Alone'
  BY DEF EditInv, Relabels, Stays, Alone
<1>5. Starting'
  <2>1. Edit!Calm' = Edit!Calm /\ behind' = behind
    BY DEF Relabels, Edit!Calm
  <2>2. ASSUME NEW b \in Admins, request'[b] # None
        PROVE  Starts(request[b])'
    <3>1. request'[b] = request[b] /\ Starts(request[b]) /\ Sound(request[b])
      BY <2>2 DEF EditInv, Stays, Starting, EditTyped
    <3>2. request[b].stage \in {"base", "save"} => request[b].flow \in Editable
      BY <3>1 DEF Sound
    <3>3. request[b].kind = "save" =>
            \/ request[b].from = request[b].base
            \/ request[b].plain = TRUE /\ (~Edit!Calm \/ request[b].flow \in behind)
      BY <3>1 DEF Starts
    <3>4. request[b].kind = "create" =>
            request[b].from = 1 /\ (request[b].stage = "save" => request[b].base = 1 \/ ~Edit!Calm)
      BY <3>1 DEF Starts
    <3>5. request[b].kind = "create" /\ request[b].stage \in {"base", "save"} /\ row'[request[b].flow] # None =>
            row'[request[b].flow].version = 1 \/ ~Edit!Calm
      BY <3>1, <3>2 DEF Starts, Edit!There, Relabels
    <3> QED BY <2>1, <3>1, <3>3, <3>4, <3>5 DEF Starts, Edit!There
  <2>3. \A b \in Admins : page'[b] # None => Opened(page[b])'
    BY <2>1 DEF EditInv, Relabels, Starting, Opened
  <2> QED BY <2>2, <2>3 DEF Starting
<1>6. Edit!EditsBuildOnTheLast'
  BY DEF EditInv, Relabels, Edit!EditsBuildOnTheLast, Edit!BuildsOn, Edit!Calm
<1> QED BY <1>1, <1>2, <1>3, <1>4, <1>5, <1>6

\* One field of a row is written.
LEMMA PlainIsWritten ==
  ASSUME Edit!Given, EditTyped, NEW f \in Editable, Edit!There(f), NEW n \in Nat, row' = [row EXCEPT ![f].plain = n]
  PROVE  /\ row' \in [Editable -> Edit!Rows \cup {None}]
         /\ row'[f] # None /\ row'[f].version = row[f].version /\ row'[f].text = row[f].text /\ row'[f].plain = n
         /\ row'[f].on = row[f].on
         /\ \A g \in Editable \ {f} : row'[g] = row[g]
<1>1. row[f] \in Edit!Rows
  BY RowIsOne
<1> DEFINE new == [row[f] EXCEPT !.plain = n]
<1>2. new \in Edit!Rows /\ new.version = row[f].version /\ new.text = row[f].text /\ new.plain = n
      /\ new.on = row[f].on
  BY <1>1 DEF Edit!Rows
<1>3. row' = [row EXCEPT ![f] = new]
  OBVIOUS
<1> HIDE DEF new
<1>4. new # None
  BY <1>2 DEF Edit!Given
<1>5. row \in [Editable -> Edit!Rows \cup {None}]
  BY DEF EditTyped
<1>6. row'[f] = new /\ \A g \in Editable \ {f} : row'[g] = row[g]
  BY <1>3, <1>5
<1>7. row' \in [Editable -> Edit!Rows \cup {None}]
  BY <1>2, <1>3, <1>5
<1> QED BY <1>2, <1>4, <1>6, <1>7

LEMMA OnIsWritten ==
  ASSUME Edit!Given, EditTyped, NEW f \in Editable, Edit!There(f), NEW b \in BOOLEAN, row' = [row EXCEPT ![f].on = b]
  PROVE  /\ row' \in [Editable -> Edit!Rows \cup {None}]
         /\ row'[f] # None /\ row'[f].version = row[f].version /\ row'[f].text = row[f].text
         /\ row'[f].plain = row[f].plain /\ row'[f].on = b
         /\ \A g \in Editable \ {f} : row'[g] = row[g]
<1>1. row[f] \in Edit!Rows
  BY RowIsOne
<1> DEFINE new == [row[f] EXCEPT !.on = b]
<1>2. new \in Edit!Rows /\ new.version = row[f].version /\ new.text = row[f].text /\ new.plain = row[f].plain
      /\ new.on = b
  BY <1>1 DEF Edit!Rows
<1>3. row' = [row EXCEPT ![f] = new]
  OBVIOUS
<1> HIDE DEF new
<1>4. new # None
  BY <1>2 DEF Edit!Given
<1>5. row \in [Editable -> Edit!Rows \cup {None}]
  BY DEF EditTyped
<1>6. row'[f] = new /\ \A g \in Editable \ {f} : row'[g] = row[g]
  BY <1>3, <1>5
<1>7. row' \in [Editable -> Edit!Rows \cup {None}]
  BY <1>2, <1>3, <1>5
<1> QED BY <1>2, <1>4, <1>6, <1>7

\* Who dropped the plain words of another flow still will, and a row that was not written says what it said.
LEMMA SaysItStill ==
  ASSUME NEW f \in Editable, SaysIt(f), NEW a \in Admins,
         row'[f].plain = row[f].plain /\ row'[f].version = row[f].version,
         sketch'[f] = sketch[f] /\ behind' = behind,
         request[a] # None => ~Drops(request[a], f),
         \A b \in Admins \ {a} : request'[b] = request[b]
  PROVE  SaysIt(f)'
<1>1. CASE WordsFit(f)
  BY <1>1 DEF SaysIt, WordsFit
<1>2. CASE \E b \in Admins : request[b] # None /\ Drops(request[b], f)
  <2>1. PICK b \in Admins : request[b] # None /\ Drops(request[b], f)
    BY <1>2
  <2>2. request'[b] = request[b]
    BY <2>1
  <2>3. Drops(request[b], f)'
    BY <2>1, <2>2 DEF Drops
  <2> QED BY <2>1, <2>2, <2>3 DEF SaysIt
<1> QED BY <1>1, <1>2 DEF SaysIt

LEMMA ConvertKeeps ==
  ASSUME Edit!Given, EditInv, NEW f \in Editable, Edit!Convert(f)
  PROVE  EditInv'
<1>1. /\ Edit!There(f) /\ row' = [row EXCEPT ![f].plain = row[f].version]
      /\ UNCHANGED <<kept, permissions, page, request, requests, cuts, sketch, behind, made, crossed>>
  BY DEF Edit!Convert, Edit!history, Edit!drafts
<1>2. EditTyped /\ row[f].version \in Nat
  BY <1>1, RowIsOne DEF EditInv
<1>3. /\ row' \in [Editable -> Edit!Rows \cup {None}]
      /\ row'[f] # None /\ row'[f].version = row[f].version /\ row'[f].text = row[f].text
      /\ row'[f].plain = row[f].version
      /\ \A g \in Editable \ {f} : row'[g] = row[g]
  BY <1>1, <1>2, PlainIsWritten
<1>4. Relabels /\ Stays
  BY <1>1, <1>2, <1>3 DEF Relabels, Stays, EditTyped, Edit!There
<1>5. InWords'
  <2> SUFFICES ASSUME Edit!Calm', NEW g \in Editable, Edit!There(g)'
               PROVE  SaysIt(g)'
    BY DEF InWords
  <2>1. CASE g = f
    <3>1. SaysIt(f)
      BY <1>1, <2>1 DEF EditInv, InWords, Edit!Calm, Edit!There
    <3> QED BY <1>1, <1>3, <2>1, <3>1 DEF SaysIt, WordsFit, Drops
  <2>2. CASE g # f
    <3>1. row'[g] = row[g] /\ SaysIt(g)
      BY <1>1, <1>3, <2>2 DEF EditInv, InWords, Edit!Calm, Edit!There
    <3> QED BY <1>1, <3>1 DEF SaysIt, WordsFit, Drops
  <2> QED BY <2>1, <2>2
<1> QED BY <1>4, <1>5, RelabelKeeps DEF EditInv

LEMMA ForgetPlainKeeps ==
  ASSUME Edit!Given, EditInv, NEW a \in Admins, Edit!ForgetPlain(a)
  PROVE  EditInv'
<1> DEFINE f == request[a].flow
<1>1. /\ request[a] # None /\ request[a].stage = "forget" /\ request' = [request EXCEPT ![a] = None]
      /\ row' = IF Edit!There(f) THEN [row EXCEPT ![f].plain = 0] ELSE row
      /\ sketch' = [sketch EXCEPT ![f] = 0]
      /\ UNCHANGED <<kept, permissions, page, requests, cuts, behind, made, crossed>>
  BY DEF Edit!ForgetPlain, Edit!At, Edit!Over, Edit!history, Edit!drafts
<1>2. EditTyped /\ Sound(request[a])
  BY <1>1, UnderWay DEF EditInv
<1>3. f \in Editable
  BY <1>1, <1>2 DEF Sound
<1>4. Stays /\ \A b \in Admins \ {a} : request'[b] = request[b]
  BY <1>1, <1>2, OverStays
<1>5. /\ row' \in [Editable -> Edit!Rows \cup {None}]
      /\ row'[f] # None <=> row[f] # None
      /\ row[f] # None => row'[f].version = row[f].version /\ row'[f].text = row[f].text /\ row'[f].plain = 0
      /\ \A g \in Editable \ {f} : row'[g] = row[g]
  <2>1. CASE Edit!There(f)
    <3>1. row' = [row EXCEPT ![f].plain = 0]
      BY <1>1, <2>1
    <3> HIDE DEF f
    <3>2. /\ row' \in [Editable -> Edit!Rows \cup {None}]
          /\ row'[f] # None /\ row'[f].version = row[f].version /\ row'[f].text = row[f].text /\ row'[f].plain = 0
          /\ \A g \in Editable \ {f} : row'[g] = row[g]
      BY <1>2, <1>3, <2>1, <3>1, PlainIsWritten
    <3> QED BY <2>1, <3>2 DEF Edit!There
  <2>2. CASE ~Edit!There(f)
    BY <1>1, <1>2, <2>2 DEF Edit!There, EditTyped
  <2> QED BY <2>1, <2>2
<1> HIDE DEF f
<1>8. sketch' \in [Editable -> Nat] /\ sketch'[f] = 0 /\ \A g \in Editable \ {f} : sketch'[g] = sketch[g]
  BY <1>1, <1>2, <1>3 DEF EditTyped
<1>6. Relabels
  BY <1>1, <1>5, <1>8 DEF Relabels
<1>7. InWords'
  <2> SUFFICES ASSUME Edit!Calm', NEW g \in Editable, Edit!There(g)'
               PROVE  SaysIt(g)'
    BY DEF InWords
  <2>1. CASE g = f
    BY <1>5, <1>8, <2>1 DEF SaysIt, WordsFit, Edit!There
  <2>2. CASE g # f
    <3>1. row'[g] = row[g] /\ SaysIt(g)
      BY <1>1, <1>5, <2>2 DEF EditInv, InWords, Edit!Calm, Edit!There
    <3>2. ~Drops(request[a], g)
      BY <2>2 DEF Drops, f
    <3> QED BY <1>1, <1>4, <1>8, <2>2, <3>1, <3>2, SaysItStill
  <2> QED BY <2>1, <2>2
<1> QED BY <1>4, <1>6, <1>7, RelabelKeeps DEF EditInv

LEMMA FlipKeeps ==
  ASSUME Edit!Given, EditInv, NEW a \in Admins, Edit!Flip(a)
  PROVE  EditInv'
<1> DEFINE q == request[a]
           f == q.flow
<1>1. /\ request[a] # None /\ request[a].stage = "flip" /\ request' = [request EXCEPT ![a] = None]
      /\ row' = IF Edit!There(f) THEN [row EXCEPT ![f].on = q.on] ELSE row
      /\ UNCHANGED <<kept, permissions, page, requests, cuts, sketch, behind, made, crossed>>
  BY DEF Edit!Flip, Edit!At, Edit!Over, Edit!history, Edit!drafts
<1>2. EditTyped /\ Sound(q)
  BY <1>1, UnderWay DEF EditInv
<1>3. f \in Editable /\ q.on \in BOOLEAN /\ q.kind = "switch"
  BY <1>1, <1>2 DEF Sound, Edit!Asks, Syncing, Forgetting
<1>4. Stays /\ \A b \in Admins \ {a} : request'[b] = request[b]
  BY <1>1, <1>2, OverStays
<1>5. /\ row' \in [Editable -> Edit!Rows \cup {None}]
      /\ row'[f] # None <=> row[f] # None
      /\ row[f] # None => /\ row'[f].version = row[f].version /\ row'[f].text = row[f].text
                         /\ row'[f].plain = row[f].plain
      /\ \A g \in Editable \ {f} : row'[g] = row[g]
  <2>1. CASE Edit!There(f)
    <3>1. row' = [row EXCEPT ![f].on = q.on]
      BY <1>1, <2>1
    <3> HIDE DEF f, q
    <3>2. /\ row' \in [Editable -> Edit!Rows \cup {None}]
          /\ row'[f] # None /\ row'[f].version = row[f].version /\ row'[f].text = row[f].text
          /\ row'[f].plain = row[f].plain
          /\ \A g \in Editable \ {f} : row'[g] = row[g]
      BY <1>2, <1>3, <2>1, <3>1, OnIsWritten
    <3> QED BY <2>1, <3>2 DEF Edit!There
  <2>2. CASE ~Edit!There(f)
    BY <1>1, <1>2, <2>2 DEF Edit!There, EditTyped
  <2> QED BY <2>1, <2>2
<1> HIDE DEF f
<1>6. Relabels
  BY <1>1, <1>2, <1>5 DEF Relabels, EditTyped
<1>7. InWords'
  <2> SUFFICES ASSUME Edit!Calm', NEW g \in Editable, Edit!There(g)'
               PROVE  SaysIt(g)'
    BY DEF InWords
  <2>1. row[g] # None
    BY <1>6 DEF Relabels, Edit!There
  <2>2. row'[g].plain = row[g].plain /\ row'[g].version = row[g].version
    BY <1>5, <2>1
  <2>3. SaysIt(g)
    BY <1>1, <2>1 DEF EditInv, InWords, Edit!Calm, Edit!There
  <2>4. ~Drops(request[a], g)
    BY <1>3 DEF Drops
  <2> QED BY <1>1, <1>4, <2>2, <2>3, <2>4, SaysItStill
<1> QED BY <1>4, <1>6, <1>7, RelabelKeeps DEF EditInv

-----------------------------------------------------------------------------
(* Pages that are opened, requests that die, a flow that goes *)

LEMMA CutKeeps ==
  ASSUME Edit!Given, EditInv, NEW a \in Admins, Edit!Cut(a)
  PROVE  EditInv'
<1>1. /\ request' = [request EXCEPT ![a] = None] /\ cuts' = cuts + 1 /\ cuts < MaxCuts
      /\ UNCHANGED <<row, kept, permissions, page, requests, sketch, behind, made, crossed>>
  BY DEF Edit!Cut, Edit!Over, Edit!history, Edit!drafts
<1>2. cuts \in Nat /\ MaxCuts \in Nat
  BY DEF EditInv, EditTyped, Edit!Given
<1>3. cuts' \in 0..MaxCuts /\ ~Edit!Calm'
  BY <1>1, <1>2 DEF Edit!Calm
<1>4. Stays
  BY <1>1, OverStays DEF EditInv
<1>5. EditTyped'
  BY <1>1, <1>3, <1>4, StaysTyped DEF EditInv, EditTyped
<1>6. History'
  BY <1>1 DEF EditInv, History, LastMade, KeptIsMade, MadeIsKept, Edit!There
<1>7. Going'
  BY <1>1, <1>4 DEF EditInv, Going, Goes, Stays
<1>8. Alone'
  BY <1>1, <1>4 DEF EditInv, Alone, Stays
<1>9. Starting'
  BY <1>1, <1>3, <1>4 DEF EditInv, Starting, Starts, Opened, Stays, Edit!There
<1>10. InWords'
  BY <1>3 DEF InWords
<1>11. Edit!EditsBuildOnTheLast'
  BY <1>1, <1>3 DEF EditInv, Edit!EditsBuildOnTheLast, Edit!BuildsOn
<1> QED BY <1>5, <1>6, <1>7, <1>8, <1>9, <1>10, <1>11 DEF EditInv

\* An admin's editor shows p, and nothing else changes but the drafts, and that requests may have met.
LEMMA OpenedKeeps ==
  ASSUME Edit!Given, EditInv, NEW a \in Admins, NEW p \in Edit!Pages \cup {None}, page' = [page EXCEPT ![a] = p],
         p # None => Opened(p)', crossed' \in BOOLEAN, crossed => crossed',
         sketch' \in [Editable -> Nat], behind' \in SUBSET Editable, behind \subseteq behind',
         UNCHANGED <<row, kept, permissions, request, requests, cuts, made>>,
         Edit!Calm' => \A f \in Editable : Edit!There(f) /\ WordsFit(f) => WordsFit(f)'
  PROVE  EditInv'
<1>1. Edit!Calm' => Edit!Calm
  BY CalmWas
<1>2. EditTyped'
  <2>1. \A b \in Admins : request'[b] # None => Sound(request[b])'
    BY DEF EditInv, EditTyped, Sound
  <2> QED BY <2>1 DEF EditInv, EditTyped
<1>3. History'
  BY DEF EditInv, History, LastMade, KeptIsMade, MadeIsKept, Edit!There
<1>4. Going' /\ Alone'
  BY DEF EditInv, Going, Goes, Alone
<1>5. Starting'
  <2>1. \A b \in Admins : request'[b] # None => Starts(request[b])'
    BY <1>1 DEF EditInv, Starting, Starts, Edit!There
  <2>2. \A b \in Admins : page'[b] # None => Opened(page[b])'
    <3> SUFFICES ASSUME NEW b \in Admins, page'[b] # None
                 PROVE  Opened(page[b])'
      OBVIOUS
    <3>1. CASE b = a
      <4>1. page'[b] = p
        BY <3>1 DEF EditInv, EditTyped
      <4> QED BY <4>1 DEF Opened
    <3>2. CASE b # a
      <4>1. page'[b] = page[b]
        BY <3>2 DEF EditInv, EditTyped
      <4>2. Opened(page[b])
        BY <4>1 DEF EditInv, Starting
      <4> QED BY <1>1, <4>1, <4>2 DEF Opened
    <3> QED BY <3>1, <3>2
  <2> QED BY <2>1, <2>2 DEF Starting
<1>6. InWords'
  <2> SUFFICES ASSUME Edit!Calm', NEW f \in Editable, Edit!There(f)'
               PROVE  SaysIt(f)'
    BY DEF InWords
  <2>1. Edit!There(f) /\ SaysIt(f)
    BY <1>1 DEF EditInv, InWords, Edit!There
  <2> QED BY <2>1 DEF SaysIt, Drops
<1>7. Edit!EditsBuildOnTheLast'
  BY <1>1 DEF EditInv, Edit!EditsBuildOnTheLast, Edit!BuildsOn
<1> QED BY <1>2, <1>3, <1>4, <1>5, <1>6, <1>7 DEF EditInv

LEMMA OpenEditorKeeps ==
  ASSUME Edit!Given, EditInv, NEW a \in Admins, NEW f \in Editable, Edit!OpenEditor(a, f)
  PROVE  EditInv'
<1> DEFINE p == [flow |-> f, base |-> row[f].version, from |-> row[f].version, live |-> row[f].version,
                 plain |-> FALSE]
<1>1. /\ Edit!There(f) /\ page' = [page EXCEPT ![a] = p]
      /\ UNCHANGED <<row, kept, permissions, request, requests, cuts, sketch, behind, made, crossed>>
  BY DEF Edit!OpenEditor, Edit!Shows, Edit!history, Edit!drafts
<1>2. row[f].version \in Nat
  BY <1>1, RowIsOne DEF EditInv
<1>3. PICK v \in Nat : v = row[f].version
  BY <1>2
<1>4. PICK o \in Edit!Pages : o = p /\ o.from = o.base /\ o.live = o.base
  <2>1. [flow |-> f, base |-> v, from |-> v, live |-> v, plain |-> FALSE] \in Edit!Pages
    BY DEF Edit!Pages
  <2> QED BY <1>3, <2>1
<1>5. Opened(o)'
  BY <1>4 DEF Opened
<1>6. \A g \in Editable : WordsFit(g) => WordsFit(g)'
  BY <1>1 DEF WordsFit
<1> QED BY <1>1, <1>4, <1>5, <1>6, OpenedKeeps DEF EditInv, EditTyped

LEMMA OpenPlainKeeps ==
  ASSUME Edit!Given, EditInv, NEW a \in Admins, NEW f \in Editable, Edit!OpenPlain(a, f)
  PROVE  EditInv'
<1> DEFINE from == IF sketch[f] # 0 THEN sketch[f] ELSE row[f].plain
           p == [flow |-> f, base |-> row[f].version, from |-> from, live |-> row[f].plain, plain |-> TRUE]
<1>1. /\ Edit!There(f) /\ page' = [page EXCEPT ![a] = p] /\ row[f].plain # 0 /\ request[a] = None
      /\ crossed' = (crossed \/ \E b \in Admins \ {a} : request[b] # None)
      /\ UNCHANGED <<row, kept, permissions, request, requests, cuts, sketch, behind, made>>
  BY DEF Edit!OpenPlain, Edit!Shows, Edit!Free, Edit!drafts
<1>2. row[f].version \in Nat /\ row[f].plain \in Nat /\ from \in Nat
  BY <1>1, RowIsOne DEF EditInv, EditTyped
<1>3. PICK v \in Nat, w \in Nat, u \in Nat : v = row[f].version /\ w = row[f].plain /\ u = from
  BY <1>2
<1>4. PICK o \in Edit!Pages :
        o = p /\ o.base = v /\ o.from = u /\ o.live = w /\ o.plain = TRUE /\ o.flow = f
  <2>1. [flow |-> f, base |-> v, from |-> u, live |-> w, plain |-> TRUE] \in Edit!Pages
    BY DEF Edit!Pages
  <2> QED BY <1>3, <2>1
<1>5. crossed' \in BOOLEAN /\ (crossed => crossed')
  BY <1>1, Zenon
<1>6. Opened(o)'
  <2>1. CASE ~Edit!Calm'
    BY <1>4, <2>1 DEF Opened
  <2>2. CASE Edit!Calm'
    <3>1. ~crossed' /\ Edit!Calm
      BY <1>1, <1>5, <2>2 DEF Edit!Calm
    <3>2. \A b \in Admins : request[b] = None
      BY <1>1, <3>1
    <3>3. SaysIt(f)
      BY <1>1, <3>1 DEF EditInv, InWords
    <3>4. WordsFit(f)
      BY <3>2, <3>3 DEF SaysIt
    <3> QED BY <1>1, <1>3, <1>4, <3>4 DEF Opened, WordsFit
  <2> QED BY <2>1, <2>2
<1>7. \A g \in Editable : WordsFit(g) => WordsFit(g)'
  BY <1>1 DEF WordsFit
<1> HIDE DEF p
<1> QED BY <1>1, <1>4, <1>5, <1>6, <1>7, OpenedKeeps DEF EditInv, EditTyped

\* Whoever has it in the plain editor shows it as Opened says.
LEMMA ShownIsOne ==
  ASSUME EditInv, NEW a \in Admins, page[a] # None
  PROVE  /\ page[a] \in Edit!Pages /\ page[a].flow \in Editable /\ Opened(page[a])
         /\ page[a].base \in Nat /\ page[a].from \in Nat /\ page[a].live \in Nat
<1>1. page[a] \in Edit!Pages
  BY DEF EditInv, EditTyped
<1> QED BY <1>1 DEF EditInv, Starting, Edit!Pages

\* It shows the words of another version from now on.
LEMMA ShowsOther ==
  ASSUME EditInv, NEW a \in Admins, page[a] # None, NEW n \in Nat
  PROVE  LET o == [page[a] EXCEPT !.from = n]
         IN  /\ o \in Edit!Pages /\ o.from = n /\ o.base = page[a].base /\ o.live = page[a].live
             /\ o.plain = page[a].plain /\ o.flow = page[a].flow
<1>1. PICK p \in Edit!Pages : p = page[a]
  BY ShownIsOne
<1>2. [p EXCEPT !.from = n] \in Edit!Pages
  BY DEF Edit!Pages
<1>3. LET o == [p EXCEPT !.from = n]
      IN  o.from = n /\ o.base = p.base /\ o.live = p.live /\ o.plain = p.plain /\ o.flow = p.flow
  BY DEF Edit!Pages
<1> QED BY <1>1, <1>2, <1>3

LEMMA KeepDraftKeeps ==
  ASSUME Edit!Given, EditInv, NEW a \in Admins, Edit!KeepDraft(a)
  PROVE  EditInv'
<1> DEFINE p == page[a]
           f == p.flow
<1>1. /\ p # None /\ p.plain /\ Edit!There(f)
      /\ UNCHANGED <<row, kept, permissions, request, requests, cuts, made, crossed>>
  BY DEF Edit!KeepDraft, Edit!InPlain, Edit!history
<1>2. PICK from \in {p.from, p.live} :
        /\ sketch' = [sketch EXCEPT ![f] = from]
        /\ behind' = IF p.base = row[f].version THEN behind ELSE behind \cup {f}
        /\ page' = [page EXCEPT ![a] = [p EXCEPT !.from = from]]
  BY DEF Edit!KeepDraft, Edit!Shows
<1>3. p \in Edit!Pages /\ f \in Editable /\ Opened(p) /\ from \in Nat
  BY <1>1, <1>2, ShownIsOne
<1>4. PICK o \in Edit!Pages : /\ o = [p EXCEPT !.from = from] /\ o.from = from /\ o.base = p.base /\ o.live = p.live
                              /\ o.plain = p.plain /\ o.flow = f
  BY <1>1, <1>3, ShowsOther
<1> HIDE DEF f, p
<1>5. sketch' \in [Editable -> Nat] /\ sketch'[f] = from /\ \A g \in Editable \ {f} : sketch'[g] = sketch[g]
  BY <1>2, <1>3 DEF EditInv, EditTyped
<1>6. behind' \in SUBSET Editable /\ behind \subseteq behind'
  BY <1>2, <1>3 DEF EditInv, EditTyped
<1>7. Edit!Calm' = Edit!Calm
  BY <1>1 DEF Edit!Calm
<1>8. Opened(o)'
  BY <1>2, <1>3, <1>4, <1>6, <1>7 DEF Opened, f
<1>9. Edit!Calm => sketch'[f] \in {0, row[f].version} \/ f \in behind'
  <2>1. CASE p.base # row[f].version
    BY <1>2, <2>1
  <2>2. CASE p.base = row[f].version
    BY <1>2, <1>3, <1>5, <1>6, <2>2 DEF Opened, f
  <2> QED BY <2>1, <2>2
<1>10. ASSUME Edit!Calm', NEW g \in Editable, WordsFit(g)
       PROVE  WordsFit(g)'
  <2>1. CASE g = f
    BY <1>1, <1>7, <1>9, <1>10, <2>1 DEF WordsFit
  <2>2. CASE g # f
    BY <1>1, <1>5, <1>6, <1>10, <2>2 DEF WordsFit
  <2> QED BY <2>1, <2>2
<1>11. page' = [page EXCEPT ![a] = o] /\ crossed' \in BOOLEAN /\ (crossed => crossed')
  BY <1>1, <1>2, <1>4 DEF EditInv, EditTyped, p
<1> QED BY <1>1, <1>5, <1>6, <1>8, <1>10, <1>11, OpenedKeeps

LEMMA DropDraftKeeps ==
  ASSUME Edit!Given, EditInv, NEW a \in Admins, Edit!DropDraft(a)
  PROVE  EditInv'
<1> DEFINE p == page[a]
           f == p.flow
<1>1. /\ p # None /\ page' = [page EXCEPT ![a] = [p EXCEPT !.from = p.live]]
      /\ sketch' = [sketch EXCEPT ![f] = 0]
      /\ UNCHANGED <<row, kept, permissions, request, requests, cuts, behind, made, crossed>>
  BY DEF Edit!DropDraft, Edit!InPlain, Edit!Shows, Edit!history
<1>2. p \in Edit!Pages /\ f \in Editable /\ Opened(p) /\ p.live \in Nat
  BY <1>1, ShownIsOne
<1>3. PICK o \in Edit!Pages : /\ o = [p EXCEPT !.from = p.live] /\ o.from = p.live /\ o.base = p.base
                              /\ o.live = p.live /\ o.plain = p.plain /\ o.flow = f
  BY <1>1, <1>2, ShowsOther
<1> HIDE DEF f, p
<1>4. sketch' \in [Editable -> Nat] /\ sketch'[f] = 0 /\ \A g \in Editable \ {f} : sketch'[g] = sketch[g]
  BY <1>1, <1>2 DEF EditInv, EditTyped
<1>5. Opened(o)'
  BY <1>1, <1>2, <1>3 DEF Opened, Edit!Calm, f
<1>6. \A g \in Editable : WordsFit(g) => WordsFit(g)'
  BY <1>1, <1>4 DEF WordsFit
<1>7. page' = [page EXCEPT ![a] = o] /\ crossed' \in BOOLEAN /\ behind' \in SUBSET Editable
  BY <1>1, <1>3 DEF EditInv, EditTyped, p
<1> QED BY <1>1, <1>4, <1>5, <1>6, <1>7, OpenedKeeps

LEMMA CloseKeeps ==
  ASSUME Edit!Given, EditInv, NEW a \in Admins, Edit!Close(a)
  PROVE  EditInv'
<1>1. /\ page' = [page EXCEPT ![a] = None]
      /\ UNCHANGED <<row, kept, permissions, request, requests, cuts, sketch, behind, made, crossed>>
  BY DEF Edit!Close, Edit!Leave, Edit!Shows, Edit!history, Edit!drafts
<1>2. \A g \in Editable : WordsFit(g) => WordsFit(g)'
  BY <1>1 DEF WordsFit
<1> QED BY <1>1, <1>2, OpenedKeeps DEF EditInv, EditTyped

\* What was made of a flow, and what is made of it, as numbers.
LEMMA MadeSoFar ==
  ASSUME EditTyped, NEW f \in Editable
  PROVE  made[f] \in Seq(Edit!Made) /\ Len(made[f]) \in Nat /\ kept[f] \in Snapshots
BY DEF EditTyped

LEMMA RemoveKeeps ==
  ASSUME Edit!Given, EditInv, NEW a \in Admins, Edit!Remove(a)
  PROVE  EditInv'
<1> DEFINE q == request[a]
           f == q.flow
<1>1. /\ q # None /\ q.stage = "remove" /\ request' = [request EXCEPT ![a] = None]
      /\ row' = [row EXCEPT ![f] = None] /\ sketch' = [sketch EXCEPT ![f] = 0]
      /\ UNCHANGED <<kept, permissions, page, requests, cuts, behind, made, crossed>>
  BY DEF Edit!Remove, Edit!At, Edit!Over, Edit!history, Edit!drafts
<1>2. EditTyped /\ Sound(q) /\ Goes(q)
  BY <1>1, UnderWay DEF EditInv, Going
<1>3. f \in Editable /\ q.kind = "delete"
  BY <1>1, <1>2 DEF Sound, Syncing, Forgetting
<1>4. Stays /\ \A b \in Admins \ {a} : request'[b] = request[b]
  BY <1>1, <1>2, OverStays
<1>5. Len(made[f]) \in DOMAIN kept[f]
  BY <1>1, <1>2, <1>3 DEF Goes
<1>7. \A g \in Editable : ~Drops(q, g)
  BY <1>3 DEF Drops
<1> HIDE DEF f
<1>8. /\ row' \in [Editable -> Edit!Rows \cup {None}]
      /\ row'[f] = None /\ \A g \in Editable \ {f} : row'[g] = row[g]
  BY <1>1, <1>2, <1>3 DEF EditTyped
<1>16. sketch' \in [Editable -> Nat] /\ \A g \in Editable \ {f} : sketch'[g] = sketch[g]
  BY <1>1, <1>2, <1>3 DEF EditTyped
<1>9. EditTyped'
  BY <1>1, <1>4, <1>8, <1>16, StaysTyped DEF EditInv, EditTyped
<1>10. History'
  <2>1. LastMade'
    BY <1>1, <1>8 DEF EditInv, History, LastMade, Edit!There
  <2>2. KeptIsMade'
    BY <1>1 DEF EditInv, History, KeptIsMade
  <2>3. MadeIsKept'
    <3> SUFFICES ASSUME NEW g \in Editable, NEW v \in 1..Len(made[g]), v < Len(made[g]) \/ row'[g] = None
                 PROVE  v \in DOMAIN kept[g]
      BY <1>1 DEF MadeIsKept, Edit!There
    <3>1. v < Len(made[g]) \/ row[g] = None => v \in DOMAIN kept[g]
      BY DEF EditInv, History, MadeIsKept, Edit!There
    <3>2. Len(made[g]) \in Nat
      BY <1>2, MadeSoFar
    <3>3. v < Len(made[g]) \/ v = Len(made[g])
      BY <3>2
    <3> QED BY <1>5, <1>8, <3>1, <3>3
  <2> QED BY <2>1, <2>2, <2>3 DEF History
<1>11. Going' /\ Alone'
  BY <1>1, <1>4 DEF EditInv, Going, Goes, Alone, Stays
<1>12. Edit!Calm' = Edit!Calm /\ behind' = behind
  BY <1>1 DEF Edit!Calm
<1>13. Starting'
  <2>1. ASSUME NEW b \in Admins, request'[b] # None
        PROVE  Starts(request[b])'
    <3>1. request'[b] = request[b] /\ Starts(request[b]) /\ Sound(request[b])
      BY <1>4, <2>1 DEF EditInv, Stays, Starting, EditTyped
    <3>2. request[b].stage \in {"base", "save"} => request[b].flow \in Editable
      BY <3>1 DEF Sound
    <3>3. request[b].stage \in {"base", "save"} /\ row'[request[b].flow] # None
            => row'[request[b].flow] = row[request[b].flow]
      BY <1>8, <3>2
    <3> QED BY <1>12, <3>1, <3>3 DEF Starts, Edit!There
  <2>2. \A b \in Admins : page'[b] # None => Opened(page[b])'
    BY <1>1, <1>12 DEF EditInv, Starting, Opened
  <2> QED BY <2>1, <2>2 DEF Starting
<1>14. InWords'
  <2> SUFFICES ASSUME Edit!Calm', NEW g \in Editable, Edit!There(g)'
               PROVE  SaysIt(g)'
    BY DEF InWords
  <2>1. row'[g] = row[g] /\ sketch'[g] = sketch[g]
    BY <1>8, <1>16 DEF Edit!There
  <2>2. SaysIt(g)
    BY <1>12, <2>1 DEF EditInv, InWords, Edit!There
  <2> QED BY <1>4, <1>7, <1>12, <2>1, <2>2, SaysItStill DEF q
<1>15. Edit!EditsBuildOnTheLast'
  BY <1>1, <1>12 DEF EditInv, Edit!EditsBuildOnTheLast, Edit!BuildsOn
<1> QED BY <1>9, <1>10, <1>11, <1>13, <1>14, <1>15 DEF EditInv

-----------------------------------------------------------------------------
(* Making, saving and keeping *)

\* A request that is not about to drop any plain words goes on as another, or is over, and the rows stay.
LEMMA WordsStay ==
  ASSUME EditTyped, InWords, NEW a \in Admins, NEW x \in Edit!Asks \cup {None},
         request' = [request EXCEPT ![a] = x],
         MayEnd(request[a]), UNCHANGED <<row, cuts, sketch, behind, crossed>>
  PROVE  InWords'
<1> SUFFICES ASSUME Edit!Calm', NEW g \in Editable, Edit!There(g)'
             PROVE  SaysIt(g)'
  BY DEF InWords
<1>1. SaysIt(g)
  BY DEF InWords, Edit!Calm, Edit!There
<1>2. \A b \in Admins \ {a} : request'[b] = request[b]
  BY DEF EditTyped
<1>3. ~Drops(request[a], g)
  BY DEF MayEnd, Drops
<1> QED BY <1>1, <1>2, <1>3, SaysItStill

LEMMA ReadBaseKeeps ==
  ASSUME Edit!Given, EditInv, NEW a \in Admins, Edit!ReadBase(a)
  PROVE  EditInv'
<1> DEFINE q == request[a]
<1>1. q # None /\ q.stage = "base" /\ UNCHANGED <<row, kept, permissions, page, requests, cuts, sketch, behind,
         made, crossed>>
  BY DEF Edit!ReadBase, Edit!At, Edit!history, Edit!drafts
<1>2. EditTyped /\ q \in Edit!Asks /\ Sound(q) /\ Starts(q)
  BY <1>1, UnderWay DEF EditInv, Starting
<1>3. q.kind = "create" /\ q.plain = TRUE /\ q.flow \in Editable /\ q.text \in Texts
  BY <1>1, <1>2 DEF Sound, Syncing, Forgetting
<1>4. MayEnd(q)
  BY <1>3 DEF MayEnd
<1>5. PICK x \in Edit!Asks \cup {None} : request' = [request EXCEPT ![a] = x] /\ (x # None => Sound(x)
        /\ x.kind = "create"
         /\ x.from = q.from /\ x.stage = "save" /\ x.base = row[q.flow].version /\ x.flow = q.flow
                /\ Edit!There(q.flow))
  <2>1. CASE Edit!There(q.flow)
    <3> DEFINE v == row[q.flow].version
               x == [q EXCEPT !.stage = "save", !.base = v]
    <3>1. request' = [request EXCEPT ![a] = x]
      BY <2>1 DEF Edit!ReadBase, Edit!GoOn
    <3>2. v \in Nat
      BY <1>2, <1>3, <2>1, RowIsOne
    <3> HIDE DEF q, v
    <3>3. x \in Edit!Asks
      BY <1>2, <3>2 DEF Edit!Asks, Edit!Stages
    <3>4. x.stage = "save" /\ x.kind = q.kind /\ x.plain = q.plain /\ x.from = q.from
      BY <1>2 DEF Edit!Asks
    <3>5. x.base = v /\ x.flow = q.flow /\ x.text = q.text
      BY <1>2 DEF Edit!Asks
    <3> HIDE DEF x
    <3>6. Sound(x)
      BY <1>3, <3>3, <3>4, <3>5 DEF Sound, Syncing
    <3> QED BY <1>3, <2>1, <3>1, <3>3, <3>4, <3>5, <3>6 DEF v
  <2>2. CASE ~Edit!There(q.flow)
    BY <2>2 DEF Edit!ReadBase, Edit!Over
  <2> QED BY <2>1, <2>2
<1> HIDE DEF q
<1>6. /\ request' \in [Admins -> Edit!Asks \cup {None}]
      /\ \A b \in Admins : request'[b] # None => Sound(request'[b])
      /\ request'[a] = x /\ \A b \in Admins \ {a} : request'[b] = request[b]
  BY <1>2, <1>5, SoundStays
<1>7. EditTyped'
  <2>1. \A b \in Admins : request'[b] # None => Sound(request[b])'
    BY <1>6 DEF Sound
  <2> QED BY <1>1, <1>6, <2>1 DEF EditInv, EditTyped
<1>8. History'
  BY <1>1 DEF EditInv, History, LastMade, KeptIsMade, MadeIsKept, Edit!There
<1>9. Going'
  BY <1>1, <1>5, <1>6 DEF EditInv, Going, Goes
<1>10. Alone'
  BY <1>1, <1>6 DEF EditInv, Alone, q
<1>11. Edit!Calm' = Edit!Calm /\ behind' = behind
  BY <1>1 DEF Edit!Calm
<1>12. Starting'
  <2>1. \A b \in Admins : page'[b] # None => Opened(page[b])'
    BY <1>1, <1>11 DEF EditInv, Starting, Opened
  <2>2. ASSUME NEW b \in Admins, request'[b] # None
        PROVE  Starts(request[b])'
    <3>1. CASE b # a
      <4>1. request'[b] = request[b] /\ Starts(request[b])
        BY <1>6, <2>2, <3>1 DEF EditInv, Starting
      <4> QED BY <1>1, <1>11, <4>1 DEF Starts, Edit!There
    <3>2. CASE b = a
      <4>1. row[q.flow].version = 1 \/ ~Edit!Calm
        BY <1>1, <1>2, <1>3, <1>5, <1>6, <2>2, <3>2 DEF Starts
      <4>2. q.from = 1
        BY <1>2, <1>3 DEF Starts
      <4> QED BY <1>1, <1>5, <1>6, <1>11, <2>2, <3>2, <4>1, <4>2 DEF Starts, Edit!There
    <3> QED BY <3>1, <3>2
  <2> QED BY <2>1, <2>2 DEF Starting
<1>13. InWords'
  BY <1>1, <1>2, <1>4, <1>5, WordsStay DEF EditInv, q
<1>14. Edit!EditsBuildOnTheLast'
  BY <1>1, <1>11 DEF EditInv, Edit!EditsBuildOnTheLast, Edit!BuildsOn
<1> QED BY <1>7, <1>8, <1>9, <1>10, <1>12, <1>13, <1>14 DEF EditInv

\* A version is added to those that were kept.
LEMMA PutFirst ==
  ASSUME NEW k \in Snapshots, NEW v \in Nat, NEW c \in Edit!Kept
  PROVE  /\ Edit!With(k, v, c) \in Snapshots
         /\ DOMAIN Edit!With(k, v, c) = DOMAIN k \cup {v}
         /\ Edit!With(k, v, c)[v] = c
         /\ \A w \in DOMAIN k \ {v} : Edit!With(k, v, c)[w] = k[w]
<1>1. PICK V \in SUBSET Nat : k \in [V -> Edit!Kept]
  BY DEF Snapshots
<1>2. Edit!With(k, v, c) = [w \in V \cup {v} |-> IF w = v THEN c ELSE k[w]]
  BY <1>1 DEF Edit!With
<1>3. [w \in V \cup {v} |-> IF w = v THEN c ELSE k[w]] \in [V \cup {v} -> Edit!Kept]
  BY <1>1
<1>4. V \cup {v} \in SUBSET Nat
  OBVIOUS
<1>5. Edit!With(k, v, c) \in Snapshots
  BY <1>2, <1>3, <1>4 DEF Snapshots
<1> QED BY <1>1, <1>2, <1>5

\* _snapshot: what was kept stays as it was, and this version is kept.
LEMMA SnapshotKeeps ==
  ASSUME EditTyped, NEW f \in Editable, NEW r, NEW H \in SUBSET PanelRoles, r.version \in Nat, r.text \in Texts
  PROVE  LET s == Edit!Snapshot(f, r, H)
         IN  /\ s \in Snapshots
             /\ DOMAIN s = DOMAIN kept[f] \cup {r.version}
             /\ \A v \in DOMAIN kept[f] : s[v] = kept[f][v]
             /\ r.version \notin DOMAIN kept[f] => s[r.version].text = r.text
<1> DEFINE c == [text |-> r.text, roles |-> H]
<1>1. kept[f] \in Snapshots /\ c \in Edit!Kept /\ c.text = r.text
  BY DEF EditTyped, Edit!Kept
<1>2. CASE r.version \in DOMAIN kept[f]
  BY <1>1, <1>2 DEF Edit!Snapshot
<1>3. CASE r.version \notin DOMAIN kept[f]
  <2>1. Edit!Snapshot(f, r, H) = Edit!With(kept[f], r.version, c)
    BY <1>3 DEF Edit!Snapshot
  <2>2. PICK d \in Edit!Kept, k \in Snapshots, v \in Nat : d = c /\ k = kept[f] /\ v = r.version
    BY <1>1
  <2>3. /\ Edit!With(k, v, d) \in Snapshots
        /\ DOMAIN Edit!With(k, v, d) = DOMAIN k \cup {v}
        /\ Edit!With(k, v, d)[v] = d
        /\ \A w \in DOMAIN k \ {v} : Edit!With(k, v, d)[w] = k[w]
    BY PutFirst
  <2> HIDE DEF c
  <2>4. Edit!Snapshot(f, r, H) = Edit!With(k, v, d)
    BY <2>1, <2>2
  <2> QED BY <1>1, <1>3, <2>2, <2>3, <2>4
<1> QED BY <1>2, <1>3

LEMMA KeepKeeps ==
  ASSUME Edit!Given, EditInv, NEW a \in Admins, Edit!Keep(a)
  PROVE  EditInv'
<1> DEFINE q == request[a]
           f == q.flow
           r == [version |-> q.base, text |-> q.text]
           s == Edit!Snapshot(f, r, Edit!Holders(f))
           x == [q EXCEPT !.stage = "roles", !.roles = {}]
<1>1. /\ q # None /\ q.stage = "keep" /\ request' = [request EXCEPT ![a] = x]
      /\ kept' = [kept EXCEPT ![f] = s]
      /\ UNCHANGED <<row, permissions, page, requests, cuts, sketch, behind, made, crossed>>
  BY DEF Edit!Keep, Edit!At, Edit!GoOn, Edit!history, Edit!drafts
<1>2. EditTyped /\ q \in Edit!Asks /\ Sound(q) /\ Goes(q)
  BY <1>1, UnderWay DEF EditInv, Going
<1>3. q.kind = "delete" /\ f \in Editable /\ q.text \in Texts /\ q.base \in Nat
  BY <1>1, <1>2 DEF Sound, Syncing, Forgetting, Edit!Asks
<1>4. r.version = q.base /\ r.text = q.text
  OBVIOUS
<1>5. Edit!Holders(f) \in SUBSET PanelRoles
  BY DEF Edit!Holders
<1>6. /\ q.base \in 1..Len(made[f]) /\ q.text = made[f][q.base].text
      /\ Len(made[f]) \in DOMAIN kept[f] \/ q.base = Len(made[f])
  BY <1>1, <1>2, <1>3 DEF Goes
<1> HIDE DEF q, f
<1>7. /\ s \in Snapshots
      /\ DOMAIN s = DOMAIN kept[f] \cup {q.base}
      /\ \A v \in DOMAIN kept[f] : s[v] = kept[f][v]
      /\ q.base \notin DOMAIN kept[f] => s[q.base].text = q.text
  <2> HIDE DEF r
  <2>1. r.version \in Nat /\ r.text \in Texts
    BY <1>3, <1>4
  <2>2. /\ Edit!Snapshot(f, r, Edit!Holders(f)) \in Snapshots
        /\ DOMAIN Edit!Snapshot(f, r, Edit!Holders(f)) = DOMAIN kept[f] \cup {r.version}
        /\ \A v \in DOMAIN kept[f] : Edit!Snapshot(f, r, Edit!Holders(f))[v] = kept[f][v]
        /\ r.version \notin DOMAIN kept[f] => Edit!Snapshot(f, r, Edit!Holders(f))[r.version].text = r.text
    BY <1>2, <1>3, <1>5, <2>1, SnapshotKeeps
  <2> QED BY <1>4, <2>2
<1> HIDE DEF s, r
<1>8. /\ x \in Edit!Asks /\ x.stage = "roles" /\ x.kind = q.kind /\ x.plain = q.plain /\ x.from = q.from
        /\ x.base = q.base
      /\ x.flow = q.flow /\ x.text = q.text
  <2>1. x \in Edit!Asks
    BY <1>2 DEF Edit!Asks, Edit!Stages
  <2>2. x.stage = "roles" /\ x.kind = q.kind /\ x.plain = q.plain /\ x.from = q.from /\ x.base = q.base
    BY <1>2 DEF Edit!Asks
  <2>3. x.flow = q.flow /\ x.text = q.text
    BY <1>2 DEF Edit!Asks
  <2> QED BY <2>1, <2>2, <2>3
<1> HIDE DEF x
<1>9. Sound(x)
  BY <1>3, <1>8 DEF Sound, Syncing, f
<1>10. /\ request' \in [Admins -> Edit!Asks \cup {None}]
       /\ \A b \in Admins : request'[b] # None => Sound(request'[b])
       /\ request'[a] = x /\ \A b \in Admins \ {a} : request'[b] = request[b]
  BY <1>1, <1>2, <1>8, <1>9, SoundStays
<1>11. kept' \in [Editable -> Snapshots] /\ kept'[f] = s /\ \A g \in Editable \ {f} : kept'[g] = kept[g]
  BY <1>1, <1>2, <1>3, <1>7 DEF EditTyped
<1>12. EditTyped'
  <2>1. \A b \in Admins : request'[b] # None => Sound(request[b])'
    BY <1>10 DEF Sound
  <2> QED BY <1>1, <1>10, <1>11, <2>1 DEF EditInv, EditTyped
<1>13. \A g \in Editable : DOMAIN kept[g] \subseteq DOMAIN kept'[g]
  BY <1>7, <1>11
<1>14. History'
  <2>1. LastMade'
    BY <1>1 DEF EditInv, History, LastMade, Edit!There
  <2>2. KeptIsMade'
    <3> SUFFICES ASSUME NEW g \in Editable, NEW v \in DOMAIN kept'[g]
                 PROVE  v \in 1..Len(made[g]) /\ kept'[g][v].text = made[g][v].text
      BY <1>1 DEF KeptIsMade
    <3>1. v \in DOMAIN kept[g] => v \in 1..Len(made[g]) /\ kept[g][v].text = made[g][v].text
      BY DEF EditInv, History, KeptIsMade
    <3> QED BY <1>6, <1>7, <1>11, <3>1
  <2>3. MadeIsKept'
    BY <1>1, <1>13 DEF EditInv, History, MadeIsKept, Edit!There
  <2> QED BY <2>1, <2>2, <2>3 DEF History
<1>15. Going'
  <2> SUFFICES ASSUME NEW b \in Admins, request'[b] # None
               PROVE  Goes(request[b])'
    BY DEF Going
  <2>1. CASE b # a
    <3>1. request'[b] = request[b] /\ Goes(request[b]) /\ Sound(request[b])
      BY <1>10, <2>1 DEF EditInv, Going, EditTyped
    <3>2. request[b].kind = "delete" => request[b].flow \in Editable
      BY <3>1 DEF Sound, Syncing
    <3> QED BY <1>1, <1>13, <3>1, <3>2 DEF Goes
  <2>2. CASE b = a
    <3>1. Len(made[f]) \in DOMAIN kept'[f]
      BY <1>6, <1>7, <1>11
    <3> QED BY <1>1, <1>8, <1>10, <2>2, <3>1 DEF Goes, f
  <2> QED BY <2>1, <2>2
<1>16. Alone'
  BY <1>1, <1>10 DEF EditInv, Alone, q
<1>17. Edit!Calm' = Edit!Calm /\ behind' = behind
  BY <1>1 DEF Edit!Calm
<1>18. Starting'
  <2>1. \A b \in Admins : page'[b] # None => Opened(page[b])'
    BY <1>1, <1>17 DEF EditInv, Starting, Opened
  <2>2. ASSUME NEW b \in Admins, request'[b] # None
        PROVE  Starts(request[b])'
    <3>1. CASE b # a
      <4>1. request'[b] = request[b] /\ Starts(request[b])
        BY <1>10, <2>2, <3>1 DEF EditInv, Starting
      <4> QED BY <1>1, <1>17, <4>1 DEF Starts, Edit!There
    <3>2. CASE b = a
      BY <1>3, <1>8, <1>10, <3>2 DEF Starts
    <3> QED BY <3>1, <3>2
  <2> QED BY <2>1, <2>2 DEF Starting
<1>19. InWords'
  <2>1. MayEnd(q)
    BY <1>3 DEF MayEnd
  <2> QED BY <1>1, <1>2, <1>8, <2>1, WordsStay DEF EditInv, q
<1>20. Edit!EditsBuildOnTheLast'
  BY <1>1, <1>17 DEF EditInv, Edit!EditsBuildOnTheLast, Edit!BuildsOn
<1> QED BY <1>12, <1>14, <1>15, <1>16, <1>18, <1>19, <1>20 DEF EditInv

\* Nobody is deleting a flow that was never made.
LEMMA UnmadeIsNotGoing ==
  ASSUME EditTyped, Going, KeptIsMade, NEW f \in Editable, made[f] = <<>>, NEW b \in Admins, request[b] # None,
         request[b].kind = "delete"
  PROVE  request[b].flow # f
<1> SUFFICES ASSUME request[b].flow = f PROVE FALSE
  OBVIOUS
<1>1. Goes(request[b]) /\ Len(made[f]) = 0
  BY DEF Going
<1>2. CASE Len(made[f]) \in DOMAIN kept[f]
  BY <1>1, <1>2 DEF KeptIsMade
<1>3. CASE request[b].stage = "keep"
  BY <1>1, <1>3 DEF Goes
<1> QED BY <1>1, <1>2, <1>3 DEF Goes

LEMMA CreateKeeps ==
  ASSUME Edit!Given, EditInv, NEW a \in Admins, Edit!Create(a)
  PROVE  EditInv'
<1> DEFINE q == request[a]
<1>1. q # None /\ q.stage = "create" /\ UNCHANGED <<permissions, page, requests, cuts, behind, crossed>>
  BY DEF Edit!Create, Edit!At, Edit!drafts
<1>2. EditTyped /\ q \in Edit!Asks /\ Sound(q) /\ Starts(q)
  BY <1>1, UnderWay DEF EditInv, Starting
<1>3. q.kind = "create" /\ q.flow \in Editable /\ q.text \in Texts /\ q.plain \in BOOLEAN /\ q.from = 1
  BY <1>1, <1>2 DEF Sound, Syncing, Forgetting, Edit!Asks, Starts
<1>4. PICK f \in Edit!FreeKeys(q) :
        /\ row' = [row EXCEPT ![f] = [version |-> 1, text |-> q.text, on |-> f \in Blocks, plain |-> 0]]
        /\ sketch' = [sketch EXCEPT ![f] = 0]
        /\ kept' = [kept EXCEPT ![f] = Edit!With(kept[f], 1, [text |-> q.text, roles |-> Edit!Holders(f)])]
        /\ made' = [made EXCEPT ![f] = <<[text |-> q.text, from |-> 0, plain |-> FALSE]>>]
        /\ IF q.plain THEN request' = [request EXCEPT ![a] = [q EXCEPT !.stage = "base", !.flow = f]]
           ELSE request' = [request EXCEPT ![a] = None]
  BY DEF Edit!Create, Edit!GoOn, Edit!Over
<1>5. f \in Editable /\ made[f] = <<>>
  BY <1>3, <1>4 DEF Edit!FreeKeys
<1>6. PICK x \in Edit!Asks \cup {None} : request' = [request EXCEPT ![a] = x] /\ (x # None => Sound(x)
        /\ x.kind = "create"
         /\ x.from = 1 /\ x.stage = "base" /\ x.flow = f)
  <2>1. CASE q.plain = TRUE
    <3> DEFINE x == [q EXCEPT !.stage = "base", !.flow = f]
    <3>1. request' = [request EXCEPT ![a] = x]
      BY <1>4, <2>1
    <3> HIDE DEF q
    <3>2. x \in Edit!Asks
      BY <1>2, <1>5 DEF Edit!Asks, Edit!Stages
    <3>3. x.stage = "base" /\ x.kind = q.kind /\ x.plain = q.plain /\ x.from = q.from
      BY <1>2 DEF Edit!Asks
    <3>4. x.flow = f /\ x.text = q.text
      BY <1>2 DEF Edit!Asks
    <3> HIDE DEF x
    <3>5. Sound(x)
      BY <1>3, <1>5, <2>1, <3>2, <3>3, <3>4 DEF Sound, Syncing
    <3> QED BY <1>3, <3>1, <3>2, <3>3, <3>4, <3>5
  <2>2. CASE q.plain # TRUE
    BY <1>4, <2>2, <1>3
  <2> QED BY <2>1, <2>2
<1> HIDE DEF q
<1>7. /\ request' \in [Admins -> Edit!Asks \cup {None}]
      /\ \A b \in Admins : request'[b] # None => Sound(request'[b])
      /\ request'[a] = x /\ \A b \in Admins \ {a} : request'[b] = request[b]
  BY <1>2, <1>6, SoundStays
<1> DEFINE new == [version |-> 1, text |-> q.text, on |-> f \in Blocks, plain |-> 0]
           c == [text |-> q.text, roles |-> Edit!Holders(f)]
           m == [text |-> q.text, from |-> 0, plain |-> FALSE]
<1>8. new \in Edit!Rows /\ new.version = 1 /\ new.text = q.text /\ new.plain = 0
  <2>1. PICK o \in BOOLEAN : o = (f \in Blocks)
    <3>1. (f \in Blocks) \in BOOLEAN
      OBVIOUS
    <3> QED BY <3>1
  <2>2. [version |-> 1, text |-> q.text, on |-> o, plain |-> 0] \in Edit!Rows
    BY <1>3 DEF Edit!Rows
  <2> QED BY <2>1, <2>2
<1>9. c \in Edit!Kept /\ c.text = q.text /\ m \in Edit!Made /\ m.text = q.text
  BY <1>3 DEF Edit!Kept, Edit!Made, Edit!Holders
<1>10. row' = [row EXCEPT ![f] = new] /\ kept' = [kept EXCEPT ![f] = Edit!With(kept[f], 1, c)]
        /\ made' = [made EXCEPT ![f] = <<m>>]
  BY <1>4
<1> HIDE DEF new, c, m
<1>11. new # None
  BY <1>8 DEF Edit!Given
<1>12. /\ row' \in [Editable -> Edit!Rows \cup {None}]
       /\ row'[f] = new /\ \A g \in Editable \ {f} : row'[g] = row[g]
  <2>1. row \in [Editable -> Edit!Rows \cup {None}]
    BY <1>2 DEF EditTyped
  <2> QED BY <1>5, <1>8, <1>10, <2>1
<1>13. /\ made' \in [Editable -> Seq(Edit!Made)] /\ made'[f] = <<m>>
       /\ \A g \in Editable \ {f} : made'[g] = made[g]
  <2>1. made \in [Editable -> Seq(Edit!Made)]
    BY <1>2 DEF EditTyped
  <2>2. <<m>> \in Seq(Edit!Made)
    BY <1>9
  <2> QED BY <1>5, <1>10, <2>1, <2>2
<1>14. DOMAIN kept[f] = {}
  <2>1. \A v \in DOMAIN kept[f] : v \in 1..Len(made[f])
    BY <1>5 DEF EditInv, History, KeptIsMade
  <2>2. Len(made[f]) = 0
    BY <1>5
  <2> QED BY <2>1, <2>2
<1>15. /\ kept' \in [Editable -> Snapshots] /\ DOMAIN kept'[f] = {1} /\ kept'[f][1] = c
       /\ \A g \in Editable \ {f} : kept'[g] = kept[g]
  <2>1. kept \in [Editable -> Snapshots] /\ kept[f] \in Snapshots
    BY <1>2, <1>5 DEF EditTyped
  <2>2. PICK k \in Snapshots, d \in Edit!Kept, v \in Nat : k = kept[f] /\ d = c /\ v = 1
    BY <1>9, <2>1
  <2>3. Edit!With(k, v, d) \in Snapshots /\ DOMAIN Edit!With(k, v, d) = DOMAIN k \cup {v} /\ Edit!With(k, v, d)[v] = d
    BY PutFirst
  <2>4. kept' = [kept EXCEPT ![f] = Edit!With(k, v, d)]
    BY <1>10, <2>2
  <2> HIDE DEF c
  <2>5. kept'[f] = Edit!With(k, v, d) /\ DOMAIN Edit!With(k, v, d) = {1} /\ Edit!With(k, v, d)[1] = c
    BY <1>5, <1>14, <2>1, <2>2, <2>3, <2>4
  <2> QED BY <1>5, <2>1, <2>3, <2>4, <2>5
<1>25. sketch' \in [Editable -> Nat] /\ sketch'[f] = 0 /\ \A g \in Editable \ {f} : sketch'[g] = sketch[g]
  BY <1>2, <1>4, <1>5 DEF EditTyped
<1>16. Len(made'[f]) = 1 /\ made'[f][1] = m /\ made'[f] # <<>>
  BY <1>13
<1>17. EditTyped'
  <2>1. \A b \in Admins : request'[b] # None => Sound(request[b])'
    BY <1>7 DEF Sound
  <2> QED BY <1>1, <1>7, <1>12, <1>13, <1>15, <1>25, <2>1 DEF EditInv, EditTyped
<1>18. History'
  <2>1. LastMade'
    <3> SUFFICES ASSUME NEW g \in Editable, row'[g] # None
                 PROVE  /\ made'[g] # <<>>
                        /\ row'[g].version = Len(made'[g])
                        /\ row'[g].text = made'[g][Len(made'[g])].text
      BY DEF LastMade, Edit!There
    <3>1. CASE g = f
      BY <1>8, <1>9, <1>12, <1>16, <3>1
    <3>2. CASE g # f
      <4>1. row'[g] = row[g] /\ made'[g] = made[g]
        BY <1>12, <1>13, <3>2
      <4> QED BY <4>1 DEF EditInv, History, LastMade, Edit!There
    <3> QED BY <3>1, <3>2
  <2>2. KeptIsMade'
    <3> SUFFICES ASSUME NEW g \in Editable, NEW v \in DOMAIN kept'[g]
                 PROVE  v \in 1..Len(made'[g]) /\ kept'[g][v].text = made'[g][v].text
      BY DEF KeptIsMade
    <3>1. CASE g = f
      <4>1. v = 1 /\ v \in 1..Len(made'[g])
        BY <1>15, <1>16, <3>1
      <4>2. kept'[g][v].text = q.text /\ made'[g][v].text = q.text
        BY <1>9, <1>15, <1>16, <3>1, <4>1
      <4> QED BY <4>1, <4>2
    <3>2. CASE g # f
      <4>1. kept'[g] = kept[g] /\ made'[g] = made[g]
        BY <1>13, <1>15, <3>2
      <4> QED BY <4>1 DEF EditInv, History, KeptIsMade
    <3> QED BY <3>1, <3>2
  <2>3. MadeIsKept'
    <3> SUFFICES ASSUME NEW g \in Editable, NEW v \in 1..Len(made'[g]), v < Len(made'[g]) \/ row'[g] = None
                 PROVE  v \in DOMAIN kept'[g]
      BY DEF MadeIsKept, Edit!There
    <3>1. CASE g = f
      <4>1. v \in 1..1
        BY <1>16, <3>1
      <4>2. v = 1
        BY <4>1
      <4> QED BY <1>15, <3>1, <4>2
    <3>2. CASE g # f
      <4>1. kept'[g] = kept[g] /\ made'[g] = made[g] /\ row'[g] = row[g]
        BY <1>12, <1>13, <1>15, <3>2
      <4> QED BY <4>1 DEF EditInv, History, MadeIsKept, Edit!There
    <3> QED BY <3>1, <3>2
  <2> QED BY <2>1, <2>2, <2>3 DEF History
<1>19. Going'
  <2> SUFFICES ASSUME NEW b \in Admins, request'[b] # None, request'[b].kind = "delete"
               PROVE  Goes(request[b])'
    BY DEF Going, Goes
  <2>1. b # a
    BY <1>6, <1>7
  <2>2. request'[b] = request[b] /\ Goes(request[b]) /\ Sound(request[b])
    BY <1>7, <2>1 DEF EditInv, Going, EditTyped
  <2>3. request[b].flow \in Editable
    BY <2>2 DEF Sound, Syncing
  <2>4. request[b].flow # f
    BY <1>2, <1>5, <2>2, UnmadeIsNotGoing DEF EditInv, History
  <2>5. made'[request[b].flow] = made[request[b].flow] /\ kept'[request[b].flow] = kept[request[b].flow]
    BY <1>13, <1>15, <2>3, <2>4
  <2> QED BY <2>2, <2>5 DEF Goes
<1>20. Alone'
  BY <1>1, <1>7 DEF EditInv, Alone, q
<1>21. Edit!Calm' = Edit!Calm /\ behind' = behind
  BY <1>1 DEF Edit!Calm
<1>22. Starting'
  <2>1. \A b \in Admins : page'[b] # None => Opened(page[b])'
    BY <1>1, <1>21 DEF EditInv, Starting, Opened
  <2>2. ASSUME NEW b \in Admins, request'[b] # None
        PROVE  Starts(request[b])'
    <3>1. CASE b # a
      <4>1. request'[b] = request[b] /\ Starts(request[b]) /\ Sound(request[b])
        BY <1>7, <2>2, <3>1 DEF EditInv, Starting, EditTyped
      <4>2. request[b].stage \in {"base", "save"} => request[b].flow \in Editable
        BY <4>1 DEF Sound
      <4>3. request[b].stage \in {"base", "save"} =>
              row'[request[b].flow] = row[request[b].flow] \/ row'[request[b].flow].version = 1
        BY <1>8, <1>12, <4>2
      <4> QED BY <1>21, <4>1, <4>3 DEF Starts, Edit!There
    <3>2. CASE b = a
      BY <1>6, <1>7, <1>8, <1>12, <2>2, <3>2 DEF Starts
    <3> QED BY <3>1, <3>2
  <2> QED BY <2>1, <2>2 DEF Starting
<1>23. InWords'
  <2> SUFFICES ASSUME Edit!Calm', NEW g \in Editable, Edit!There(g)'
               PROVE  SaysIt(g)'
    BY DEF InWords
  <2>1. CASE g = f
    BY <1>8, <1>12, <1>25, <2>1 DEF SaysIt, WordsFit
  <2>2. CASE g # f
    <3>1. row'[g] = row[g] /\ sketch'[g] = sketch[g]
      BY <1>12, <1>25, <2>2
    <3>2. SaysIt(g)
      BY <1>21, <3>1 DEF EditInv, InWords, Edit!There
    <3>3. ~Drops(request[a], g)
      BY <1>3 DEF Drops, q
    <3> QED BY <1>7, <1>21, <3>1, <3>2, <3>3, SaysItStill
  <2> QED BY <2>1, <2>2
<1>24. Edit!EditsBuildOnTheLast'
  <2> SUFFICES ASSUME NEW g \in Editable, NEW v \in DOMAIN made'[g], v > 1
               PROVE  made'[g][v].from = v - 1 \/ (made'[g][v].plain /\ (~Edit!Calm' \/ g \in behind'))
    BY DEF Edit!EditsBuildOnTheLast, Edit!BuildsOn
  <2>1. g # f
    BY <1>13
  <2> QED BY <1>13, <1>21, <2>1 DEF EditInv, Edit!EditsBuildOnTheLast, Edit!BuildsOn
<1> QED BY <1>17, <1>18, <1>19, <1>20, <1>22, <1>23, <1>24 DEF EditInv
\* What a save leaves behind: a row with the next version, the version it made, both of them kept, and the request
\* that goes on to the roles.
Saved(a, n, text, new, m, x, s) ==
  LET q == request[a]
      f == q.flow
  IN  /\ row' = [row EXCEPT ![f] = new] /\ new \in Edit!Rows /\ new.version = n + 1 /\ new.text = text
      /\ new.on = row[f].on /\ text = (IF q.kind = "create" THEN row[f].text ELSE q.text)
      /\ q.plain = TRUE /\ (q.kind = "create" => q.base = q.from) => new.plain = n + 1
      /\ made' = [made EXCEPT ![f] = Append(made[f], m)] /\ m \in Edit!Made
      /\ m.text = text /\ m.from = q.from /\ m.plain = q.plain
      /\ request' = [request EXCEPT ![a] = x] /\ x \in Edit!Asks /\ Sound(x) /\ x.stage = "granted"
      /\ x.kind = q.kind /\ x.plain = q.plain /\ x.from = q.from /\ x.base = q.base /\ x.flow = f
      /\ x.text = text
      /\ kept' = [kept EXCEPT ![f] = s] /\ s \in Snapshots /\ DOMAIN s = DOMAIN kept[f] \cup {n, n + 1}
      /\ \A w \in DOMAIN kept[f] \ {n + 1} : s[w] = kept[f][w]
      /\ n \notin DOMAIN kept[f] => s[n].text = row[f].text
      /\ s[n + 1].text = text

LEMMA SaveMakes ==
  ASSUME Edit!Given, EditTyped, NEW a \in Admins, Edit!Save(a)
  PROVE  /\ request[a] # None /\ request[a].stage = "save" /\ request[a].flow \in Editable
         /\ Edit!There(request[a].flow)
         /\ row[request[a].flow].version = request[a].base
         /\ UNCHANGED <<permissions, page, requests, cuts, behind, crossed>>
         /\ sketch' = IF request[a].plain THEN [sketch EXCEPT ![request[a].flow] = 0] ELSE sketch
         /\ \E text \in Texts, new \in Edit!Rows, m \in Edit!Made, x \in Edit!Asks, s \in Snapshots :
              Saved(a, row[request[a].flow].version, text, new, m, x, s)
<1> DEFINE q == request[a]
           f == q.flow
           n == row[f].version
           text == IF q.kind = "create" THEN row[f].text ELSE q.text
           words == IF q.kind = "create" /\ q.base # q.from THEN q.from ELSE n + 1
           plain == IF q.plain THEN words ELSE row[f].plain
           new == [row[f] EXCEPT !.version = n + 1, !.text = text, !.plain = plain]
           m == [text |-> text, from |-> q.from, plain |-> q.plain]
           x == [q EXCEPT !.stage = "granted", !.text = text]
           c == [text |-> text, roles |-> Edit!Holders(f)]
           s == Edit!With(Edit!Snapshot(f, row[f], Edit!Holders(f)), n + 1, c)
<1>1. /\ q # None /\ q.stage = "save" /\ Edit!There(f) /\ n = q.base
      /\ UNCHANGED <<permissions, page, requests, cuts, behind, crossed>>
  BY DEF Edit!Save, Edit!At, Edit!Agrees, Edit!drafts
<1>2. q \in Edit!Asks /\ Sound(q)
  BY <1>1, UnderWay
<1>3. /\ q.kind \in {"save", "create"} /\ f \in Editable /\ q.text \in Texts /\ q.plain \in BOOLEAN /\ q.from \in Nat
      /\ q.base \in Nat /\ (q.kind = "create" => q.plain = TRUE)
  BY <1>1, <1>2 DEF Sound, Syncing, Forgetting, Edit!Asks
<1>4. row[f] \in Edit!Rows /\ row[f].text \in Texts /\ n \in Nat /\ row[f].plain \in Nat
  BY <1>1, <1>3, RowIsOne
<1>5. row' = [row EXCEPT ![f] = new] /\ sketch' = IF q.plain THEN [sketch EXCEPT ![f] = 0] ELSE sketch
  BY DEF Edit!Save
<1>6. made' = [made EXCEPT ![f] = Append(made[f], m)]
  BY DEF Edit!Save
<1>7. request' = [request EXCEPT ![a] = x]
  BY DEF Edit!Save, Edit!GoOn
<1>8. new.text = text
  BY <1>4 DEF Edit!Rows
<1>9. kept' = [kept EXCEPT ![f] = Edit!With(Edit!Snapshot(f, row[f], Edit!Holders(f)), n + 1, [text |-> new.text,
        roles |-> Edit!Holders(f)])]
  BY DEF Edit!Save
<1>10. kept' = [kept EXCEPT ![f] = s]
  BY <1>8, <1>9
<1>11. text \in Texts
  BY <1>3, <1>4
<1>12. words \in Nat
  BY <1>3, <1>4
<1>13. plain \in Nat /\ (q.plain = TRUE /\ (q.kind = "create" => q.base = q.from) => plain = n + 1)
  BY <1>3, <1>4, <1>12
<1>21. text = IF q.kind = "create" THEN row[f].text ELSE q.text
  OBVIOUS
<1> HIDE DEF text, words, plain
<1>14. new \in Edit!Rows /\ new.version = n + 1 /\ new.plain = plain /\ new.on = row[f].on
  <2>1. PICK u \in Nat : u = n + 1
    BY <1>4
  <2>2. plain \in Nat
    BY <1>13
  <2>3. PICK r \in Edit!Rows, t \in Texts, p \in Nat : r = row[f] /\ t = text /\ p = plain
    BY <1>4, <1>11, <2>2
  <2>4. [r EXCEPT !.version = u, !.text = t, !.plain = p] \in Edit!Rows
    BY DEF Edit!Rows
  <2>5. LET o == [r EXCEPT !.version = u, !.text = t, !.plain = p] IN o.version = u /\ o.plain = p /\ o.on = r.on
    BY DEF Edit!Rows
  <2>6. new = [r EXCEPT !.version = u, !.text = t, !.plain = p]
    BY <2>1, <2>3
  <2> QED BY <2>1, <2>3, <2>4, <2>5, <2>6
<1>15. m \in Edit!Made /\ m.text = text /\ m.from = q.from /\ m.plain = q.plain
  BY <1>3, <1>11 DEF Edit!Made
<1>16. c \in Edit!Kept /\ c.text = text
  BY <1>11 DEF Edit!Kept, Edit!Holders
<1>17. /\ x \in Edit!Asks /\ x.stage = "granted" /\ x.kind = q.kind /\ x.plain = q.plain /\ x.from = q.from
       /\ x.base = q.base /\ x.flow = f /\ x.text = text
  <2> HIDE DEF q
  <2>1. x \in Edit!Asks
    BY <1>2, <1>11 DEF Edit!Asks, Edit!Stages
  <2>2. x.stage = "granted" /\ x.kind = q.kind /\ x.plain = q.plain /\ x.from = q.from
    BY <1>2 DEF Edit!Asks
  <2>3. x.base = q.base /\ x.flow = q.flow /\ x.text = text
    BY <1>2 DEF Edit!Asks
  <2> QED BY <2>1, <2>2, <2>3
<1> HIDE DEF x, new, m, c
<1>18. Sound(x)
  BY <1>3, <1>11, <1>17 DEF Sound, Forgetting, Syncing
<1>19. /\ s \in Snapshots /\ DOMAIN s = DOMAIN kept[f] \cup {n, n + 1}
       /\ \A w \in DOMAIN kept[f] \ {n + 1} : s[w] = kept[f][w]
       /\ n \notin DOMAIN kept[f] => s[n].text = row[f].text
       /\ s[n + 1].text = text
  <2> HIDE DEF q, f
  <2>1. Edit!Holders(f) \in SUBSET PanelRoles
    BY DEF Edit!Holders
  <2>2. PICK r \in Edit!Rows : r = row[f] /\ r.version = n /\ r.text = row[f].text
    BY <1>4
  <2>3. r.version \in Nat /\ r.text \in Texts
    BY <1>4, <2>2
  <2>4. /\ Edit!Snapshot(f, r, Edit!Holders(f)) \in Snapshots
        /\ DOMAIN Edit!Snapshot(f, r, Edit!Holders(f)) = DOMAIN kept[f] \cup {r.version}
        /\ \A v \in DOMAIN kept[f] : Edit!Snapshot(f, r, Edit!Holders(f))[v] = kept[f][v]
        /\ r.version \notin DOMAIN kept[f] => Edit!Snapshot(f, r, Edit!Holders(f))[r.version].text = r.text
    BY <1>3, <2>1, <2>3, SnapshotKeeps
  <2>5. PICK k \in Snapshots, d \in Edit!Kept, v \in Nat : k = Edit!Snapshot(f, r, Edit!Holders(f)) /\ d = c
          /\ v = n + 1
    BY <1>4, <1>16, <2>4
  <2>6. /\ Edit!With(k, v, d) \in Snapshots
        /\ DOMAIN Edit!With(k, v, d) = DOMAIN k \cup {v}
        /\ Edit!With(k, v, d)[v] = d
        /\ \A w \in DOMAIN k \ {v} : Edit!With(k, v, d)[w] = k[w]
    BY PutFirst
  <2>7. s = Edit!With(k, v, d)
    BY <2>2, <2>5
  <2>8. DOMAIN k = DOMAIN kept[f] \cup {n}
    BY <2>2, <2>4, <2>5
  <2> HIDE DEF s
  <2>9. s \in Snapshots /\ DOMAIN s = DOMAIN kept[f] \cup {n, n + 1} /\ s[n + 1].text = text
    BY <1>16, <2>5, <2>6, <2>7, <2>8
  <2>10. \A w \in DOMAIN kept[f] \ {n + 1} : s[w] = kept[f][w]
    BY <2>4, <2>5, <2>6, <2>7, <2>8
  <2>11. n \notin DOMAIN kept[f] => s[n].text = row[f].text
    <3>1. n \in DOMAIN k \ {v}
      BY <1>4, <2>5, <2>8
    <3>2. s[n] = k[n]
      BY <2>6, <2>7, <3>1
    <3> QED BY <2>2, <2>4, <2>5, <3>2
  <2> QED BY <2>9, <2>10, <2>11
<1> HIDE DEF s
<1>20. Saved(a, n, text, new, m, x, s)
  BY <1>5, <1>6, <1>7, <1>8, <1>10, <1>13, <1>14, <1>15, <1>17, <1>18, <1>19, <1>21 DEF Saved
<1> QED BY <1>1, <1>3, <1>5, <1>11, <1>14, <1>15, <1>17, <1>19, <1>20
LEMMA SaveKeeps ==
  ASSUME Edit!Given, EditInv, NEW a \in Admins, Edit!Save(a)
  PROVE  EditInv'
<1> DEFINE q == request[a]
           f == q.flow
           n == Len(made[f])
<1>1. /\ q # None /\ q.stage = "save" /\ f \in Editable /\ Edit!There(f) /\ row[f].version = q.base
      /\ UNCHANGED <<permissions, page, requests, cuts, behind, crossed>>
      /\ sketch' = IF q.plain THEN [sketch EXCEPT ![f] = 0] ELSE sketch
      /\ \E text \in Texts, new \in Edit!Rows, m \in Edit!Made, x \in Edit!Asks, s \in Snapshots :
           Saved(a, row[f].version, text, new, m, x, s)
  BY SaveMakes DEF EditInv
<1>2. EditTyped /\ Sound(q) /\ Starts(q)
  BY <1>1, UnderWay DEF EditInv, Starting
<1>3. q.kind \in {"save", "create"} /\ (q.kind = "create" => q.plain = TRUE) /\ q.plain \in BOOLEAN
  BY <1>1, <1>2 DEF Sound, Syncing, Forgetting, Edit!Asks
<1>4. n \in Nat /\ n >= 1 /\ n = q.base /\ row[f].version = n /\ row[f].text = made[f][n].text
        /\ made[f] \in Seq(Edit!Made)
  <2>1. made[f] \in Seq(Edit!Made) /\ made[f] # <<>>
    BY <1>1, <1>2 DEF EditInv, History, LastMade, EditTyped
  <2>2. n \in Nat /\ n >= 1
    BY <2>1
  <2> QED BY <1>1, <2>1, <2>2 DEF EditInv, History, LastMade
<1>5. PICK text \in Texts, new \in Edit!Rows, m \in Edit!Made, x \in Edit!Asks, s \in Snapshots : Saved(a, n,
        text, new, m, x, s)
  BY <1>1, <1>4
<1>6. /\ row' = [row EXCEPT ![f] = new] /\ new.version = n + 1 /\ new.text = text
      /\ q.plain = TRUE /\ (q.kind = "create" => q.base = q.from) => new.plain = n + 1
  BY <1>5 DEF Saved
<1>7. /\ made' = [made EXCEPT ![f] = Append(made[f], m)] /\ m.text = text /\ m.from = q.from /\ m.plain = q.plain
  BY <1>5 DEF Saved
<1>8. /\ request' = [request EXCEPT ![a] = x] /\ Sound(x) /\ x.stage = "granted"
      /\ x.kind = q.kind /\ x.plain = q.plain /\ x.from = q.from /\ x.base = q.base /\ x.flow = f
  BY <1>5 DEF Saved
<1>9. /\ kept' = [kept EXCEPT ![f] = s] /\ DOMAIN s = DOMAIN kept[f] \cup {n, n + 1}
      /\ \A w \in DOMAIN kept[f] \ {n + 1} : s[w] = kept[f][w]
      /\ n \notin DOMAIN kept[f] => s[n].text = row[f].text
      /\ s[n + 1].text = text
  BY <1>5 DEF Saved
<1> HIDE DEF q, f, n
<1>10. /\ request' \in [Admins -> Edit!Asks \cup {None}]
       /\ \A b \in Admins : request'[b] # None => Sound(request'[b])
       /\ request'[a] = x /\ \A b \in Admins \ {a} : request'[b] = request[b]
  BY <1>2, <1>8, SoundStays
<1>11. new # None
  BY DEF Edit!Given
<1>12. row' \in [Editable -> Edit!Rows \cup {None}] /\ row'[f] = new /\ \A g \in Editable \ {f} : row'[g] = row[g]
  BY <1>1, <1>2, <1>6 DEF EditTyped
<1>13. /\ Append(made[f], m) \in Seq(Edit!Made) /\ Len(Append(made[f], m)) = n + 1 /\ Append(made[f], m)[n + 1] = m
       /\ \A w \in 1..n : Append(made[f], m)[w] = made[f][w]
  BY <1>4 DEF n
<1>14. /\ made' \in [Editable -> Seq(Edit!Made)] /\ made'[f] = Append(made[f], m)
       /\ \A g \in Editable \ {f} : made'[g] = made[g]
  BY <1>1, <1>2, <1>7, <1>13 DEF EditTyped
<1>15. /\ Len(made'[f]) = n + 1 /\ made'[f] \in Seq(Edit!Made) /\ made'[f] # <<>> /\ made'[f][n + 1] = m
       /\ \A w \in 1..n : made'[f][w] = made[f][w]
  BY <1>4, <1>13, <1>14
<1>16. kept' \in [Editable -> Snapshots] /\ kept'[f] = s /\ \A g \in Editable \ {f} : kept'[g] = kept[g]
  BY <1>1, <1>2, <1>9 DEF EditTyped
<1>17. \A w \in DOMAIN kept[f] : w \in 1..n /\ kept[f][w].text = made[f][w].text
  BY <1>1 DEF EditInv, History, KeptIsMade, n
<1>27. /\ sketch' \in [Editable -> Nat] /\ \A g \in Editable \ {f} : sketch'[g] = sketch[g]
       /\ q.plain = TRUE => sketch'[f] = 0
  BY <1>1, <1>2, <1>3 DEF EditTyped
<1>18. EditTyped'
  <2>1. \A b \in Admins : request'[b] # None => Sound(request[b])'
    BY <1>10 DEF Sound
  <2> QED BY <1>1, <1>10, <1>12, <1>14, <1>16, <1>27, <2>1 DEF EditInv, EditTyped
<1>19. History'
  <2>1. LastMade'
    <3> SUFFICES ASSUME NEW g \in Editable, row'[g] # None
                 PROVE  /\ made'[g] # <<>>
                        /\ row'[g].version = Len(made'[g])
                        /\ row'[g].text = made'[g][Len(made'[g])].text
      BY DEF LastMade, Edit!There
    <3>1. CASE g = f
      BY <1>6, <1>7, <1>12, <1>15, <3>1
    <3>2. CASE g # f
      <4>1. row'[g] = row[g] /\ made'[g] = made[g]
        BY <1>12, <1>14, <3>2
      <4> QED BY <4>1 DEF EditInv, History, LastMade, Edit!There
    <3> QED BY <3>1, <3>2
  <2>2. KeptIsMade'
    <3> SUFFICES ASSUME NEW g \in Editable, NEW v \in DOMAIN kept'[g]
                 PROVE  v \in 1..Len(made'[g]) /\ kept'[g][v].text = made'[g][v].text
      BY DEF KeptIsMade
    <3>1. CASE g = f
      <4>1. CASE v \in DOMAIN kept[f]
        <5>1. v \in 1..n /\ v # n + 1 /\ kept[f][v].text = made[f][v].text
          BY <1>4, <1>17, <4>1
        <5>2. kept'[g][v] = kept[f][v] /\ made'[g][v] = made[f][v]
          BY <1>9, <1>15, <1>16, <3>1, <4>1, <5>1
        <5> QED BY <1>4, <1>15, <3>1, <5>1, <5>2
      <4>2. CASE v \notin DOMAIN kept[f] /\ v = n
        <5>1. kept'[g][v].text = row[f].text /\ n \in 1..n + 1 /\ n \in 1..n
          BY <1>4, <1>9, <1>16, <3>1, <4>2
        <5> QED BY <1>4, <1>15, <3>1, <4>2, <5>1
      <4>3. CASE v = n + 1
        <5>1. kept'[g][v].text = text /\ made'[g][v].text = text
          BY <1>7, <1>9, <1>15, <1>16, <3>1, <4>3
        <5> QED BY <1>4, <1>15, <3>1, <4>3, <5>1
      <4> QED BY <1>9, <1>16, <3>1, <4>1, <4>2, <4>3
    <3>2. CASE g # f
      <4>1. kept'[g] = kept[g] /\ made'[g] = made[g]
        BY <1>14, <1>16, <3>2
      <4> QED BY <4>1 DEF EditInv, History, KeptIsMade
    <3> QED BY <3>1, <3>2
  <2>3. MadeIsKept'
    <3> SUFFICES ASSUME NEW g \in Editable, NEW v \in 1..Len(made'[g]), v < Len(made'[g]) \/ row'[g] = None
                 PROVE  v \in DOMAIN kept'[g]
      BY DEF MadeIsKept, Edit!There
    <3>1. CASE g = f
      <4>1. v \in 1..n + 1
        BY <1>15, <3>1
      <4>2. (v \in 1..n /\ v < n) \/ v = n \/ v = n + 1
        BY <1>4, <4>1
      <4>3. \A w \in 1..n : w < n => w \in DOMAIN kept[f]
        BY <1>1 DEF EditInv, History, MadeIsKept, n
      <4> QED BY <1>9, <1>16, <3>1, <4>2, <4>3
    <3>2. CASE g # f
      <4>1. kept'[g] = kept[g] /\ made'[g] = made[g] /\ row'[g] = row[g]
        BY <1>12, <1>14, <1>16, <3>2
      <4> QED BY <4>1 DEF EditInv, History, MadeIsKept, Edit!There
    <3> QED BY <3>1, <3>2
  <2> QED BY <2>1, <2>2, <2>3 DEF History
<1>20. Going'
  <2> SUFFICES ASSUME NEW b \in Admins, request'[b] # None, request'[b].kind = "delete"
               PROVE  Goes(request[b])'
    BY DEF Going, Goes
  <2>1. b # a
    BY <1>3, <1>8, <1>10
  <2>2. request'[b] = request[b] /\ Goes(request[b]) /\ Sound(request[b])
    BY <1>10, <2>1 DEF EditInv, Going, EditTyped
  <2> DEFINE p == request[b]
  <2>3. p.flow \in Editable /\ p.kind = "delete"
    BY <2>2 DEF Sound, Syncing
  <2>4. CASE p.flow = f
    <3>1. n + 1 \in DOMAIN kept'[f]
      BY <1>9, <1>16
    <3>2. p.stage = "keep" => p.base \in 1..n /\ p.text = made[f][p.base].text
      BY <2>2, <2>3, <2>4 DEF Goes, n
    <3>3. p.base \in 1..n => p.base \in 1..n + 1 /\ made'[f][p.base] = made[f][p.base]
      BY <1>4, <1>15
    <3>4. p.stage = "keep" => p.base \in 1..n + 1 /\ p.text = made'[f][p.base].text
      BY <3>2, <3>3
    <3> QED BY <1>15, <2>2, <2>3, <2>4, <3>1, <3>4 DEF Goes
  <2>5. CASE p.flow # f
    <3>1. made'[p.flow] = made[p.flow] /\ kept'[p.flow] = kept[p.flow]
      BY <1>14, <1>16, <2>3, <2>5
    <3> QED BY <2>2, <3>1 DEF Goes
  <2> QED BY <2>4, <2>5
<1>21. Alone'
  BY <1>1, <1>10 DEF EditInv, Alone, q
<1>22. Edit!Calm' = Edit!Calm /\ behind' = behind
  BY <1>1 DEF Edit!Calm
<1>23. Starting'
  <2>1. \A b \in Admins : page'[b] # None => Opened(page[b])'
    BY <1>1, <1>22 DEF EditInv, Starting, Opened
  <2>2. ASSUME NEW b \in Admins, request'[b] # None
        PROVE  Starts(request[b])'
    <3>1. CASE b # a
      <4>1. request'[b] = request[b] /\ Starts(request[b]) /\ Sound(request[b])
        BY <1>10, <2>2, <3>1 DEF EditInv, Starting, EditTyped
      <4>2. ~Edit!Calm
        BY <1>1, <2>2, <3>1, <4>1 DEF EditInv, Alone, Edit!Calm, q
      <4>3. Starts(request[b])'
        BY <1>22, <4>1, <4>2 DEF Starts
      <4> QED BY <4>3
    <3>2. CASE b = a
      <4>1. x.kind = "save" => x.from = x.base \/ (x.plain = TRUE /\ (~Edit!Calm \/ x.flow \in behind))
        BY <1>2, <1>8 DEF Starts, f
      <4>2. x.kind = "create" => x.from = 1
        BY <1>2, <1>8 DEF Starts
      <4> QED BY <1>8, <1>10, <1>22, <3>2, <4>1, <4>2 DEF Starts
    <3> QED BY <3>1, <3>2
  <2> QED BY <2>1, <2>2 DEF Starting
<1>24. q.kind = "create" => q.base = q.from \/ ~Edit!Calm
  BY <1>1, <1>2 DEF Starts
<1>25. InWords'
  <2> SUFFICES ASSUME Edit!Calm', NEW g \in Editable, Edit!There(g)'
               PROVE  SaysIt(g)'
    BY DEF InWords
  <2>1. CASE g = f /\ q.plain = TRUE
    BY <1>6, <1>12, <1>22, <1>24, <1>27, <2>1 DEF SaysIt, WordsFit
  <2>2. CASE g = f /\ q.plain # TRUE
    <3>1. q.kind = "save" /\ q.plain = FALSE
      BY <1>3, <2>2
    <3>2. Drops(x, g)
      BY <1>8, <2>2, <3>1 DEF Drops, Forgetting
    <3>3. x # None
      BY DEF Edit!Given
    <3>4. Drops(request[a], g)'
      BY <1>10, <3>2 DEF Drops
    <3> QED BY <1>10, <3>3, <3>4 DEF SaysIt
  <2>3. CASE g # f
    <3>1. row'[g] = row[g] /\ sketch'[g] = sketch[g]
      BY <1>12, <1>27, <2>3
    <3>2. SaysIt(g)
      BY <1>22, <3>1 DEF EditInv, InWords, Edit!There
    <3>3. ~Drops(request[a], g)
      BY <2>3 DEF Drops, q, f
    <3> QED BY <1>10, <1>22, <3>1, <3>2, <3>3, SaysItStill
  <2> QED BY <2>1, <2>2, <2>3
<1>26. Edit!EditsBuildOnTheLast'
  <2> SUFFICES ASSUME NEW g \in Editable, NEW v \in DOMAIN made'[g], v > 1
               PROVE  made'[g][v].from = v - 1 \/ (made'[g][v].plain /\ (~Edit!Calm' \/ g \in behind'))
    BY DEF Edit!EditsBuildOnTheLast, Edit!BuildsOn
  <2>1. CASE g # f
    <3>1. made'[g] = made[g]
      BY <1>14, <2>1
    <3> QED BY <1>22, <3>1 DEF EditInv, Edit!EditsBuildOnTheLast, Edit!BuildsOn
  <2>2. CASE g = f
    <3>1. v \in 1..n + 1
      BY <1>15, <2>2
    <3>2. CASE v \in 1..n
      <4>1. made'[g][v] = made[f][v] /\ v \in DOMAIN made[f]
        BY <1>4, <1>15, <2>2, <3>2 DEF n
      <4> QED BY <1>1, <1>22, <2>2, <4>1 DEF EditInv, Edit!EditsBuildOnTheLast, Edit!BuildsOn
    <3>3. CASE v = n + 1
      <4>1. made'[g][v] = m /\ v - 1 = n
        BY <1>4, <1>15, <2>2, <3>3
      <4>2. q.from = q.base \/ (q.plain = TRUE /\ (~Edit!Calm \/ f \in behind))
        BY <1>2, <1>3, <1>24 DEF Starts, f
      <4> QED BY <1>4, <1>7, <1>22, <2>2, <4>1, <4>2
    <3> QED BY <1>4, <3>1, <3>2, <3>3
  <2> QED BY <2>1, <2>2
<1> QED BY <1>18, <1>19, <1>20, <1>21, <1>23, <1>25, <1>26 DEF EditInv
-----------------------------------------------------------------------------
(* The invariant holds *)

LEMMA EditInitKeeps ==
  ASSUME Edit!Given, Edit!Init
  PROVE  EditInv
<1>1. PICK first \in Firsts :
        LET there == {f \in Editable : first.texts[f] # None}
            text == first.texts
        IN  /\ row = [f \in Editable |->
                 IF f \in there THEN [version |-> 1, text |-> text[f], on |-> f \in first.on, plain |-> 0] ELSE None]
            /\ kept = [f \in Editable |-> <<>>]
            /\ permissions = [r \in PanelRoles |->
                 UNION {{f} \cup Needs[text[f]] : f \in {g \in there \cap first.on : r \in Ticked[g]}}]
            /\ page = [a \in Admins |-> None]
            /\ request = [a \in Admins |-> None]
            /\ requests = 0 /\ cuts = 0
            /\ sketch = [f \in Editable |-> 0] /\ behind = {}
            /\ made = [f \in Editable |->
                 IF f \in there THEN <<[text |-> text[f], from |-> 0, plain |-> FALSE]>> ELSE <<>>]
            /\ crossed = FALSE
  BY DEF Edit!Init
<1> DEFINE there == {f \in Editable : first.texts[f] # None}
           R(f) == [version |-> 1, text |-> first.texts[f], on |-> f \in first.on, plain |-> 0]
           M(f) == [text |-> first.texts[f], from |-> 0, plain |-> FALSE]
<1>2. /\ row = [f \in Editable |-> IF f \in there THEN R(f) ELSE None]
      /\ made = [f \in Editable |-> IF f \in there THEN <<M(f)>> ELSE <<>>]
      /\ kept = [f \in Editable |-> <<>>]
      /\ permissions = [r \in PanelRoles |->
           UNION {{f} \cup Needs[first.texts[f]] : f \in {g \in there \cap first.on : r \in Ticked[g]}}]
  BY <1>1
<1>3. page = [a \in Admins |-> None] /\ request = [a \in Admins |-> None] /\ requests = 0 /\ cuts = 0
        /\ crossed = FALSE /\ sketch = [f \in Editable |-> 0] /\ behind = {}
  BY <1>1
<1>4. first.texts \in [Editable -> Texts \cup {None}] /\ first.on \in SUBSET Editable
  BY DEF Edit!Given
<1>5. ASSUME NEW f \in there
      PROVE  /\ R(f) \in Edit!Rows /\ R(f).version = 1 /\ R(f).text = first.texts[f] /\ R(f).plain = 0
             /\ M(f) \in Edit!Made /\ M(f).text = first.texts[f]
  <2>1. PICK t \in Texts : t = first.texts[f]
    BY <1>4, <1>5
  <2>2. (f \in first.on) \in BOOLEAN
    OBVIOUS
  <2>3. PICK o \in BOOLEAN : o = (f \in first.on)
    BY <2>2
  <2>4. [version |-> 1, text |-> t, on |-> o, plain |-> 0] \in Edit!Rows
    BY DEF Edit!Rows
  <2>5. [text |-> t, from |-> 0, plain |-> FALSE] \in Edit!Made
    BY DEF Edit!Made
  <2> QED BY <2>1, <2>3, <2>4, <2>5
<1>6. \A f \in Editable : row[f] # None => f \in there
  BY <1>2
<1> HIDE DEF R, M, there
<1>7. ASSUME NEW f \in Editable
      PROVE  /\ row[f] \in Edit!Rows \cup {None} /\ made[f] \in Seq(Edit!Made) /\ kept[f] = <<>>
             /\ f \notin there => row[f] = None /\ made[f] = <<>>
             /\ f \in there => row[f] = R(f) /\ made[f] = <<M(f)>>
  BY <1>2, <1>5
<1>8. \A f \in Editable : kept[f] \in Snapshots /\ DOMAIN kept[f] = {}
  <2>1. {} \in SUBSET Nat /\ <<>> \in [{} -> Edit!Kept]
    OBVIOUS
  <2>2. <<>> \in Snapshots
    BY <2>1 DEF Snapshots
  <2> QED BY <1>7, <2>2
<1>9. permissions \in [PanelRoles -> SUBSET Edit!Keys]
  <2> SUFFICES ASSUME NEW r \in PanelRoles
               PROVE  UNION {{f} \cup Needs[first.texts[f]]
                      : f \in {g \in there \cap first.on : r \in Ticked[g]}} \in SUBSET Edit!Keys
    BY <1>2
  <2> SUFFICES ASSUME NEW f \in there
               PROVE  {f} \cup Needs[first.texts[f]] \subseteq Edit!Keys
    OBVIOUS
  <2>1. f \in Editable /\ first.texts[f] \in Texts
    BY <1>4 DEF there
  <2> QED BY <2>1 DEF Edit!Keys
<1>10. EditTyped
  <2>1. 0 \in 0..MaxRequests /\ 0 \in 0..MaxCuts
    BY DEF Edit!Given
  <2>2. row \in [Editable -> Edit!Rows \cup {None}] /\ made \in [Editable -> Seq(Edit!Made)]
          /\ kept \in [Editable -> Snapshots]
    BY <1>2, <1>7, <1>8
  <2> QED BY <1>3, <1>9, <2>1, <2>2 DEF EditTyped
<1>11. History
  <2>1. LastMade
    <3> SUFFICES ASSUME NEW f \in Editable, row[f] # None
                 PROVE  /\ made[f] # <<>>
                        /\ row[f].version = Len(made[f])
                        /\ row[f].text = made[f][Len(made[f])].text
      BY DEF LastMade, Edit!There
    <3>1. f \in there
      BY <1>6
    <3>2. PICK m \in Edit!Made : m = M(f) /\ m.text = first.texts[f]
      BY <1>5, <3>1
    <3>3. made[f] = <<m>> /\ row[f] = R(f)
      BY <1>7, <3>1, <3>2
    <3>4. made[f] # <<>> /\ Len(made[f]) = 1 /\ made[f][1] = m
      BY <3>3
    <3> QED BY <1>5, <3>1, <3>2, <3>3, <3>4
  <2>2. KeptIsMade
    BY <1>8 DEF KeptIsMade
  <2>3. MadeIsKept
    <3> SUFFICES ASSUME NEW f \in Editable, NEW v \in 1..Len(made[f]), v < Len(made[f]) \/ row[f] = None
                 PROVE  FALSE
      BY DEF MadeIsKept, Edit!There
    <3>1. CASE f \in there
      <4>1. PICK m \in Edit!Made : m = M(f)
        BY <1>5, <3>1
      <4>2. made[f] = <<m>> /\ row[f] = R(f) /\ R(f) # None
        BY <1>5, <1>7, <3>1, <4>1 DEF Edit!Given
      <4>3. Len(made[f]) = 1
        BY <4>2
      <4> QED BY <4>2, <4>3
    <3>2. CASE f \notin there
      BY <1>7, <3>2
    <3> QED BY <3>1, <3>2
  <2> QED BY <2>1, <2>2, <2>3 DEF History
<1>12. Going /\ Alone /\ Starting
  BY <1>3 DEF Going, Alone, Starting
<1>13. InWords
  <2> SUFFICES ASSUME NEW f \in Editable, row[f] # None
               PROVE  row[f].plain = 0
    BY <1>3 DEF InWords, SaysIt, WordsFit, Edit!There
  <2> QED BY <1>5, <1>6, <1>7
<1>14. Edit!EditsBuildOnTheLast
  <2> SUFFICES ASSUME NEW f \in Editable, NEW v \in DOMAIN made[f], v > 1
               PROVE  FALSE
    BY DEF Edit!EditsBuildOnTheLast, Edit!BuildsOn
  <2>1. CASE f \in there
    <3>1. PICK m \in Edit!Made : m = M(f)
      BY <1>5, <2>1
    <3>2. made[f] = <<m>>
      BY <1>7, <2>1, <3>1
    <3>3. v \in 1..1
      BY <3>2
    <3> QED BY <3>3
  <2>2. CASE f \notin there
    BY <1>7, <2>2
  <2> QED BY <2>1, <2>2
<1> QED BY <1>10, <1>11, <1>12, <1>13, <1>14 DEF EditInv

LEMMA WorkingKeeps ==
  ASSUME Edit!Given, EditInv, NEW a \in Admins, Edit!Working(a)
  PROVE  EditInv'
<1> USE DEF EditInv
<1>1. CASE Edit!Create(a)
  BY <1>1, CreateKeeps
<1>2. CASE Edit!CreateFails(a)
  BY <1>2, CreateFailsMoves, QuietKeeps
<1>3. CASE Edit!ReadBase(a)
  BY <1>3, ReadBaseKeeps
<1>4. CASE Edit!Save(a)
  BY <1>4, SaveKeeps
<1>5. CASE Edit!Refuse(a)
  BY <1>5, RefuseMoves, QuietKeeps
<1>6. CASE Edit!ReadGranted(a)
  BY <1>6, ReadGrantedMoves, QuietKeeps
<1>7. CASE Edit!ForgetPlain(a)
  BY <1>7, ForgetPlainKeeps
<1>8. CASE Edit!ReadRoles(a)
  BY <1>8, ReadRolesMoves, QuietKeeps
<1>9. CASE Edit!ReadOthers(a)
  BY <1>9, ReadOthersMoves, QuietKeeps
<1>10. CASE Edit!Grant(a)
  BY <1>10, GrantMoves, QuietKeeps
<1>11. CASE Edit!RoleFlow(a)
  BY <1>11, RoleFlowMoves, QuietKeeps
<1>12. CASE Edit!RoleDone(a)
  BY <1>12, RoleDoneMoves, QuietKeeps
<1>13. CASE Edit!SwitchReads(a)
  BY <1>13, SwitchReadsMoves, QuietKeeps DEF History
<1>14. CASE Edit!Flip(a)
  BY <1>14, FlipKeeps
<1>15. CASE Edit!Keep(a)
  BY <1>15, KeepKeeps
<1>16. CASE Edit!Remove(a)
  BY <1>16, RemoveKeeps
<1> QED BY <1>1, <1>2, <1>3, <1>4, <1>5, <1>6, <1>7, <1>8, <1>9, <1>10, <1>11, <1>12, <1>13, <1>14, <1>15, <1>16
        DEF Edit!Working

LEMMA PagingKeeps ==
  ASSUME Edit!Given, EditInv, NEW a \in Admins, Edit!Paging(a)
  PROVE  EditInv'
BY OpenEditorKeeps, OpenPlainKeeps, KeepDraftKeeps, DropDraftKeeps, CloseKeeps DEF Edit!Paging

LEMMA EditNextKeeps ==
  ASSUME Edit!Given, EditInv, [Edit!Next]_(Edit!vars)
  PROVE  EditInv'
<1>1. ASSUME NEW a \in Admins, Edit!Paging(a)
      PROVE  EditInv'
  BY <1>1, PagingKeeps
<1>3. ASSUME NEW f \in Editable, Edit!Convert(f)
      PROVE  EditInv'
  BY <1>3, ConvertKeeps
<1>4. ASSUME NEW a \in Admins, Edit!Asking(a)
      PROVE  EditInv'
  <2>1. PICK q \in Edit!Asks : Begins(a, q)
    BY <1>4, AskingBegins DEF EditInv
  <2> QED BY <2>1, BeginKeeps
<1>5. ASSUME NEW a \in Admins, Edit!Working(a)
      PROVE  EditInv'
  BY <1>5, WorkingKeeps
<1>6. ASSUME NEW a \in Admins, Edit!Cut(a)
      PROVE  EditInv'
  BY <1>6, CutKeeps
<1>7. CASE UNCHANGED Edit!vars
  <2>1. UNCHANGED <<row, kept, permissions, page, request, requests, cuts, sketch, behind, made, crossed>>
    BY <1>7 DEF Edit!vars, Edit!history, Edit!drafts
  <2>2. EditTyped'
    <3>1. \A a \in Admins : request'[a] # None => Sound(request[a])'
      BY <2>1 DEF EditInv, EditTyped, Sound
    <3> QED BY <2>1, <3>1 DEF EditInv, EditTyped
  <2>3. History'
    BY <2>1 DEF EditInv, History, LastMade, KeptIsMade, MadeIsKept, Edit!There
  <2>4. Going' /\ Alone'
    BY <2>1 DEF EditInv, Going, Goes, Alone
  <2>5. Starting'
    BY <2>1 DEF EditInv, Starting, Starts, Opened, Edit!Calm, Edit!There
  <2>6. InWords'
    BY <2>1 DEF EditInv, InWords, SaysIt, WordsFit, Drops, Edit!Calm, Edit!There
  <2>7. Edit!EditsBuildOnTheLast'
    BY <2>1 DEF EditInv, Edit!EditsBuildOnTheLast, Edit!BuildsOn, Edit!Calm
  <2> QED BY <2>2, <2>3, <2>4, <2>5, <2>6, <2>7 DEF EditInv
<1> QED BY <1>1, <1>3, <1>4, <1>5, <1>6, <1>7 DEF Edit!Next

LEMMA EditInvHolds ==
  ASSUME Edit!Given
  PROVE  Edit!Spec => []EditInv
<1>1. Edit!Init => EditInv
  BY EditInitKeeps
<1>2. EditInv /\ [Edit!Next]_(Edit!vars) => EditInv'
  BY EditNextKeeps
<1> QED BY <1>1, <1>2, PTL DEF Edit!Spec

-----------------------------------------------------------------------------
(* The order of flows and blocks *)

Size == Cardinality(Editable)

LEMMA EditableIsFinite ==
  ASSUME Edit!Given
  PROVE  IsFiniteSet(Editable) /\ Size \in Nat /\ Edit!Cardinality(Editable) = Size
<1>1. IsFiniteSet(Editable)
  BY DEF Edit!Given, Edit!IsFiniteSet, IsFiniteSet
<1>2. Edit!Cardinality(Editable) = Size
  BY DEF Edit!Cardinality, Cardinality, Size
<1> QED BY <1>1, <1>2, FS_CardinalityType DEF Size

\* Numbers for the members of a finite set can be replaced by some from one to its size, in the same order.
LEMMA Renumber ==
  ASSUME NEW S, IsFiniteSet(S), NEW h \in [S -> Nat]
  PROVE  \E p \in [S -> 1..Cardinality(S)] : \A x, y \in S : h[x] < h[y] => p[x] < p[y]
<1> DEFINE Up(x) == {z \in S : h[z] <= h[x]}
           p == [x \in S |-> Cardinality(Up(x))]
<1>1. ASSUME NEW x \in S
      PROVE  IsFiniteSet(Up(x)) /\ Cardinality(Up(x)) \in 1..Cardinality(S)
  <2>1. Up(x) \in SUBSET S /\ x \in Up(x)
    BY <1>1
  <2> HIDE DEF Up
  <2>2. IsFiniteSet(Up(x)) /\ Cardinality(Up(x)) <= Cardinality(S)
    BY <2>1, FS_Subset
  <2>3. Cardinality(Up(x)) \in Nat /\ Cardinality(Up(x)) # 0 /\ Cardinality(S) \in Nat
    BY <2>1, <2>2, FS_EmptySet, FS_CardinalityType
  <2> QED BY <2>2, <2>3
<1>2. p \in [S -> 1..Cardinality(S)]
  BY <1>1
<1>3. ASSUME NEW x \in S, NEW y \in S, h[x] < h[y]
      PROVE  Cardinality(Up(x)) < Cardinality(Up(y))
  <2>1. h[x] \in Nat /\ h[y] \in Nat /\ \A z \in S : h[z] \in Nat
    BY <1>3
  <2>2. Up(x) \in SUBSET Up(y) /\ y \in Up(y) /\ y \notin Up(x)
    BY <1>3, <2>1
  <2>3. IsFiniteSet(Up(y)) /\ IsFiniteSet(Up(x))
    BY <1>1
  <2> HIDE DEF Up
  <2>4. Cardinality(Up(x)) <= Cardinality(Up(y)) /\ Cardinality(Up(y)) # Cardinality(Up(x))
    BY <2>2, <2>3, FS_Subset
  <2>5. Cardinality(Up(x)) \in Nat /\ Cardinality(Up(y)) \in Nat
    BY <2>3, FS_CardinalityType
  <2> QED BY <2>4, <2>5
<1>4. \A x, y \in S : h[x] < h[y] => p[x] < p[y]
  BY <1>3
<1> HIDE DEF p
<1> QED BY <1>2, <1>4

\* The steps of the flows there are.
There == [g \in Editable |-> IF Edit!There(g) THEN row[g].text ELSE None]
Tables == [Editable -> Texts \cup {None}]

\* What the steps t of f run, and all that this runs in turn, is there and is not f.
Clear(w, f, t) == \E R \in SUBSET Editable :
  /\ Uses[t] \subseteq R /\ f \notin R
  /\ \A g \in Uses[t] : w[g] # None
  /\ \A g \in R : w[g] # None => Uses[w[g]] \subseteq R

\* Nothing there runs f.
Unused(w, f) == \A g \in Editable : w[g] # None => f \notin Uses[w[g]]

\* A flow whose new steps were found clear can be given them: it goes behind all it runs.
LEMMA PutInOrder ==
  ASSUME Edit!Given, NEW w \in Tables, Edit!InOrder(w), NEW f \in Editable, NEW t \in Texts, Clear(w, f, t)
  PROVE  Edit!InOrder([w EXCEPT ![f] = t])
<1>1. IsFiniteSet(Editable) /\ Size \in Nat /\ Edit!Cardinality(Editable) = Size
  BY EditableIsFinite
<1>2. PICK place \in [Editable -> 1..Size] :
        \A g \in Editable : w[g] # None => \A b \in Uses[w[g]] : w[b] # None /\ place[b] < place[g]
  BY <1>1 DEF Edit!InOrder
<1>3. PICK R \in SUBSET Editable :
        /\ Uses[t] \subseteq R /\ f \notin R
        /\ \A g \in Uses[t] : w[g] # None
        /\ \A g \in R : w[g] # None => Uses[w[g]] \subseteq R
  BY DEF Clear
<1>4. PICK h : h = [g \in Editable |-> IF g \in R THEN place[g] ELSE place[g] + Size]
  OBVIOUS
<1>5. \A g \in Editable : place[g] \in 1..Size /\ h[g] = IF g \in R THEN place[g] ELSE place[g] + Size
  BY <1>2, <1>4
<1>6. h \in [Editable -> Nat]
  BY <1>1, <1>4, <1>5
<1>7. PICK p \in [Editable -> 1..Size] : \A x, y \in Editable : h[x] < h[y] => p[x] < p[y]
  BY <1>1, <1>6, Renumber DEF Size
<1>8. PICK v : v = [w EXCEPT ![f] = t]
  OBVIOUS
<1>9. v[f] = t /\ \A g \in Editable \ {f} : v[g] = w[g]
  BY <1>8 DEF Tables
<1>10. \A u \in Texts : Uses[u] \subseteq Editable
  BY DEF Edit!Given
<1>11. t # None
  BY DEF Edit!Given
<1>12. ASSUME NEW g \in Editable, v[g] # None, NEW b \in Uses[v[g]]
       PROVE  v[b] # None /\ p[b] < p[g]
  <2>1. CASE g = f
    <3>1. b \in Uses[t] /\ b \in R /\ b \in Editable /\ b # f
      BY <1>3, <1>9, <1>12, <2>1
    <3>2. v[b] # None
      BY <1>3, <1>9, <3>1
    <3>3. h[b] < h[g]
      BY <1>1, <1>3, <1>5, <2>1, <3>1
    <3> QED BY <1>7, <2>1, <3>1, <3>2, <3>3
  <2>2. CASE g # f
    <3>1. w[g] # None /\ v[g] = w[g] /\ w[g] \in Texts
      BY <1>9, <1>12, <2>2 DEF Tables
    <3>2. b \in Uses[w[g]] /\ b \in Editable
      BY <1>10, <1>12, <3>1
    <3>3. w[b] # None /\ place[b] < place[g]
      BY <1>2, <3>1, <3>2
    <3>4. g \in R => b \in R
      BY <1>3, <3>1, <3>2
    <3>5. h[b] < h[g]
      BY <1>1, <1>5, <3>2, <3>3, <3>4
    <3>6. v[b] # None
      BY <1>9, <1>11, <3>2, <3>3
    <3> QED BY <1>7, <3>2, <3>5, <3>6
  <2> QED BY <2>1, <2>2
<1> QED BY <1>1, <1>7, <1>8, <1>12 DEF Edit!InOrder

\* One that nothing runs can be taken away.
LEMMA TakenInOrder ==
  ASSUME Edit!Given, NEW w \in Tables, Edit!InOrder(w), NEW f \in Editable, Unused(w, f)
  PROVE  Edit!InOrder([w EXCEPT ![f] = None])
<1>1. PICK place \in [Editable -> 1..Edit!Cardinality(Editable)] :
        \A g \in Editable : w[g] # None => \A b \in Uses[w[g]] : w[b] # None /\ place[b] < place[g]
  BY DEF Edit!InOrder
<1>2. PICK v : v = [w EXCEPT ![f] = None]
  OBVIOUS
<1>3. v[f] = None /\ \A g \in Editable \ {f} : v[g] = w[g]
  BY <1>2 DEF Tables
<1>4. ASSUME NEW g \in Editable, v[g] # None, NEW b \in Uses[v[g]]
      PROVE  v[b] # None /\ place[b] < place[g]
  <2>1. g # f /\ w[g] # None /\ w[g] \in Texts /\ b \in Uses[w[g]]
    BY <1>3, <1>4 DEF Tables
  <2>2. b \in Editable /\ b # f
    BY <2>1 DEF Unused, Edit!Given
  <2> QED BY <1>1, <1>3, <2>1, <2>2
<1> QED BY <1>1, <1>2, <1>4 DEF Edit!InOrder

-----------------------------------------------------------------------------
(* What validate_steps finds *)

\* What the flows of S but f run.
Below(S, f) == UNION {Uses[row[g].text] : g \in {h \in S \ {f} : Edit!There(h)}}

\* As far as Fit looks.
Search(f, t) ==
  LET below[n \in 0..Cardinality(Editable)] ==
        IF n = 0 THEN Uses[t]
        ELSE below[n - 1] \cup UNION {Uses[row[g].text] : g \in {h \in below[n - 1] \ {f} : Edit!There(h)}}
  IN  below

LEMMA FitSearches ==
  ASSUME NEW f, NEW t, Edit!Fit(f, t)
  PROVE  f \notin Search(f, t)[Size] /\ \A g \in Uses[t] : Edit!There(g)
BY DEF Edit!Fit, Search, Size, Edit!Cardinality, Cardinality

\* The first k steps of the search.
Searches(s, k, f, t) ==
  /\ s = [n \in 0..k |-> IF n = 0 THEN Uses[t] ELSE s[n - 1] \cup Below(s[n - 1], f)]

LEMMA SomethingSearches ==
  ASSUME NEW f, NEW t, NEW m \in Nat
  PROVE  \E s : Searches(s, m, f, t)
<1> DEFINE T == {k \in Nat : ~\E s : Searches(s, k, f, t)}
<1>1. SUFFICES ASSUME T # {} PROVE FALSE
  OBVIOUS
<1>2. PICK k \in T : \A y \in T : k <= y
  BY <1>1, LeastNumber
<1>3. CASE k = 0
  <2>1. PICK s : s = [n \in 0..0 |-> Uses[t]]
    OBVIOUS
  <2>2. s = [n \in 0..0 |-> IF n = 0 THEN Uses[t] ELSE s[n - 1] \cup Below(s[n - 1], f)]
    BY <2>1
  <2> QED BY <1>2, <1>3, <2>2 DEF Searches
<1>4. CASE k # 0
  <2>1. k \in Nat /\ k - 1 \in Nat /\ k - 1 \notin T
    BY <1>2, <1>4
  <2>2. PICK s : s = [n \in 0..(k - 1) |-> IF n = 0 THEN Uses[t] ELSE s[n - 1] \cup Below(s[n - 1], f)]
    BY <2>1 DEF Searches
  <2>3. PICK more : more = s[k - 1] \cup Below(s[k - 1], f)
    OBVIOUS
  <2>4. PICK h : h = [n \in 0..k |-> IF n = k THEN more ELSE s[n]]
    OBVIOUS
  <2>5. \A n \in 0..(k - 1) : h[n] = s[n]
    BY <2>1, <2>4
  <2>6. PICK e : e = [n \in 0..k |-> IF n = 0 THEN Uses[t] ELSE h[n - 1] \cup Below(h[n - 1], f)]
    OBVIOUS
  <2>7. ASSUME NEW n \in 0..k
        PROVE  h[n] = e[n]
    <3>1. CASE n = 0
      <4>1. 0 \in 0..(k - 1) /\ s[0] = Uses[t]
        BY <2>1, <2>2
      <4> QED BY <2>5, <2>6, <3>1, <4>1
    <3>2. CASE n # 0
      <4>1. n - 1 \in 0..(k - 1) /\ h[n - 1] = s[n - 1]
        BY <2>1, <2>5, <3>2
      <4>2. e[n] = s[n - 1] \cup Below(s[n - 1], f)
        BY <2>6, <3>2, <4>1
      <4>3. CASE n = k
        BY <2>3, <2>4, <4>2, <4>3
      <4>4. CASE n # k
        <5>1. n \in 0..(k - 1)
          BY <2>1, <4>4
        <5>2. s[n] = s[n - 1] \cup Below(s[n - 1], f)
          BY <2>2, <3>2, <5>1
        <5> QED BY <2>5, <4>2, <5>1, <5>2
      <4> QED BY <4>3, <4>4
    <3> QED BY <3>1, <3>2
  <2>8. h = e
    BY <2>4, <2>6, <2>7
  <2>9. Searches(h, k, f, t)
    BY <2>6, <2>8 DEF Searches
  <2> QED BY <1>2, <2>9
<1> QED BY <1>3, <1>4

LEMMA SearchSteps ==
  ASSUME Edit!Given, NEW f, NEW t, NEW u, u = Search(f, t)
  PROVE  /\ u[0] = Uses[t]
         /\ \A n \in 1..Size : u[n] = u[n - 1] \cup Below(u[n - 1], f)
<1>1. Size \in Nat
  BY EditableIsFinite
<1>2. PICK s : Searches(s, Size, f, t)
  BY <1>1, SomethingSearches
<1>3. s = [n \in 0..Size |-> IF n = 0 THEN Uses[t] ELSE s[n - 1]
             \cup UNION {Uses[row[g].text] : g \in {h \in s[n - 1] \ {f} : Edit!There(h)}}]
  BY <1>2 DEF Searches, Below
<1>4. u = [n \in 0..Size |-> IF n = 0 THEN Uses[t] ELSE u[n - 1]
             \cup UNION {Uses[row[g].text] : g \in {h \in u[n - 1] \ {f} : Edit!There(h)}}]
  BY <1>3 DEF Search, Size
<1>5. u = [n \in 0..Size |-> IF n = 0 THEN Uses[t] ELSE u[n - 1] \cup Below(u[n - 1], f)]
  BY <1>4 DEF Below
<1>6. u[0] = Uses[t]
  BY <1>1, <1>5
<1>7. ASSUME NEW n \in 1..Size
      PROVE  u[n] = u[n - 1] \cup Below(u[n - 1], f)
  <2>1. n \in 0..Size /\ n # 0
    BY <1>1, <1>7
  <2> QED BY <1>5, <2>1
<1> QED BY <1>6, <1>7

\* The search ends at a set of flows that run only members of it.
LEMMA FitIsClear ==
  ASSUME Edit!Given, EditTyped, NEW f \in Editable, NEW t \in Texts, Edit!Fit(f, t)
  PROVE  Clear(There, f, t)
<1>1. IsFiniteSet(Editable) /\ Size \in Nat
  BY EditableIsFinite
<1>2. PICK u : u = Search(f, t)
  OBVIOUS
<1>3. f \notin u[Size] /\ \A g \in Uses[t] : Edit!There(g)
  BY <1>2, FitSearches
<1>4. /\ u[0] = Uses[t]
      /\ \A n \in 1..Size : u[n] = u[n - 1] \cup Below(u[n - 1], f)
  BY <1>2, SearchSteps
<1>5. \A k \in Texts : Uses[k] \subseteq Editable
  BY DEF Edit!Given
<1>6. ASSUME NEW S \in SUBSET Editable
      PROVE  Below(S, f) \subseteq Editable
  <2> SUFFICES ASSUME NEW g \in S, Edit!There(g)
               PROVE  Uses[row[g].text] \subseteq Editable
    BY DEF Below
  <2>1. row[g].text \in Texts
    BY RowIsOne
  <2> QED BY <1>5, <2>1
<1>7. \A n \in 0..Size : u[n] \in SUBSET Editable /\ Uses[t] \subseteq u[n]
  <2> DEFINE T == {n \in 0..Size : ~(u[n] \in SUBSET Editable /\ Uses[t] \subseteq u[n])}
  <2>1. SUFFICES ASSUME T # {} PROVE FALSE
    OBVIOUS
  <2>2. T \in SUBSET Nat
    BY <1>1
  <2>3. PICK n \in T : \A y \in T : n <= y
    BY <2>1, <2>2, LeastNumber
  <2>4. n # 0
    BY <1>4, <1>5, <2>3
  <2>5. n \in 1..Size /\ n - 1 \in 0..Size /\ n - 1 \notin T
    BY <1>1, <2>2, <2>3, <2>4
  <2>6. u[n - 1] \in SUBSET Editable /\ Uses[t] \subseteq u[n - 1]
    BY <2>5
  <2>7. u[n] = u[n - 1] \cup Below(u[n - 1], f) /\ Below(u[n - 1], f) \subseteq Editable
    BY <1>4, <1>6, <2>5, <2>6
  <2> QED BY <2>3, <2>6, <2>7
<1> DEFINE Stops(n) == Below(u[n], f) \subseteq u[n]
<1>8. ASSUME NEW n \in 0..Size, Stops(n)
      PROVE  Stops(Size)
  <2> DEFINE T == {k \in 0..Size : Stops(Size - k)}
  <2>1. T \in SUBSET Nat /\ Size - n \in T
    BY <1>1, <1>8
  <2>2. PICK k \in T : \A y \in T : k <= y
    BY <2>1, LeastNumber
  <2>3. CASE k = 0
    BY <1>1, <2>2, <2>3
  <2>4. CASE k # 0
    <3>1. k \in 1..Size /\ k - 1 \in 0..Size /\ k - 1 \notin T /\ Size - k \in Nat
      BY <1>1, <2>1, <2>2, <2>4
    <3>2. PICK m : m = Size - k
      OBVIOUS
    <3>3. m + 1 \in 1..Size /\ (m + 1) - 1 = m /\ Size - (k - 1) = m + 1
      BY <1>1, <3>1, <3>2
    <3>4. Stops(m)
      BY <2>2, <3>2
    <3>5. u[m + 1] = u[m] \cup Below(u[m], f)
      BY <1>4, <3>3
    <3>6. u[m + 1] = u[m]
      BY <3>4, <3>5
    <3>7. Stops(m + 1)
      BY <3>4, <3>6
    <3> QED BY <3>1, <3>3, <3>7
  <2> QED BY <2>3, <2>4
<1>9. Stops(Size)
  <2> SUFFICES ASSUME ~Stops(Size) PROVE FALSE
    OBVIOUS
  <2> DEFINE T == {n \in 0..Size : ~(n <= Cardinality(u[n]))}
  <2>1. \A n \in 0..Size : IsFiniteSet(u[n]) /\ Cardinality(u[n]) \in Nat
    BY <1>1, <1>7, FS_Subset, FS_CardinalityType
  <2>2. T = {}
    <3> SUFFICES ASSUME T # {} PROVE FALSE
      OBVIOUS
    <3>1. T \in SUBSET Nat
      BY <1>1
    <3>2. PICK n \in T : \A y \in T : n <= y
      BY <3>1, LeastNumber
    <3>3. n \in 0..Size /\ n # 0
      BY <1>1, <2>1, <3>2
    <3>4. n \in 1..Size /\ n - 1 \in 0..Size /\ n - 1 \notin T
      BY <1>1, <3>1, <3>2, <3>3
    <3>5. n - 1 <= Cardinality(u[n - 1])
      BY <3>4
    <3>6. u[n] = u[n - 1] \cup Below(u[n - 1], f) /\ ~Stops(n - 1)
      BY <1>4, <1>8, <3>4
    <3>7. u[n - 1] \in SUBSET u[n] /\ u[n - 1] # u[n]
      BY <3>6
    <3>8. Cardinality(u[n - 1]) <= Cardinality(u[n]) /\ Cardinality(u[n - 1]) # Cardinality(u[n])
      BY <2>1, <3>3, <3>7, FS_Subset
    <3>9. Cardinality(u[n - 1]) \in Nat /\ Cardinality(u[n]) \in Nat
      BY <2>1, <3>4
    <3>10. n <= Cardinality(u[n])
      BY <3>1, <3>4, <3>5, <3>8, <3>9
    <3> QED BY <3>2, <3>10
  <2>3. Size \in 0..Size /\ u[Size] \in SUBSET Editable
    BY <1>1, <1>7
  <2>4. Size <= Cardinality(u[Size])
    BY <2>2, <2>3
  <2>5. Cardinality(u[Size]) <= Cardinality(Editable) /\ (Cardinality(Editable) = Cardinality(u[Size])
          => Editable = u[Size])
    BY <1>1, <2>3, FS_Subset
  <2>6. u[Size] = Editable
    BY <1>1, <2>1, <2>3, <2>4, <2>5 DEF Size
  <2> QED BY <1>6, <2>3, <2>6
<1>10. PICK R : R = u[Size]
  OBVIOUS
<1>11. R \in SUBSET Editable /\ Uses[t] \subseteq R /\ f \notin R
  BY <1>1, <1>3, <1>7, <1>10
<1>12. ASSUME NEW g \in R, There[g] # None
       PROVE  Uses[There[g]] \subseteq R
  <2>1. g \in Editable /\ g # f
    BY <1>11, <1>12
  <2>2. Edit!There(g) /\ There[g] = row[g].text
    BY <1>12, <2>1 DEF There
  <2>3. Uses[row[g].text] \subseteq Below(R, f)
    BY <2>1, <2>2 DEF Below
  <2> QED BY <1>9, <1>10, <2>2, <2>3
<1>13. ASSUME NEW g \in Uses[t]
       PROVE  There[g] # None
  <2>1. g \in Editable /\ Edit!There(g)
    BY <1>3, <1>5
  <2>2. row[g].text \in Texts
    BY <2>1, RowIsOne
  <2> QED BY <2>1, <2>2 DEF There, Edit!Given
<1> QED BY <1>11, <1>12, <1>13 DEF Clear

-----------------------------------------------------------------------------
(* The blocks are there *)

\* What a request has found out of what flows run: the steps it saves are clear, or nothing runs what it deletes.
Fits(q) ==
  /\ q.kind = "save" /\ q.stage = "save" => Clear(There, q.flow, q.text)
  /\ q.kind = "create" /\ q.stage = "create" => Clear(There, q.flow, q.text) /\ made[q.flow] = <<>>
  /\ q.kind = "delete" => Unused(There, q.flow)

\* While requests come one at a time, what was found still holds.
Blocked == ~crossed =>
  /\ Edit!InOrder(There)
  /\ \A a \in Admins : request[a] # None => Fits(request[a])

LEMMA ThereIsTable ==
  ASSUME EditTyped
  PROVE  There \in Tables
<1>1. \A f \in Editable : Edit!There(f) => row[f].text \in Texts
  BY RowIsOne
<1> QED BY <1>1 DEF There, Tables

\* Of a step that leaves the flows as they are only the requests matter.
LEMMA BlocksStay ==
  ASSUME Blocked, There' = There, made' = made, crossed => crossed',
         ASSUME NEW b \in Admins, ~crossed', request'[b] # None
         PROVE  request'[b] = request[b] \/ Fits(request[b])'
  PROVE  Blocked'
<1> SUFFICES ASSUME ~crossed'
             PROVE  /\ Edit!InOrder(There')
                    /\ \A a \in Admins : request'[a] # None => Fits(request[a])'
  BY DEF Blocked, Edit!InOrder
<1>1. Edit!InOrder(There')
  BY DEF Blocked
<1>2. ASSUME NEW b \in Admins, request'[b] # None
      PROVE  Fits(request[b])'
  <2>1. CASE request'[b] = request[b]
    <3>1. Fits(request[b])
      BY <1>2, <2>1 DEF Blocked
    <3> QED BY <2>1, <3>1 DEF Fits
  <2> QED BY <1>2, <2>1
<1> QED BY <1>1, <1>2

LEMMA QuietBlocks ==
  ASSUME Edit!Given, EditInv, Blocked, NEW a \in Admins, Quiet(a)
  PROVE  Blocked'
<1>1. PICK x \in Edit!Asks \cup {None} : Moves(a, x)
  BY DEF Quiet
<1>2. UNCHANGED <<row, made, crossed>>
  BY DEF Quiet
<1>3. There' = There
  BY <1>2 DEF There, Edit!There
<1>4. request'[a] = x /\ \A b \in Admins \ {a} : request'[b] = request[b]
  BY <1>1, MoveSeen DEF EditInv
<1>5. ASSUME NEW b \in Admins, ~crossed', request'[b] # None
      PROVE  request'[b] = request[b] \/ Fits(request[b])'
  <2>1. CASE b # a
    BY <1>4, <2>1
  <2>2. CASE b = a
    <3>1. /\ x.kind = request[a].kind /\ x.stage \notin {"save", "create"}
          /\ x.kind = "delete" => x.flow = request[a].flow
      BY <1>1, <1>4, <1>5, <2>2 DEF Moves, Syncing
    <3>2. Fits(request[a])
      BY <1>1, <1>2, <1>5 DEF Blocked, Moves
    <3>3. x.kind = "delete" => Unused(There, x.flow)
      BY <3>1, <3>2 DEF Fits
    <3>4. request'[b] = x
      BY <1>4, <2>2
    <3> QED BY <1>3, <3>1, <3>3, <3>4 DEF Fits
  <2> QED BY <2>1, <2>2
<1> QED BY <1>2, <1>3, <1>5, BlocksStay

\* A step after which requests are as they were, or over.
LEMMA OverBlocks ==
  ASSUME Blocked, Stays, There' = There, made' = made, crossed => crossed'
  PROVE  Blocked'
BY BlocksStay DEF Stays

LEMMA RelabelThere ==
  ASSUME Relabels
  PROVE  There' = There
<1>1. \A f \in Editable : There'[f] = There[f]
  BY DEF Relabels, There, Edit!There
<1> QED BY <1>1 DEF There

\* What is asked for is the only request, unless requests cross.
LEMMA AskIsAlone ==
  ASSUME EditTyped, NEW a \in Admins, NEW q, Edit!Ask(a, q), ~crossed'
  PROVE  ~crossed /\ request'[a] = q /\ \A b \in Admins \ {a} : request[b] = None /\ request'[b] = None
<1>1. request' = [request EXCEPT ![a] = q] /\ crossed' = (crossed \/ \E b \in Admins \ {a} : request[b] # None)
  BY DEF Edit!Ask
<1>2. request \in [Admins -> Edit!Asks \cup {None}]
  BY DEF EditTyped
<1>3. request'[a] = q /\ \A b \in Admins \ {a} : request'[b] = request[b]
  BY <1>1, <1>2
<1>4. ~crossed /\ \A b \in Admins \ {a} : request[b] = None
  BY <1>1
<1> QED BY <1>3, <1>4

LEMMA SaveFits ==
  ASSUME Edit!Given, EditTyped, NEW a \in Admins, NEW t \in Texts, Edit!AskSave(a, t), ~crossed'
  PROVE  Fits(request[a])'
<1> DEFINE p == page[a]
           q == [Edit!Sent EXCEPT !.kind = "save", !.stage = "save", !.flow = p.flow, !.base = p.base,
                  !.from = p.from,
                    !.plain = p.plain, !.text = t]
<1>1. page[a] # None /\ Edit!Fit(p.flow, t) /\ Edit!Ask(a, q) /\ UNCHANGED row
  BY DEF Edit!AskSave
<1>2. q.kind = "save" /\ q.flow = p.flow /\ q.text = t
  BY SentIsOne DEF Edit!Asks
<1>3. p.flow \in Editable
  BY <1>1 DEF EditTyped, Edit!Pages
<1> HIDE DEF q
<1>4. request'[a] = q
  BY <1>1, AskIsAlone
<1>5. Clear(There, q.flow, q.text)
  BY <1>1, <1>2, <1>3, FitIsClear
<1>6. There' = There
  BY <1>1 DEF There, Edit!There
<1> QED BY <1>2, <1>4, <1>5, <1>6 DEF Fits

LEMMA RestoreFits ==
  ASSUME Edit!Given, EditTyped, NEW a \in Admins, NEW v, Edit!AskRestore(a, v), ~crossed'
  PROVE  Fits(request[a])'
<1> DEFINE p == page[a]
           t == kept[p.flow][v].text
           q == [Edit!Sent EXCEPT !.kind = "save", !.stage = "save", !.flow = p.flow, !.base = p.base,
                  !.from = p.base,
                    !.text = t]
<1>1. page[a] # None /\ v \in DOMAIN kept[p.flow] /\ Edit!Fit(p.flow, t) /\ Edit!Ask(a, q) /\ UNCHANGED row
  BY DEF Edit!AskRestore
<1>2. q.kind = "save" /\ q.flow = p.flow /\ q.text = t
  BY SentIsOne DEF Edit!Asks
<1>3. p.flow \in Editable
  BY <1>1 DEF EditTyped, Edit!Pages
<1>4. t \in Texts
  BY <1>1, <1>3, KeptHasSteps
<1> HIDE DEF q, t
<1>5. request'[a] = q
  BY <1>1, AskIsAlone
<1>6. Clear(There, q.flow, q.text)
  BY <1>1, <1>2, <1>3, <1>4, FitIsClear
<1>7. There' = There
  BY <1>1 DEF There, Edit!There
<1> QED BY <1>2, <1>5, <1>6, <1>7 DEF Fits

LEMMA NewFits ==
  ASSUME Edit!Given, EditTyped, NEW a \in Admins, NEW f \in Editable, NEW t \in Texts, NEW plain \in BOOLEAN,
         Edit!AskCreate(a, f, t, plain), ~crossed'
  PROVE  Fits(request[a])'
<1> DEFINE q == [Edit!Sent EXCEPT !.kind = "create", !.stage = "create", !.flow = f, !.base = 1, !.from = 1,
        !.plain = plain,
                    !.text = t]
<1>1. made[f] = <<>> /\ Edit!Fit(f, t) /\ Edit!Ask(a, q) /\ UNCHANGED <<row, made>>
  BY DEF Edit!AskCreate
<1>2. q.kind = "create" /\ q.flow = f /\ q.text = t
  BY SentIsOne DEF Edit!Asks
<1> HIDE DEF q
<1>3. request'[a] = q
  BY <1>1, AskIsAlone
<1>4. Clear(There, q.flow, q.text)
  BY <1>1, <1>2, FitIsClear
<1>5. There' = There
  BY <1>1 DEF There, Edit!There
<1> QED BY <1>1, <1>2, <1>3, <1>4, <1>5 DEF Fits

\* where_used finds nothing, and no flow runs itself.
LEMMA DeleteFits ==
  ASSUME Edit!Given, EditTyped, Blocked, NEW a \in Admins, NEW f \in Editable, Edit!AskDelete(a, f), ~crossed'
  PROVE  Fits(request[a])'
<1> DEFINE q == [Edit!Sent EXCEPT !.kind = "delete", !.stage = "keep", !.flow = f, !.text = row[f].text,
                    !.base = row[f].version]
<1>1. Edit!MayGo(f) /\ Edit!Ask(a, q) /\ UNCHANGED row
  BY DEF Edit!AskDelete
<1>2. q.kind = "delete" /\ q.flow = f
  BY SentIsOne DEF Edit!Asks
<1> HIDE DEF q
<1>3. request'[a] = q /\ ~crossed
  BY <1>1, AskIsAlone
<1>4. PICK w : w = There
  OBVIOUS
<1>5. PICK place \in [Editable -> 1..Edit!Cardinality(Editable)] :
        \A g \in Editable : w[g] # None => \A b \in Uses[w[g]] : w[b] # None /\ place[b] < place[g]
  BY <1>3, <1>4 DEF Blocked, Edit!InOrder
<1>6. Size \in Nat /\ Edit!Cardinality(Editable) = Size
  BY EditableIsFinite
<1>7. ~(place[f] < place[f])
  BY <1>5, <1>6
<1>8. ASSUME NEW g \in Editable, w[g] # None, f \in Uses[w[g]]
      PROVE  FALSE
  <2>1. g # f
    BY <1>5, <1>7, <1>8
  <2>2. Edit!There(g) /\ w[g] = row[g].text
    BY <1>4, <1>8 DEF There
  <2>3. g \in Edit!UsedBy(f)
    BY <1>8, <2>1, <2>2 DEF Edit!UsedBy
  <2> QED BY <1>1, <2>3 DEF Edit!MayGo
<1>9. Unused(There, f)
  BY <1>4, <1>8 DEF Unused
<1>10. There' = There
  BY <1>1 DEF There, Edit!There
<1> QED BY <1>2, <1>3, <1>9, <1>10 DEF Fits

LEMMA OtherAsksFit ==
  ASSUME Edit!Given, EditTyped, NEW a \in Admins, ~crossed',
         \/ \E f \in Editable, R \in SUBSET PanelRoles : Edit!AskRoles(a, f, R)
         \/ \E r \in PanelRoles, W \in SUBSET (Editable \ Blocks) : Edit!AskRole(a, r, W)
         \/ \E f \in Editable : Edit!AskSwitch(a, f)
  PROVE  Fits(request[a])'
<1>1. PICK q : Edit!Ask(a, q) /\ q.kind \in {"roles", "role", "switch"}
  <2>1. ASSUME NEW f \in Editable, NEW R \in SUBSET PanelRoles, Edit!AskRoles(a, f, R)
        PROVE  \E q : Edit!Ask(a, q) /\ q.kind \in {"roles", "role", "switch"}
    <3> DEFINE q == [Edit!Sent EXCEPT !.kind = "roles", !.stage = "roles", !.flow = f, !.text = row[f].text,
           !.roles = R]
    <3>1. Edit!Ask(a, q)
      BY <2>1 DEF Edit!AskRoles
    <3>2. q.kind = "roles"
      BY SentIsOne DEF Edit!Asks
    <3> QED BY <3>1, <3>2
  <2>2. ASSUME NEW r \in PanelRoles, NEW W \in SUBSET (Editable \ Blocks), Edit!AskRole(a, r, W)
        PROVE  \E q : Edit!Ask(a, q) /\ q.kind \in {"roles", "role", "switch"}
    <3> DEFINE T == {[flow |-> f, text |-> row[f].text, wanted |-> f \in W]
                       : f \in {g \in Editable \ Blocks : Edit!There(g)}}
               q == [Edit!Sent EXCEPT !.kind = "role", !.stage = "next", !.role = r, !.todo = T]
    <3>1. Edit!Ask(a, q)
      BY <2>2 DEF Edit!AskRole
    <3> HIDE DEF T
    <3>2. q.kind = "role"
      BY SentIsOne DEF Edit!Asks
    <3> QED BY <3>1, <3>2
  <2>3. ASSUME NEW f \in Editable, Edit!AskSwitch(a, f)
        PROVE  \E q : Edit!Ask(a, q) /\ q.kind \in {"roles", "role", "switch"}
    <3> DEFINE q == [Edit!Sent EXCEPT !.kind = "switch", !.stage = "switch", !.flow = f, !.on = ~row[f].on]
    <3>1. Edit!Ask(a, q)
      BY <2>3 DEF Edit!AskSwitch
    <3>2. PICK b \in BOOLEAN : b = ~row[f].on
      BY Zenon
    <3>3. q = [Edit!Sent EXCEPT !.kind = "switch", !.stage = "switch", !.flow = f, !.on = b]
      BY <3>2
    <3> HIDE DEF q
    <3>4. q.kind = "switch"
      BY <3>3, SentIsOne DEF Edit!Asks
    <3> QED BY <3>1, <3>4
  <2> QED BY <2>1, <2>2, <2>3
<1>2. request'[a] = q
  BY <1>1, AskIsAlone
<1> QED BY <1>1, <1>2 DEF Fits

LEMMA AskingBlocks ==
  ASSUME Edit!Given, EditInv, Blocked, NEW a \in Admins, Edit!Asking(a)
  PROVE  Blocked'
<1>1. PICK q \in Edit!Asks : Begins(a, q)
  BY AskingBegins DEF EditInv
<1>2. /\ UNCHANGED <<row, made>> /\ request' = [request EXCEPT ![a] = q]
      /\ crossed' = (crossed \/ \E b \in Admins \ {a} : request[b] # None)
  BY <1>1 DEF Begins
<1>3. EditTyped
  BY DEF EditInv
<1>4. \A b \in Admins \ {a} : request'[b] = request[b]
  BY <1>2, <1>3 DEF EditTyped
<1>5. ~crossed' => Fits(request[a])'
  BY <1>3, SaveFits, RestoreFits, NewFits, DeleteFits, OtherAsksFit DEF Edit!Asking
<1>6. There' = There
  BY <1>2 DEF There, Edit!There
<1>7. crossed => crossed'
  BY <1>2
<1> QED BY <1>2, <1>4, <1>5, <1>6, <1>7, BlocksStay

\* What ends with a field of the flow's row written.
LEMMA ForgetPlainSeen ==
  ASSUME Edit!Given, EditTyped, NEW a \in Admins, Edit!ForgetPlain(a)
  PROVE  /\ Relabels /\ Stays /\ request'[a] = None
         /\ \A g \in Editable : row[g] # None => row'[g].on = row[g].on
<1> DEFINE f == request[a].flow
<1>1. /\ request[a] # None /\ request[a].stage = "forget" /\ request' = [request EXCEPT ![a] = None]
      /\ row' = IF Edit!There(f) THEN [row EXCEPT ![f].plain = 0] ELSE row
      /\ UNCHANGED <<kept, permissions, page, requests, cuts, made, crossed>>
  BY DEF Edit!ForgetPlain, Edit!At, Edit!Over, Edit!history
<1>9. sketch' \in [Editable -> Nat] /\ behind' = behind
  BY DEF EditTyped, Edit!ForgetPlain, Edit!drafts
<1>2. Sound(request[a])
  BY <1>1, UnderWay
<1>3. f \in Editable
  BY <1>1, <1>2 DEF Sound
<1>4. Stays /\ request'[a] = None
  BY <1>1, OverStays
<1>5. CASE Edit!There(f)
  <2>1. row' = [row EXCEPT ![f].plain = 0]
    BY <1>1, <1>5
  <2> HIDE DEF f
  <2>2. /\ row' \in [Editable -> Edit!Rows \cup {None}]
        /\ row'[f] # None /\ row'[f].version = row[f].version /\ row'[f].text = row[f].text
        /\ row'[f].on = row[f].on
        /\ \A g \in Editable \ {f} : row'[g] = row[g]
    BY <1>3, <1>5, <2>1, PlainIsWritten
  <2> QED BY <1>1, <1>9, <1>4, <1>5, <2>2 DEF Relabels, Edit!There
<1>6. CASE ~Edit!There(f)
  <2>1. row' = row
    BY <1>1, <1>6
  <2> QED BY <1>1, <1>9, <1>4, <2>1 DEF Relabels, EditTyped
<1> QED BY <1>5, <1>6

LEMMA FlipSeen ==
  ASSUME Edit!Given, EditTyped, NEW a \in Admins, Edit!Flip(a)
  PROVE  /\ Relabels /\ Stays /\ request'[a] = None
         /\ \A g \in Editable \ {request[a].flow} : row'[g] = row[g]
         /\ \A g \in Editable : row[g] # None /\ g = request[a].flow => row'[g].on = request[a].on
<1> DEFINE q == request[a]
           f == q.flow
<1>1. /\ request[a] # None /\ request[a].stage = "flip" /\ request' = [request EXCEPT ![a] = None]
      /\ row' = IF Edit!There(f) THEN [row EXCEPT ![f].on = q.on] ELSE row
      /\ UNCHANGED <<kept, permissions, page, requests, cuts, made, crossed>>
  BY DEF Edit!Flip, Edit!At, Edit!Over, Edit!history
<1>9. sketch' \in [Editable -> Nat] /\ behind' = behind
  BY DEF EditTyped, Edit!Flip, Edit!drafts
<1>2. q \in Edit!Asks /\ Sound(q)
  BY <1>1, UnderWay
<1>3. f \in Editable /\ q.on \in BOOLEAN
  BY <1>1, <1>2 DEF Sound, Edit!Asks
<1>4. Stays /\ request'[a] = None
  BY <1>1, OverStays
<1>5. CASE Edit!There(f)
  <2>1. row' = [row EXCEPT ![f].on = q.on]
    BY <1>1, <1>5
  <2>2. PICK b \in BOOLEAN : b = q.on
    BY <1>3
  <2> HIDE DEF f, q
  <2>3. /\ row' \in [Editable -> Edit!Rows \cup {None}]
        /\ row'[f] # None /\ row'[f].version = row[f].version /\ row'[f].text = row[f].text
        /\ row'[f].on = b
        /\ \A g \in Editable \ {f} : row'[g] = row[g]
    BY <1>3, <1>5, <2>1, <2>2, OnIsWritten
  <2> QED BY <1>1, <1>9, <1>4, <1>5, <2>2, <2>3 DEF Relabels, Edit!There, f, q
<1>6. CASE ~Edit!There(f)
  <2>1. row' = row
    BY <1>1, <1>6
  <2> QED BY <1>1, <1>9, <1>4, <1>6, <2>1 DEF Relabels, EditTyped, Edit!There
<1> QED BY <1>5, <1>6

LEMMA ConvertSeen ==
  ASSUME Edit!Given, EditTyped, NEW f \in Editable, Edit!Convert(f)
  PROVE  /\ Relabels /\ UNCHANGED request
         /\ \A g \in Editable : row[g] # None => row'[g].on = row[g].on
<1>1. /\ Edit!There(f) /\ row' = [row EXCEPT ![f].plain = row[f].version]
      /\ UNCHANGED <<kept, permissions, page, request, requests, cuts, made, crossed>>
  BY DEF Edit!Convert, Edit!history
<1>9. sketch' \in [Editable -> Nat] /\ behind' = behind
  BY DEF EditTyped, Edit!Convert, Edit!drafts
<1>2. row[f].version \in Nat
  BY <1>1, RowIsOne
<1>3. /\ row' \in [Editable -> Edit!Rows \cup {None}]
      /\ row'[f] # None /\ row'[f].version = row[f].version /\ row'[f].text = row[f].text
      /\ row'[f].on = row[f].on
      /\ \A g \in Editable \ {f} : row'[g] = row[g]
  BY <1>1, <1>2, PlainIsWritten
<1> QED BY <1>1, <1>9, <1>3 DEF Relabels, Edit!There

LEMMA ReadBaseBlocks ==
  ASSUME Edit!Given, EditInv, Blocked, NEW a \in Admins, Edit!ReadBase(a)
  PROVE  Blocked'
<1> DEFINE q == request[a]
<1>1. q # None /\ q.stage = "base" /\ UNCHANGED <<row, made, crossed>>
      /\ (request' = [request EXCEPT ![a] = [q EXCEPT !.stage = "save", !.base = row[q.flow].version]]
          \/ request' = [request EXCEPT ![a] = None])
  BY DEF Edit!ReadBase, Edit!At, Edit!history, Edit!GoOn, Edit!Over
<1>2. EditTyped /\ q \in Edit!Asks /\ Sound(q)
  BY <1>1, UnderWay DEF EditInv
<1>3. q.kind = "create"
  BY <1>1, <1>2 DEF Sound, Syncing, Forgetting
<1>4. There' = There
  BY <1>1 DEF There, Edit!There
<1>5. ASSUME NEW b \in Admins, request'[b] # None
      PROVE  request'[b] = request[b] \/ Fits(request[b])'
  <2>1. CASE b # a
    BY <1>1, <1>2, <2>1 DEF EditTyped
  <2>2. CASE b = a
    <3> DEFINE x == [q EXCEPT !.stage = "save", !.base = row[q.flow].version]
    <3>1. request'[b] = x
      BY <1>1, <1>2, <1>5, <2>2 DEF EditTyped
    <3> HIDE DEF q
    <3>2. x.kind = "create" /\ x.stage = "save"
      BY <1>2, <1>3 DEF Edit!Asks
    <3> QED BY <3>1, <3>2 DEF Fits
  <2> QED BY <2>1, <2>2
<1> QED BY <1>1, <1>4, <1>5, BlocksStay

LEMMA KeepBlocks ==
  ASSUME Edit!Given, EditInv, Blocked, NEW a \in Admins, Edit!Keep(a)
  PROVE  Blocked'
<1> DEFINE q == request[a]
           x == [q EXCEPT !.stage = "roles", !.roles = {}]
<1>1. q # None /\ q.stage = "keep" /\ request' = [request EXCEPT ![a] = x] /\ UNCHANGED <<row, made, crossed>>
  BY DEF Edit!Keep, Edit!At, Edit!GoOn, Edit!history
<1>2. EditTyped /\ q \in Edit!Asks /\ Sound(q)
  BY <1>1, UnderWay DEF EditInv
<1>3. q.kind = "delete"
  BY <1>1, <1>2 DEF Sound, Syncing, Forgetting
<1>4. There' = There
  BY <1>1 DEF There, Edit!There
<1> HIDE DEF q
<1>5. x.kind = "delete" /\ x.flow = q.flow
  BY <1>2, <1>3 DEF Edit!Asks
<1> HIDE DEF x
<1>6. request'[a] = x /\ \A b \in Admins \ {a} : request'[b] = request[b]
  BY <1>1, <1>2 DEF EditTyped
<1>7. ASSUME NEW b \in Admins, ~crossed', request'[b] # None
      PROVE  request'[b] = request[b] \/ Fits(request[b])'
  <2>1. CASE b # a
    BY <1>6, <2>1
  <2>2. CASE b = a
    <3>1. Fits(q)
      BY <1>1, <1>7 DEF Blocked, q
    <3> QED BY <1>3, <1>4, <1>5, <1>6, <2>2, <3>1 DEF Fits
  <2> QED BY <2>1, <2>2
<1> QED BY <1>1, <1>4, <1>7, BlocksStay

\* A step of the only request, after which nothing has to fit.
LEMMA OnlyBlocks ==
  ASSUME EditTyped, Alone, NEW a \in Admins, request[a] # None, NEW x, request' = [request EXCEPT ![a] = x],
         crossed' = crossed, ~crossed => Edit!InOrder(There'),
         x # None => x.kind \in {"save", "create"} /\ x.stage \in {"base", "granted"}
  PROVE  Blocked'
<1>1. request'[a] = x /\ \A b \in Admins \ {a} : request'[b] = request[b]
  BY DEF EditTyped
<1>2. ASSUME ~crossed, NEW b \in Admins, request'[b] # None
      PROVE  Fits(request[b])'
  <2>1. b = a
    BY <1>1, <1>2 DEF Alone
  <2> QED BY <1>1, <1>2, <2>1 DEF Fits
<1> QED BY <1>2 DEF Blocked, Edit!InOrder

LEMMA RemoveBlocks ==
  ASSUME Edit!Given, EditInv, Blocked, NEW a \in Admins, Edit!Remove(a)
  PROVE  Blocked'
<1> DEFINE q == request[a]
           f == q.flow
<1>1. q # None /\ q.stage = "remove" /\ request' = [request EXCEPT ![a] = None]
      /\ row' = [row EXCEPT ![f] = None] /\ UNCHANGED <<made, crossed>>
  BY DEF Edit!Remove, Edit!At, Edit!Over, Edit!history
<1>2. EditTyped /\ Alone /\ Sound(q)
  BY <1>1, UnderWay DEF EditInv
<1>3. f \in Editable /\ q.kind = "delete"
  BY <1>1, <1>2 DEF Sound, Syncing, Forgetting
<1>4. ASSUME ~crossed
      PROVE  Edit!InOrder(There')
  <2>1. Unused(There, f) /\ Edit!InOrder(There)
    BY <1>1, <1>3, <1>4 DEF Blocked, Fits
  <2>2. PICK w : w = There
    OBVIOUS
  <2>3. w \in Tables
    BY <1>2, <2>2, ThereIsTable
  <2> HIDE DEF f
  <2>4. \A g \in Editable : There'[g] = IF g = f THEN None ELSE w[g]
    BY <1>1, <1>2, <2>2 DEF EditTyped, There, Edit!There
  <2>5. There' = [w EXCEPT ![f] = None]
    BY <2>3, <2>4 DEF There, Tables
  <2>6. Edit!InOrder([w EXCEPT ![f] = None])
    BY <1>3, <2>1, <2>2, <2>3, TakenInOrder
  <2> QED BY <2>5, <2>6
<1> QED BY <1>1, <1>2, <1>4, OnlyBlocks

\* A flow is given steps that were found clear.
LEMMA PutBlocks ==
  ASSUME Edit!Given, EditTyped, Edit!InOrder(There), NEW f \in Editable, NEW t \in Texts, Clear(There, f, t),
         NEW new \in Edit!Rows, new.text = t, row' = [row EXCEPT ![f] = new]
  PROVE  Edit!InOrder(There')
<1>1. PICK w : w = There
  OBVIOUS
<1>2. w \in Tables
  BY <1>1, ThereIsTable
<1>3. new # None
  BY DEF Edit!Given
<1>4. \A g \in Editable : There'[g] = IF g = f THEN t ELSE w[g]
  BY <1>1, <1>3 DEF EditTyped, There, Edit!There
<1>5. There' = [w EXCEPT ![f] = t]
  BY <1>2, <1>4 DEF There, Tables
<1>6. Edit!InOrder([w EXCEPT ![f] = t])
  BY <1>1, <1>2, PutInOrder
<1> QED BY <1>5, <1>6

LEMMA CreateBlocks ==
  ASSUME Edit!Given, EditInv, Blocked, NEW a \in Admins, Edit!Create(a)
  PROVE  Blocked'
<1> DEFINE q == request[a]
<1>1. q # None /\ q.stage = "create" /\ crossed' = crossed
  BY DEF Edit!Create, Edit!At
<1>2. EditTyped /\ Alone /\ q \in Edit!Asks /\ Sound(q)
  BY <1>1, UnderWay DEF EditInv
<1>3. q.kind = "create" /\ q.flow \in Editable /\ q.text \in Texts /\ q.plain \in BOOLEAN
  BY <1>1, <1>2 DEF Sound, Syncing, Forgetting, Edit!Asks
<1>4. PICK f \in Edit!FreeKeys(q) :
        /\ row' = [row EXCEPT ![f] = [version |-> 1, text |-> q.text, on |-> f \in Blocks, plain |-> 0]]
        /\ IF q.plain THEN request' = [request EXCEPT ![a] = [q EXCEPT !.stage = "base", !.flow = f]]
           ELSE request' = [request EXCEPT ![a] = None]
  BY DEF Edit!Create, Edit!GoOn, Edit!Over
<1>5. PICK x : request' = [request EXCEPT ![a] = x] /\ (x # None => x.kind = "create" /\ x.stage = "base")
  <2>1. CASE q.plain = TRUE
    <3> DEFINE x == [q EXCEPT !.stage = "base", !.flow = f]
    <3>1. request' = [request EXCEPT ![a] = x]
      BY <1>4, <2>1
    <3> HIDE DEF q
    <3>2. x.stage = "base" /\ x.kind = q.kind
      BY <1>2 DEF Edit!Asks
    <3> QED BY <1>3, <3>1, <3>2
  <2>2. CASE q.plain # TRUE
    BY <1>3, <1>4, <2>2
  <2> QED BY <2>1, <2>2
<1>6. ASSUME ~crossed
      PROVE  Edit!InOrder(There')
  <2>1. Fits(q) /\ Edit!InOrder(There)
    BY <1>1, <1>6 DEF Blocked
  <2>2. Clear(There, q.flow, q.text) /\ f = q.flow
    BY <1>1, <1>3, <1>4, <2>1 DEF Fits, Edit!FreeKeys
  <2> HIDE DEF q
  <2>3. PICK o \in BOOLEAN : o = (f \in Blocks)
    <3>1. (f \in Blocks) \in BOOLEAN
      OBVIOUS
    <3> QED BY <3>1
  <2>4. PICK new : new = [version |-> 1, text |-> q.text, on |-> o, plain |-> 0]
    OBVIOUS
  <2>5. new \in Edit!Rows /\ new.text = q.text
    BY <1>3, <2>4 DEF Edit!Rows
  <2>6. row' = [row EXCEPT ![f] = new]
    BY <1>4, <2>3, <2>4
  <2> QED BY <1>2, <1>3, <2>1, <2>2, <2>5, <2>6, PutBlocks
<1> QED BY <1>1, <1>2, <1>5, <1>6, OnlyBlocks

LEMMA SaveBlocks ==
  ASSUME Edit!Given, EditInv, Blocked, NEW a \in Admins, Edit!Save(a)
  PROVE  Blocked'
<1> DEFINE q == request[a]
           f == q.flow
<1>1. /\ q # None /\ q.stage = "save" /\ f \in Editable /\ Edit!There(f) /\ crossed' = crossed
      /\ \E text \in Texts, new \in Edit!Rows, m \in Edit!Made, x \in Edit!Asks, s \in Snapshots :
           Saved(a, row[f].version, text, new, m, x, s)
  BY SaveMakes DEF EditInv
<1>2. EditTyped /\ Alone /\ Sound(q)
  BY <1>1, UnderWay DEF EditInv
<1>3. q.kind \in {"save", "create"}
  BY <1>1, <1>2 DEF Sound, Syncing, Forgetting
<1>4. PICK text \in Texts, new \in Edit!Rows, m \in Edit!Made, x \in Edit!Asks, s \in Snapshots :
        Saved(a, row[f].version, text, new, m, x, s)
  BY <1>1
<1>5. /\ row' = [row EXCEPT ![f] = new] /\ new.text = text
      /\ text = IF q.kind = "create" THEN row[f].text ELSE q.text
  BY <1>4 DEF Saved
<1>6. request' = [request EXCEPT ![a] = x] /\ x.stage = "granted" /\ x.kind = q.kind
  BY <1>4 DEF Saved
<1> HIDE DEF q, f
<1>7. ASSUME ~crossed
      PROVE  Edit!InOrder(There')
  <2>1. Fits(q) /\ Edit!InOrder(There)
    BY <1>1, <1>7 DEF Blocked, q
  <2>2. CASE q.kind = "save"
    <3>1. Clear(There, f, text)
      BY <1>1, <1>5, <2>1, <2>2 DEF Fits, f
    <3> QED BY <1>1, <1>2, <1>5, <2>1, <3>1, PutBlocks
  <2>3. CASE q.kind = "create"
    <3>1. new # None
      BY DEF Edit!Given
    <3>2. \A g \in Editable : There'[g] = There[g]
      BY <1>1, <1>2, <1>5, <2>3, <3>1 DEF EditTyped, There, Edit!There
    <3>3. There' = There
      BY <3>2 DEF There
    <3> QED BY <2>1, <3>3
  <2> QED BY <1>3, <2>2, <2>3
<1> QED BY <1>1, <1>2, <1>3, <1>6, <1>7, OnlyBlocks DEF q

LEMMA BlocksBegin ==
  ASSUME Edit!Given, Edit!Init
  PROVE  Blocked
<1>1. PICK first \in Firsts :
        /\ row = [f \in Editable |->
             IF f \in {g \in Editable : first.texts[g] # None}
             THEN [version |-> 1, text |-> first.texts[f], on |-> f \in first.on, plain |-> 0] ELSE None]
        /\ request = [a \in Admins |-> None]
  BY DEF Edit!Init
<1>2. first.texts \in [Editable -> Texts \cup {None}] /\ Edit!InOrder(first.texts)
  BY DEF Edit!Given
<1>3. EditTyped
  BY EditInitKeeps DEF EditInv
<1>4. ASSUME NEW f \in Editable
      PROVE  There[f] = first.texts[f]
  <2>1. CASE first.texts[f] = None
    <3>1. row[f] = None
      BY <1>1, <2>1
    <3> QED BY <2>1, <3>1 DEF There, Edit!There
  <2>2. CASE first.texts[f] # None
    <3>1. row[f] = [version |-> 1, text |-> first.texts[f], on |-> f \in first.on, plain |-> 0]
      BY <1>1, <2>2
    <3>2. PICK t \in Texts : t = first.texts[f]
      BY <1>2, <2>2
    <3>3. PICK o \in BOOLEAN : o = (f \in first.on)
      <4>1. (f \in first.on) \in BOOLEAN
        OBVIOUS
      <4> QED BY <4>1
    <3>4. row[f] = [version |-> 1, text |-> t, on |-> o, plain |-> 0]
      BY <3>1, <3>2, <3>3
    <3>5. row[f] \in Edit!Rows /\ row[f].text = t
      BY <3>4 DEF Edit!Rows
    <3>6. row[f] # None
      BY <3>5 DEF Edit!Given
    <3> QED BY <3>2, <3>5, <3>6 DEF There, Edit!There
  <2> QED BY <2>1, <2>2
<1>5. There = first.texts
  BY <1>2, <1>4 DEF There
<1> QED BY <1>1, <1>2, <1>5 DEF Blocked

LEMMA WorkingBlocks ==
  ASSUME Edit!Given, EditInv, Blocked, NEW a \in Admins, Edit!Working(a)
  PROVE  Blocked'
<1>0. EditTyped /\ KeptIsMade
  BY DEF EditInv, History
<1>1. CASE Edit!Create(a)
  BY <1>1, CreateBlocks
<1>2. CASE Edit!CreateFails(a)
  BY <1>0, <1>2, CreateFailsMoves, QuietBlocks
<1>3. CASE Edit!ReadBase(a)
  BY <1>3, ReadBaseBlocks
<1>4. CASE Edit!Save(a)
  BY <1>4, SaveBlocks
<1>5. CASE Edit!Refuse(a)
  BY <1>0, <1>5, RefuseMoves, QuietBlocks
<1>6. CASE Edit!ReadGranted(a)
  BY <1>0, <1>6, ReadGrantedMoves, QuietBlocks
<1>7. CASE Edit!ForgetPlain(a)
  BY <1>0, <1>7, ForgetPlainSeen, RelabelThere, OverBlocks DEF Relabels
<1>8. CASE Edit!ReadRoles(a)
  BY <1>0, <1>8, ReadRolesMoves, QuietBlocks
<1>9. CASE Edit!ReadOthers(a)
  BY <1>0, <1>9, ReadOthersMoves, QuietBlocks
<1>10. CASE Edit!Grant(a)
  BY <1>0, <1>10, GrantMoves, QuietBlocks
<1>11. CASE Edit!RoleFlow(a)
  BY <1>0, <1>11, RoleFlowMoves, QuietBlocks
<1>12. CASE Edit!RoleDone(a)
  BY <1>0, <1>12, RoleDoneMoves, QuietBlocks
<1>13. CASE Edit!SwitchReads(a)
  BY <1>0, <1>13, SwitchReadsMoves, QuietBlocks
<1>14. CASE Edit!Flip(a)
  BY <1>0, <1>14, FlipSeen, RelabelThere, OverBlocks DEF Relabels
<1>15. CASE Edit!Keep(a)
  BY <1>15, KeepBlocks
<1>16. CASE Edit!Remove(a)
  BY <1>16, RemoveBlocks
<1> QED BY <1>1, <1>2, <1>3, <1>4, <1>5, <1>6, <1>7, <1>8, <1>9, <1>10, <1>11, <1>12, <1>13, <1>14, <1>15, <1>16
        DEF Edit!Working

\* What an admin does in an editor without saving leaves the flows and the requests alone.
LEMMA PagingSeen ==
  ASSUME EditTyped, NEW a \in Admins, Edit!Paging(a)
  PROVE  UNCHANGED <<row, permissions, request, made, cuts>> /\ (crossed => crossed')
<1>1. ASSUME NEW f \in Editable, Edit!OpenEditor(a, f)
      PROVE  UNCHANGED <<row, permissions, request, made, cuts>> /\ (crossed => crossed')
  BY <1>1 DEF Edit!OpenEditor, Edit!history
<1>2. ASSUME NEW f \in Editable, Edit!OpenPlain(a, f)
      PROVE  UNCHANGED <<row, permissions, request, made, cuts>> /\ (crossed => crossed')
  BY <1>2 DEF Edit!OpenPlain
<1>3. CASE Edit!KeepDraft(a)
  BY <1>3 DEF Edit!KeepDraft, Edit!history
<1>4. CASE Edit!DropDraft(a)
  BY <1>4 DEF Edit!DropDraft, Edit!history
<1>5. CASE Edit!Close(a)
  BY <1>5 DEF Edit!Close, Edit!history
<1> QED BY <1>1, <1>2, <1>3, <1>4, <1>5 DEF Edit!Paging

LEMMA NextBlocks ==
  ASSUME Edit!Given, EditInv, Blocked, [Edit!Next]_(Edit!vars)
  PROVE  Blocked'
<1>0. EditTyped
  BY DEF EditInv
<1>1. ASSUME UNCHANGED <<row, request, made>>, crossed => crossed'
      PROVE  Blocked'
  <2>1. There' = There
    BY <1>1 DEF There, Edit!There
  <2> QED BY <1>1, <2>1, BlocksStay
<1>2. ASSUME NEW a \in Admins, Edit!Paging(a)
      PROVE  Blocked'
  BY <1>0, <1>1, <1>2, PagingSeen
<1>4. ASSUME NEW f \in Editable, Edit!Convert(f)
      PROVE  Blocked'
  <2>1. Stays
    BY <1>0, <1>4, ConvertSeen DEF Stays, EditTyped
  <2> QED BY <1>0, <1>4, <2>1, ConvertSeen, RelabelThere, OverBlocks DEF Relabels
<1>5. ASSUME NEW a \in Admins, Edit!Asking(a)
      PROVE  Blocked'
  BY <1>5, AskingBlocks
<1>6. ASSUME NEW a \in Admins, Edit!Working(a)
      PROVE  Blocked'
  BY <1>6, WorkingBlocks
<1>7. ASSUME NEW a \in Admins, Edit!Cut(a)
      PROVE  Blocked'
  <2>1. request' = [request EXCEPT ![a] = None] /\ UNCHANGED <<row, made, crossed>>
    BY <1>7 DEF Edit!Cut, Edit!Over, Edit!history
  <2>2. There' = There
    BY <2>1 DEF There, Edit!There
  <2> QED BY <1>0, <2>1, <2>2, OverStays, OverBlocks
<1>8. CASE UNCHANGED Edit!vars
  BY <1>1, <1>8 DEF Edit!vars, Edit!history
<1> QED BY <1>2, <1>4, <1>5, <1>6, <1>7, <1>8 DEF Edit!Next

-----------------------------------------------------------------------------
(* Who may use a flow *)

\* A role that has f can use it: what its steps ask for, if it is switched on.
Usable(f) == \A r \in PanelRoles : f \in permissions[r] =>
  Edit!There(f) /\ (row[f].on => Needs[row[f].text] \subseteq permissions[r])

\* The request q has read of the flow what the flow is.
Current(q) == Edit!There(q.flow) /\ row[q.flow].text = q.text

\* What the request that is under way alone knows of the roles and the flows.
Knows(q) ==
  /\ q.stage \in {"keep", "granted"} \cup Syncing => Current(q)
  /\ q.kind = "delete" /\ q.stage \in Syncing => q.roles = {}
  /\ q.stage \in {"others", "grant"} => q.seen \in [PanelRoles -> SUBSET Edit!Keys]
  /\ q.stage = "others" => q.seen = permissions
  /\ q.stage = "grant" =>
       /\ \A r \in q.left : q.seen[r] = permissions[r]
       /\ q.others = [g \in Edit!SwitchedOn(Editable \ {q.flow}) |-> row[g].text]
       /\ \A r \in PanelRoles \ q.left :
            /\ q.flow \in permissions[r] => r \in q.roles
            /\ r \in q.roles => Needs[q.text] \subseteq permissions[r]
  /\ q.stage = "flip" => Edit!There(q.flow)
       /\ \A r \in PanelRoles : q.flow \in permissions[r] => Needs[row[q.flow].text] \subseteq permissions[r]
  /\ q.stage = "remove" => \A r \in PanelRoles : q.flow \notin permissions[r]
  /\ q.kind = "role" => \A y \in q.todo : Edit!There(y.flow) /\ row[y.flow].text = y.text

\* A flow whose roles are being put right.
InHand(f) == \E a \in Admins : request[a] # None /\ request[a].flow = f
  /\ request[a].stage \in {"granted"} \cup Syncing

Ticking == Edit!Calm =>
  /\ \A a \in Admins : request[a] # None => Knows(request[a])
  /\ \A f \in Editable : Usable(f) \/ InHand(f)

LEMMA CalmStays ==
  ASSUME cuts' = cuts, crossed' = crossed
  PROVE  Edit!Calm' = Edit!Calm
BY DEF Edit!Calm

\* A step of the only request.
LEMMA OnlyTicks ==
  ASSUME EditTyped, Alone, NEW a \in Admins, request[a] # None, NEW x, request' = [request EXCEPT ![a] = x],
         crossed' = crossed, cuts' = cuts,
         Edit!Calm /\ x # None => Knows(x)',
         Edit!Calm => \A f \in Editable :
           Usable(f)' \/ (x # None /\ x.flow = f /\ x.stage \in {"granted"} \cup Syncing)
  PROVE  Ticking'
<1> SUFFICES ASSUME Edit!Calm'
             PROVE  /\ \A b \in Admins : request'[b] # None => Knows(request[b])'
                    /\ \A f \in Editable : Usable(f)' \/ InHand(f)'
  BY DEF Ticking
<1>1. request'[a] = x /\ \A b \in Admins \ {a} : request'[b] = request[b]
  BY DEF EditTyped
<1>2. Edit!Calm /\ ~crossed
  BY CalmStays DEF Edit!Calm
<1>3. ASSUME NEW b \in Admins, request'[b] # None
      PROVE  Knows(request[b])'
  <2>1. b = a
    BY <1>1, <1>2, <1>3 DEF Alone
  <2> QED BY <1>1, <1>2, <1>3, <2>1 DEF Knows, Current, Edit!SwitchedOn, Edit!There
<1>4. ASSUME NEW f \in Editable
      PROVE  Usable(f)' \/ InHand(f)'
  BY <1>1, <1>2 DEF InHand
<1> QED BY <1>3, <1>4

\* One that leaves the flows and the roles as they are.
LEMMA QuietTicks ==
  ASSUME EditTyped, Alone, Ticking, NEW a \in Admins, request[a] # None, NEW x, request' = [request EXCEPT ![a] = x],
         UNCHANGED <<row, permissions, crossed, cuts>>,
         Knows(request[a]) /\ x # None => Knows(x),
         request[a].stage \in {"granted"} \cup Syncing =>
           x # None /\ x.flow = request[a].flow /\ x.stage \in {"granted"} \cup Syncing
  PROVE  Ticking'
<1>1. Edit!Calm /\ x # None => Knows(x)'
  <2>1. Edit!Calm => Knows(request[a])
    BY DEF Ticking
  <2> QED BY <2>1 DEF Knows, Current, Edit!SwitchedOn, Edit!There
<1>2. ASSUME Edit!Calm, NEW f \in Editable
      PROVE  Usable(f)' \/ (x # None /\ x.flow = f /\ x.stage \in {"granted"} \cup Syncing)
  <2>1. CASE Usable(f)
    BY <2>1 DEF Usable, Edit!There
  <2>2. CASE InHand(f)
    <3>1. request[a].flow = f /\ request[a].stage \in {"granted"} \cup Syncing
      BY <1>2, <2>2 DEF InHand, Alone, Edit!Calm
    <3> QED BY <3>1
  <2> QED BY <1>2, <2>1, <2>2 DEF Ticking
<1> QED BY <1>1, <1>2, OnlyTicks

\* One that knows nothing.
LEMMA KnowsNothing ==
  ASSUME NEW q, q.kind # "role", q.stage \in {"save", "create", "base", "switch", "forget"}
  PROVE  Knows(q)
BY DEF Knows, Syncing

LEMMA CreateFailsTicks ==
  ASSUME Edit!Given, EditInv, Ticking, NEW a \in Admins,
         Edit!CreateFails(a) \/ Edit!Refuse(a) \/ Edit!RoleDone(a)
  PROVE  Ticking'
<1>1. request[a] # None /\ request[a].stage \in {"create", "save", "next"} /\ request' = [request EXCEPT ![a] = None]
      /\ UNCHANGED <<row, permissions, cuts, crossed>>
  BY DEF Edit!CreateFails, Edit!Refuse, Edit!RoleDone, Edit!At, Edit!Over, Edit!history
<1>2. request[a].stage \notin {"granted"} \cup Syncing
  BY <1>1 DEF Syncing
<1> QED BY <1>1, <1>2, QuietTicks DEF EditInv

LEMMA ReadBaseTicks ==
  ASSUME Edit!Given, EditInv, Ticking, NEW a \in Admins, Edit!ReadBase(a)
  PROVE  Ticking'
<1> DEFINE q == request[a]
<1>1. q # None /\ q.stage = "base" /\ UNCHANGED <<row, permissions, cuts, crossed>>
  BY DEF Edit!ReadBase, Edit!At, Edit!history
<1>2. EditTyped /\ Alone /\ q \in Edit!Asks /\ Sound(q)
  BY <1>1, UnderWay DEF EditInv
<1>3. q.kind = "create"
  BY <1>1, <1>2 DEF Sound, Syncing, Forgetting
<1>4. q.stage \notin {"granted"} \cup Syncing
  BY <1>1 DEF Syncing
<1>5. CASE Edit!There(q.flow)
  <2> DEFINE x == [q EXCEPT !.stage = "save", !.base = row[q.flow].version]
  <2>1. request' = [request EXCEPT ![a] = x]
    BY <1>5 DEF Edit!ReadBase, Edit!GoOn
  <2>2. x.kind = "create" /\ x.stage = "save"
    BY <1>2, <1>3 DEF Edit!Asks
  <2> HIDE DEF x
  <2> QED BY <1>1, <1>2, <1>4, <2>1, <2>2, KnowsNothing, QuietTicks
<1>6. CASE ~Edit!There(q.flow)
  <2>1. request' = [request EXCEPT ![a] = None]
    BY <1>6 DEF Edit!ReadBase, Edit!Over
  <2> QED BY <1>1, <1>2, <1>4, <2>1, QuietTicks
<1> QED BY <1>5, <1>6

LEMMA ReadGrantedTicks ==
  ASSUME Edit!Given, EditInv, Ticking, NEW a \in Admins, Edit!ReadGranted(a)
  PROVE  Ticking'
<1> DEFINE q == request[a]
           x == [q EXCEPT !.stage = "roles", !.roles = Edit!Holders(q.flow)]
<1>1. q # None /\ q.stage = "granted" /\ request' = [request EXCEPT ![a] = x]
      /\ UNCHANGED <<row, permissions, cuts, crossed>>
  BY DEF Edit!ReadGranted, Edit!At, Edit!GoOn, Edit!history
<1>2. EditTyped /\ Alone /\ q \in Edit!Asks /\ Sound(q)
  BY <1>1, UnderWay DEF EditInv
<1>3. q.kind \in {"save", "create"}
  BY <1>1, <1>2 DEF Sound, Syncing, Forgetting
<1>4. x.stage = "roles" /\ x.kind = q.kind /\ x.flow = q.flow /\ x.text = q.text
  BY <1>2 DEF Edit!Asks
<1>6. x # None
  <2>1. Edit!Holders(q.flow) \in SUBSET PanelRoles
    BY DEF Edit!Holders
  <2> HIDE DEF q
  <2>2. x \in Edit!Asks
    BY <1>2, <2>1 DEF Edit!Asks, Edit!Stages
  <2> QED BY <2>2 DEF Edit!Given
<1> HIDE DEF q, x
<1>5. Knows(q) => Knows(x)
  BY <1>1, <1>3, <1>4 DEF Knows, Current, Syncing
<1> QED BY <1>1, <1>2, <1>4, <1>5, <1>6, QuietTicks DEF q, Syncing

LEMMA ReadRolesTicks ==
  ASSUME Edit!Given, EditInv, Ticking, NEW a \in Admins, Edit!ReadRoles(a)
  PROVE  Ticking'
<1> DEFINE q == request[a]
           x == [q EXCEPT !.stage = "others", !.seen = permissions]
<1>1. q # None /\ q.stage = "roles" /\ request' = [request EXCEPT ![a] = x]
      /\ UNCHANGED <<row, permissions, cuts, crossed>>
  BY DEF Edit!ReadRoles, Edit!At, Edit!GoOn, Edit!history
<1>2. EditTyped /\ Alone /\ q \in Edit!Asks
  BY <1>1, UnderWay DEF EditInv
<1>3. x.stage = "others" /\ x.kind = q.kind /\ x.flow = q.flow /\ x.text = q.text
  BY <1>2 DEF Edit!Asks
<1>4. x.seen = permissions /\ x.roles = q.roles /\ x.todo = q.todo
  BY <1>2 DEF Edit!Asks
<1>5. permissions \in [PanelRoles -> SUBSET Edit!Keys]
  BY <1>2 DEF EditTyped
<1>7. x # None
  <2> HIDE DEF q
  <2>1. x \in Edit!Asks
    BY <1>2, <1>5 DEF Edit!Asks, Edit!Stages
  <2> QED BY <2>1 DEF Edit!Given
<1> HIDE DEF q, x
<1>6. Knows(q) => Knows(x)
  BY <1>1, <1>3, <1>4, <1>5 DEF Knows, Current, Syncing
<1> QED BY <1>1, <1>2, <1>3, <1>6, <1>7, QuietTicks DEF q, Syncing

LEMMA ReadOthersTicks ==
  ASSUME Edit!Given, EditInv, Ticking, NEW a \in Admins, Edit!ReadOthers(a)
  PROVE  Ticking'
<1> DEFINE q == request[a]
           O == [g \in Edit!SwitchedOn(Editable \ {q.flow}) |-> row[g].text]
           x == [q EXCEPT !.stage = "grant", !.left = PanelRoles, !.others = O]
<1>1. q # None /\ q.stage = "others" /\ request' = [request EXCEPT ![a] = x]
      /\ UNCHANGED <<row, permissions, cuts, crossed>>
  BY DEF Edit!ReadOthers, Edit!At, Edit!GoOn, Edit!history
<1>2. EditTyped /\ Alone /\ q \in Edit!Asks
  BY <1>1, UnderWay DEF EditInv
<1>3. O = [g \in Edit!SwitchedOn(Editable \ {q.flow}) |-> row[g].text]
  OBVIOUS
<1>8. O \in Edit!Steps
  <2>1. \A g \in Edit!SwitchedOn(Editable \ {q.flow}) : g \in Editable /\ row[g].text \in Texts
    BY <1>2, RowIsOne DEF Edit!SwitchedOn
  <2> QED BY <2>1 DEF Edit!Steps
<1> HIDE DEF O
<1>4. x.stage = "grant" /\ x.kind = q.kind /\ x.flow = q.flow /\ x.text = q.text
  BY <1>2 DEF Edit!Asks
<1>5. x.seen = q.seen /\ x.roles = q.roles /\ x.todo = q.todo
  BY <1>2 DEF Edit!Asks
<1>6. x.left = PanelRoles /\ x.others = O
  BY <1>2 DEF Edit!Asks
<1>9. x # None
  <2> HIDE DEF q
  <2>1. x \in Edit!Asks
    BY <1>2, <1>8 DEF Edit!Asks, Edit!Stages
  <2> QED BY <2>1 DEF Edit!Given
<1> HIDE DEF q, x
<1>7. Knows(q) => Knows(x)
  BY <1>1, <1>3, <1>4, <1>5, <1>6 DEF Knows, Current, Syncing
<1> QED BY <1>1, <1>2, <1>4, <1>7, <1>9, QuietTicks DEF q, Syncing

LEMMA SwitchReadsTicks ==
  ASSUME Edit!Given, EditInv, Ticking, NEW a \in Admins, Edit!SwitchReads(a)
  PROVE  Ticking'
<1> DEFINE q == request[a]
           R == IF q.on THEN Edit!Latest(q.flow) ELSE {}
           x == [q EXCEPT !.stage = "roles", !.text = row[q.flow].text, !.roles = R]
<1>1. q # None /\ q.stage = "switch" /\ UNCHANGED <<row, permissions, cuts, crossed>>
      /\ (request' = [request EXCEPT ![a] = None]
          \/ (Edit!There(q.flow) /\ request' = [request EXCEPT ![a] = x]))
  BY DEF Edit!SwitchReads, Edit!At, Edit!GoOn, Edit!Over
<1>2. EditTyped /\ Alone /\ q \in Edit!Asks /\ Sound(q)
  BY <1>1, UnderWay DEF EditInv
<1>3. q.kind = "switch"
  BY <1>1, <1>2 DEF Sound, Syncing, Forgetting
<1>4. q.stage \notin {"granted"} \cup Syncing
  BY <1>1 DEF Syncing
<1> HIDE DEF R
<1>5. x.stage = "roles" /\ x.kind = q.kind /\ x.flow = q.flow /\ x.text = row[q.flow].text
  BY <1>2 DEF Edit!Asks
<1> HIDE DEF q, x
<1>6. Edit!There(q.flow) => Knows(x)
  BY <1>3, <1>5 DEF Knows, Current, Syncing
<1>7. CASE request' = [request EXCEPT ![a] = None]
  BY <1>1, <1>2, <1>4, <1>7, QuietTicks DEF q
<1>8. CASE Edit!There(q.flow) /\ request' = [request EXCEPT ![a] = x]
  BY <1>1, <1>2, <1>4, <1>6, <1>8, QuietTicks DEF q
<1> QED BY <1>1, <1>7, <1>8

LEMMA KeepTicks ==
  ASSUME Edit!Given, EditInv, Ticking, NEW a \in Admins, Edit!Keep(a)
  PROVE  Ticking'
<1> DEFINE q == request[a]
           x == [q EXCEPT !.stage = "roles", !.roles = {}]
<1>1. q # None /\ q.stage = "keep" /\ request' = [request EXCEPT ![a] = x]
      /\ UNCHANGED <<row, permissions, cuts, crossed>>
  BY DEF Edit!Keep, Edit!At, Edit!GoOn, Edit!history
<1>2. EditTyped /\ Alone /\ q \in Edit!Asks /\ Sound(q)
  BY <1>1, UnderWay DEF EditInv
<1>3. q.kind = "delete"
  BY <1>1, <1>2 DEF Sound, Syncing, Forgetting
<1>4. q.stage \notin {"granted"} \cup Syncing
  BY <1>1 DEF Syncing
<1>5. x.stage = "roles" /\ x.kind = q.kind /\ x.flow = q.flow /\ x.text = q.text /\ x.roles = {}
  BY <1>2 DEF Edit!Asks
<1> HIDE DEF q, x
<1>6. Knows(q) => Knows(x)
  BY <1>1, <1>3, <1>5 DEF Knows, Current, Syncing
<1> QED BY <1>1, <1>2, <1>4, <1>6, QuietTicks DEF q

LEMMA RoleFlowTicks ==
  ASSUME Edit!Given, EditInv, Ticking, NEW a \in Admins, Edit!RoleFlow(a)
  PROVE  Ticking'
<1> DEFINE q == request[a]
<1>1. q # None /\ q.stage = "next" /\ UNCHANGED <<row, permissions, cuts, crossed>>
  BY DEF Edit!RoleFlow, Edit!NextFlow, Edit!At, Edit!drafts
<1>2. EditTyped /\ Alone /\ q \in Edit!Asks /\ Sound(q)
  BY <1>1, UnderWay DEF EditInv
<1>3. q.kind = "role"
  BY <1>1, <1>2 DEF Sound, Syncing, Forgetting
<1>4. q.stage \notin {"granted"} \cup Syncing
  BY <1>1 DEF Syncing
<1>5. PICK y \in q.todo : IF (y.flow \in permissions[q.role]) = y.wanted
         THEN request' = [request EXCEPT ![a] = [q EXCEPT !.todo = q.todo \ {y}]]
         ELSE request' = [request EXCEPT ![a] =
                [q EXCEPT !.todo = q.todo \ {y}, !.stage = "roles", !.flow = y.flow, !.text = y.text,
                   !.roles = IF y.wanted THEN Edit!Holders(y.flow) \cup {q.role}
                            ELSE Edit!Holders(y.flow) \ {q.role}]]
  BY DEF Edit!RoleFlow, Edit!NextFlow, Edit!GoOn
<1>6. CASE (y.flow \in permissions[q.role]) = y.wanted
  <2> DEFINE x == [q EXCEPT !.todo = q.todo \ {y}]
  <2>1. request' = [request EXCEPT ![a] = x]
    BY <1>5, <1>6
  <2> HIDE DEF q
  <2>2. x.stage = q.stage /\ x.kind = q.kind /\ x.flow = q.flow /\ x.todo = q.todo \ {y}
    BY <1>2 DEF Edit!Asks
  <2> HIDE DEF x
  <2>3. Knows(q) => Knows(x)
    BY <1>1, <1>3, <2>2 DEF Knows, Syncing
  <2> QED BY <1>1, <1>2, <1>4, <2>1, <2>3, QuietTicks DEF q
<1>7. CASE ~((y.flow \in permissions[q.role]) = y.wanted)
  <2> DEFINE R == IF y.wanted THEN Edit!Holders(y.flow) \cup {q.role} ELSE Edit!Holders(y.flow) \ {q.role}
             x == [q EXCEPT !.todo = q.todo \ {y}, !.stage = "roles", !.flow = y.flow, !.text = y.text, !.roles = R]
  <2>1. request' = [request EXCEPT ![a] = x]
    BY <1>5, <1>7
  <2> HIDE DEF R, q
  <2>2. x.stage = "roles" /\ x.kind = q.kind
    BY <1>2 DEF Edit!Asks
  <2>3. x.flow = y.flow /\ x.text = y.text /\ x.todo = q.todo \ {y}
    BY <1>2 DEF Edit!Asks
  <2> HIDE DEF x
  <2>4. Knows(q) => Knows(x)
    BY <1>3, <1>5, <2>2, <2>3 DEF Knows, Current, Syncing
  <2> QED BY <1>1, <1>2, <1>4, <2>1, <2>4, QuietTicks DEF q
<1> QED BY <1>6, <1>7

\* A role is written for the request q.
Writes(q, r) == permissions' = [permissions EXCEPT ![r] =
  IF r \in q.roles THEN permissions[r] \cup (Edit!Required(q) \ q.seen[r])
  ELSE permissions[r] \ ((Edit!Required(q) \cap q.seen[r]) \ Edit!StillNeeded(q, r))]

\* What a role gets or loses for f, when what was read of it is what it has.
LEMMA GrantGives ==
  ASSUME Edit!Given, EditTyped, NEW q \in Edit!Asks, Knows(q), q.stage = "grant", NEW f \in Editable, q.flow = f,
         NEW t \in Texts, q.text = t, NEW r \in q.left, r \in PanelRoles, Writes(q, r)
  PROVE  /\ \A s \in PanelRoles \ {r} : permissions'[s] = permissions[s]
         /\ r \in q.roles => permissions'[r] = permissions[r] \cup {f} \cup Needs[t]
         /\ r \notin q.roles =>
              /\ f \notin permissions'[r] /\ permissions'[r] \subseteq permissions[r]
              /\ \A g \in Editable \ {f} : g \in permissions[r] /\ Edit!There(g) /\ row[g].on =>
                   Needs[row[g].text] \cap permissions[r] \subseteq permissions'[r]
<1>1. permissions \in [PanelRoles -> SUBSET Edit!Keys] /\ q.seen[r] = permissions[r]
  BY DEF EditTyped, Knows
<1>2. Edit!Required(q) = {f} \cup Needs[t]
  BY DEF Edit!Required
<1>3. PICK P : P = permissions[r]
  OBVIOUS
<1>4. \A s \in PanelRoles \ {r} : permissions'[s] = permissions[s]
  BY <1>1 DEF Writes
<1>5. ASSUME r \in q.roles
      PROVE  permissions'[r] = P \cup {f} \cup Needs[t]
  <2>1. permissions'[r] = permissions[r] \cup (Edit!Required(q) \ q.seen[r])
    BY <1>1, <1>5 DEF Writes
  <2>2. permissions'[r] = P \cup (({f} \cup Needs[t]) \ P)
    BY <1>1, <1>2, <1>3, <2>1
  <2> QED BY <2>2
<1>6. ASSUME r \notin q.roles
      PROVE  /\ f \notin permissions'[r] /\ permissions'[r] \subseteq P
             /\ \A g \in Editable \ {f} : g \in P /\ Edit!There(g) /\ row[g].on =>
                  Needs[row[g].text] \cap P \subseteq permissions'[r]
  <2>1. permissions'[r] = permissions[r] \ ((Edit!Required(q) \cap q.seen[r]) \ Edit!StillNeeded(q, r))
    BY <1>1, <1>6 DEF Writes
  <2>2. PICK S : S = Edit!StillNeeded(q, r)
    OBVIOUS
  <2>3. permissions'[r] = P \ ((({f} \cup Needs[t]) \cap P) \ S)
    BY <1>1, <1>2, <1>3, <2>1, <2>2
  <2>4. PICK O : O = Edit!SwitchedOn(Editable \ {f})
    OBVIOUS
  <2>5. q.others = [g \in O |-> row[g].text]
    BY <2>4 DEF Knows
  <2>6. S = UNION {{g} \cup Needs[q.others[g]] : g \in DOMAIN q.others \cap q.seen[r]}
    BY <2>2 DEF Edit!StillNeeded
  <2>7. S = UNION {{g} \cup Needs[row[g].text] : g \in O \cap P}
    BY <1>1, <1>3, <2>5, <2>6
  <2>8. \A g \in O : g \in Editable \ {f} /\ row[g].text \in Texts
    BY <2>4, RowIsOne DEF Edit!SwitchedOn
  <2>9. f \notin S
    BY <2>7, <2>8 DEF Edit!Given
  <2>10. ASSUME NEW g \in Editable \ {f}, g \in P, Edit!There(g), row[g].on
         PROVE  Needs[row[g].text] \subseteq S
    <3>1. g \in O
      BY <2>4, <2>10 DEF Edit!SwitchedOn
    <3> QED BY <2>7, <2>10, <3>1
  <2> QED BY <2>3, <2>9, <2>10
<1> QED BY <1>3, <1>4, <1>5, <1>6

\* Of the other flows it takes nothing they need.
LEMMA GrantLeaves ==
  ASSUME Edit!Given, EditTyped, NEW f \in Editable, NEW t \in Texts, NEW r \in PanelRoles, UNCHANGED row,
         NEW gives \in BOOLEAN,
         \A s \in PanelRoles \ {r} : permissions'[s] = permissions[s],
         gives => permissions'[r] = permissions[r] \cup {f} \cup Needs[t],
         ~gives =>
              /\ f \notin permissions'[r] /\ permissions'[r] \subseteq permissions[r]
              /\ \A g \in Editable \ {f} : g \in permissions[r] /\ Edit!There(g) /\ row[g].on =>
                   Needs[row[g].text] \cap permissions[r] \subseteq permissions'[r],
         NEW g \in Editable \ {f}, Usable(g)
  PROVE  Usable(g)'
<1> SUFFICES ASSUME NEW s \in PanelRoles, g \in permissions'[s]
             PROVE  Edit!There(g) /\ (row[g].on => Needs[row[g].text] \subseteq permissions'[s])
  BY DEF Usable, Edit!There
<1>1. CASE s # r
  BY <1>1 DEF Usable
<1>2. CASE s = r /\ gives
  <2>1. g \in permissions[r]
    BY <1>2 DEF Edit!Given
  <2> QED BY <1>2, <2>1 DEF Usable
<1>3. CASE s = r /\ ~gives
  <2>1. g \in permissions[r]
    BY <1>3
  <2>2. Edit!There(g) /\ (row[g].on => Needs[row[g].text] \subseteq permissions[r])
    BY <2>1 DEF Usable
  <2> QED BY <1>3, <2>1, <2>2
<1> QED BY <1>1, <1>2, <1>3

LEMMA GrantTicks ==
  ASSUME Edit!Given, EditInv, Ticking, NEW a \in Admins, Edit!Grant(a)
  PROVE  Ticking'
<1> DEFINE q == request[a]
<1>1. q # None /\ q.stage = "grant" /\ UNCHANGED <<row, cuts, crossed>>
  BY DEF Edit!Grant, Edit!At, Edit!history
<1>2. EditTyped /\ Alone /\ q \in Edit!Asks /\ Sound(q)
  BY <1>1, UnderWay DEF EditInv
<1>3. PICK r \in q.left :
        /\ permissions' = [permissions EXCEPT ![r] =
              IF r \in q.roles THEN @ \cup (Edit!Required(q) \ q.seen[r])
              ELSE @ \ ((Edit!Required(q) \cap q.seen[r]) \ Edit!StillNeeded(q, r))]
        /\ IF q.left # {r} THEN request' = [request EXCEPT ![a] = [q EXCEPT !.left = q.left \ {r}]]
           ELSE IF Edit!Then(q) = "over" THEN request' = [request EXCEPT ![a] = None]
           ELSE request' = [request EXCEPT ![a] =
                  [q EXCEPT !.stage = Edit!Then(q), !.left = {}, !.seen = None, !.others = None]]
  BY DEF Edit!Grant, Edit!GoOn, Edit!Over
<1>4. r \in PanelRoles /\ q.left \in SUBSET PanelRoles
  BY <1>2, <1>3 DEF Edit!Asks
<1>5. PICK f \in Editable, t \in Texts : f = q.flow /\ t = q.text
  BY <1>1, <1>2 DEF Sound, Syncing
<1>6. Edit!Calm => Knows(q)
  BY <1>1 DEF Ticking
<1> DEFINE Written(p) ==
             /\ \A s \in PanelRoles \ {r} : p[s] = permissions[s]
             /\ r \in q.roles => p[r] = permissions[r] \cup {f} \cup Needs[t]
             /\ r \notin q.roles =>
                  /\ f \notin p[r] /\ p[r] \subseteq permissions[r]
                  /\ \A g \in Editable \ {f} : g \in permissions[r] /\ Edit!There(g) /\ row[g].on =>
                       Needs[row[g].text] \cap permissions[r] \subseteq p[r]
<1>7. ASSUME Edit!Calm
      PROVE  Written(permissions')
  <2>1. PICK k : k = q
    OBVIOUS
  <2>2. /\ k \in Edit!Asks /\ Knows(k) /\ k.stage = "grant" /\ k.flow = f /\ k.text = t /\ r \in k.left
    BY <1>1, <1>2, <1>3, <1>5, <1>6, <1>7, <2>1
  <2>4. Writes(k, r)
    BY <1>3, <2>1 DEF Writes
  <2> HIDE DEF q
  <2>3. /\ \A s \in PanelRoles \ {r} : permissions'[s] = permissions[s]
        /\ r \in k.roles => permissions'[r] = permissions[r] \cup {f} \cup Needs[t]
        /\ r \notin k.roles =>
             /\ f \notin permissions'[r] /\ permissions'[r] \subseteq permissions[r]
             /\ \A g \in Editable \ {f} : g \in permissions[r] /\ Edit!There(g) /\ row[g].on =>
                  Needs[row[g].text] \cap permissions[r] \subseteq permissions'[r]
    BY <1>2, <1>4, <2>2, <2>4, GrantGives
  <2> QED BY <2>1, <2>3
<1>8. ASSUME Edit!Calm, NEW g \in Editable, g # f
      PROVE  Usable(g)'
  <2>1. Usable(g)
    <3>1. ~InHand(g)
      BY <1>1, <1>2, <1>5, <1>8 DEF InHand, Alone, Edit!Calm
    <3> QED BY <1>8, <3>1 DEF Ticking
  <2>2. PICK o \in BOOLEAN : o = (r \in q.roles)
    <3>1. (r \in q.roles) \in BOOLEAN
      OBVIOUS
    <3> QED BY <3>1
  <2>3. Written(permissions')
    BY <1>7, <1>8
  <2> HIDE DEF q
  <2> QED BY <1>1, <1>2, <1>4, <1>8, <2>1, <2>2, <2>3, GrantLeaves
<1>9. ASSUME Edit!Calm, NEW s \in PanelRoles \ (q.left \ {r})
      PROVE  (f \in permissions'[s] => s \in q.roles) /\ (s \in q.roles => Needs[t] \subseteq permissions'[s])
  <2>1. CASE s = r
    BY <1>7, <1>9, <2>1
  <2>2. CASE s # r
    <3>1. permissions'[s] = permissions[s]
      BY <1>7, <1>9, <2>2
    <3>2. s \in PanelRoles \ q.left
      BY <1>9, <2>2
    <3> QED BY <1>1, <1>5, <1>6, <1>9, <3>1, <3>2 DEF Knows
  <2> QED BY <2>1, <2>2
<1>10. ASSUME Edit!Calm
       PROVE  Edit!There(f) /\ row[f].text = t
  BY <1>1, <1>5, <1>6, <1>10 DEF Knows, Current, Syncing
<1>11. ASSUME Edit!Calm, q.left = {r}
       PROVE  Usable(f)' /\ \A s \in PanelRoles : f \in permissions'[s] => s \in q.roles
              /\ Needs[t] \subseteq permissions'[s]
  <2>1. \A s \in PanelRoles : f \in permissions'[s] => s \in q.roles /\ Needs[t] \subseteq permissions'[s]
    BY <1>9, <1>11
  <2> HIDE DEF q
  <2> QED BY <1>1, <1>10, <1>11, <2>1 DEF Usable, Edit!There
<1> HIDE DEF Written
<1>12. CASE q.left # {r}
  <2> DEFINE y == [q EXCEPT !.left = q.left \ {r}]
  <2>1. request' = [request EXCEPT ![a] = y]
    BY <1>3, <1>12
  <2>2. PICK k : k = q
    OBVIOUS
  <2>3. PICK x : x = [k EXCEPT !.left = k.left \ {r}]
    OBVIOUS
  <2>4. request' = [request EXCEPT ![a] = x] /\ k \in Edit!Asks
    BY <1>2, <2>1, <2>2, <2>3
  <2>5. x.stage = k.stage /\ x.kind = k.kind /\ x.flow = k.flow /\ x.text = k.text
    BY <2>3, <2>4 DEF Edit!Asks
  <2>6. x.seen = k.seen /\ x.roles = k.roles /\ x.todo = k.todo
    BY <2>3, <2>4 DEF Edit!Asks
  <2>7. x.left = k.left \ {r} /\ x.others = k.others
    BY <2>3, <2>4 DEF Edit!Asks
  <2>8. ASSUME Edit!Calm
        PROVE  Knows(x)'
    <3>1. Knows(k) /\ k.stage = "grant" /\ k.flow = f /\ k.text = t
      BY <1>1, <1>5, <1>6, <2>2, <2>8
    <3>2. \A s \in k.left \ {r} : k.seen[s] = permissions'[s]
      <4>1. \A s \in k.left \ {r} : s \in PanelRoles \ {r}
        BY <1>4, <2>2
      <4>2. \A s \in PanelRoles \ {r} : permissions'[s] = permissions[s]
        BY <1>7, <2>8 DEF Written
      <4> QED BY <3>1, <4>1, <4>2 DEF Knows
    <3>3. k.others = [g \in Edit!SwitchedOn(Editable \ {f}) |-> row[g].text]
      BY <3>1 DEF Knows
    <3>4. \A s \in PanelRoles \ (k.left \ {r}) :
            (f \in permissions'[s] => s \in k.roles) /\ (s \in k.roles => Needs[t] \subseteq permissions'[s])
      BY <1>9, <2>2, <2>8
    <3>5. Current(k) /\ (k.kind = "delete" => k.roles = {}) /\ k.seen \in [PanelRoles -> SUBSET Edit!Keys]
          /\ (k.kind = "role" => \A z \in k.todo : Edit!There(z.flow) /\ row[z.flow].text = z.text)
      BY <3>1 DEF Knows, Syncing
    <3>6. Current(x)' /\ (x.kind = "role" => \A z \in x.todo : Edit!There(z.flow)' /\ row'[z.flow].text = z.text)
      BY <1>1, <2>5, <2>6, <3>5 DEF Current, Edit!There
    <3>7. x.others = [g \in Edit!SwitchedOn(Editable \ {x.flow})' |-> row'[g].text]
      BY <1>1, <2>5, <2>7, <3>1, <3>3 DEF Edit!SwitchedOn, Edit!There
    <3>8. x.stage = "grant" /\ x.flow = f /\ x.text = t
      BY <2>5, <3>1
    <3> QED BY <2>5, <2>6, <2>7, <3>2, <3>4, <3>5, <3>6, <3>7, <3>8 DEF Knows
  <2>9. \A g \in Editable : Edit!Calm => Usable(g)' \/ (x.flow = g /\ x.stage = "grant")
    BY <1>1, <1>5, <1>8, <2>2, <2>5
  <2>10. x # None
    <3>1. k.left \ {r} \in SUBSET PanelRoles
      BY <1>4, <2>2
    <3>2. x \in Edit!Asks
      BY <2>3, <2>4, <3>1 DEF Edit!Asks
    <3> QED BY <3>2 DEF Edit!Given
  <2> HIDE DEF q
  <2> QED BY <1>1, <1>2, <2>4, <2>8, <2>9, <2>10, OnlyTicks DEF q, Syncing
<1>13. CASE q.left = {r} /\ Edit!Then(q) = "over"
  <2>1. request' = [request EXCEPT ![a] = None]
    BY <1>3, <1>13
  <2>2. Edit!Calm => \A g \in Editable : Usable(g)'
    BY <1>8, <1>11, <1>13
  <2> QED BY <1>1, <1>2, <2>1, <2>2, OnlyTicks
<1>14. CASE q.left = {r} /\ Edit!Then(q) # "over"
  <2>1. PICK k : k = q
    OBVIOUS
  <2>2. PICK n : n = Edit!Then(k)
    OBVIOUS
  <2>3. PICK x : x = [k EXCEPT !.stage = n, !.left = {}, !.seen = None, !.others = None]
    OBVIOUS
  <2>4. request' = [request EXCEPT ![a] = x] /\ k \in Edit!Asks
    BY <1>2, <1>3, <1>14, <2>1, <2>2, <2>3
  <2>5. \/ k.kind = "save" /\ n = "forget"
        \/ k.kind = "switch" /\ n = "flip"
        \/ k.kind = "delete" /\ n = "remove"
        \/ k.kind = "role" /\ n = "next"
    BY <1>14, <2>1, <2>2 DEF Edit!Then
  <2>6. x.stage = n /\ x.kind = k.kind /\ x.flow = k.flow
    BY <2>3, <2>4 DEF Edit!Asks
  <2>7. x.todo = k.todo /\ x.roles = k.roles
    BY <2>3, <2>4 DEF Edit!Asks
  <2>8. ASSUME Edit!Calm
        PROVE  Knows(x)'
    <3>1. Knows(k) /\ k.stage = "grant" /\ k.flow = f
      BY <1>1, <1>5, <1>6, <2>1, <2>8
    <3>2. /\ k.kind = "delete" => k.roles = {}
          /\ k.kind = "role" => \A z \in k.todo : Edit!There(z.flow) /\ row[z.flow].text = z.text
      BY <3>1 DEF Knows, Syncing
    <3>3. \A s \in PanelRoles : f \in permissions'[s] => s \in k.roles /\ Needs[t] \subseteq permissions'[s]
      BY <1>11, <1>14, <2>1, <2>8
    <3>4. Edit!There(f)' /\ row'[f].text = t
      BY <1>1, <1>10, <2>8 DEF Edit!There
    <3>5. CASE n = "forget"
      BY <2>5, <2>6, <3>5 DEF Knows, Syncing
    <3>6. CASE n = "flip"
      BY <2>5, <2>6, <3>1, <3>3, <3>4, <3>6 DEF Knows, Syncing
    <3>7. CASE n = "remove"
      BY <2>5, <2>6, <3>1, <3>2, <3>3, <3>7 DEF Knows, Syncing
    <3>8. CASE n = "next"
      BY <1>1, <2>5, <2>6, <2>7, <3>2, <3>8 DEF Knows, Syncing, Edit!There
    <3> QED BY <2>5, <3>5, <3>6, <3>7, <3>8
  <2>9. Edit!Calm => \A g \in Editable : Usable(g)'
    BY <1>8, <1>11, <1>14
  <2> HIDE DEF q
  <2> QED BY <1>1, <1>2, <2>4, <2>8, <2>9, OnlyTicks DEF q
<1> QED BY <1>12, <1>13, <1>14

\* A flow whose roles are not being put right can be used by those who have it.
LEMMA OthersUsable ==
  ASSUME Alone, Ticking, Edit!Calm, NEW a \in Admins, request[a] # None, NEW f \in Editable,
         request[a].stage \in {"granted"} \cup Syncing => request[a].flow # f
  PROVE  Usable(f)
<1>1. ~InHand(f)
  BY DEF InHand, Alone, Edit!Calm
<1> QED BY <1>1 DEF Ticking

LEMMA SaveTicks ==
  ASSUME Edit!Given, EditInv, Ticking, NEW a \in Admins, Edit!Save(a)
  PROVE  Ticking'
<1> DEFINE q == request[a]
           f == q.flow
<1>1. /\ q # None /\ q.stage = "save" /\ f \in Editable /\ Edit!There(f)
      /\ UNCHANGED <<permissions, cuts, crossed>>
      /\ \E text \in Texts, new \in Edit!Rows, m \in Edit!Made, x \in Edit!Asks, s \in Snapshots :
           Saved(a, row[f].version, text, new, m, x, s)
  BY SaveMakes DEF EditInv
<1>2. EditTyped /\ Alone /\ Sound(q)
  BY <1>1, UnderWay DEF EditInv
<1>3. q.kind \in {"save", "create"}
  BY <1>1, <1>2 DEF Sound, Syncing, Forgetting
<1>4. PICK text \in Texts, new \in Edit!Rows, m \in Edit!Made, x \in Edit!Asks, s \in Snapshots :
        Saved(a, row[f].version, text, new, m, x, s)
  BY <1>1
<1>5. row' = [row EXCEPT ![f] = new] /\ new.text = text
  BY <1>4 DEF Saved
<1>6. request' = [request EXCEPT ![a] = x] /\ x.stage = "granted" /\ x.kind = q.kind /\ x.flow = f /\ x.text = text
  BY <1>4 DEF Saved
<1>7. new # None /\ x # None
  BY DEF Edit!Given
<1>8. row'[f] = new /\ \A g \in Editable \ {f} : row'[g] = row[g]
  BY <1>1, <1>2, <1>5 DEF EditTyped
<1>9. Knows(x)'
  BY <1>3, <1>5, <1>6, <1>7, <1>8 DEF Knows, Current, Edit!There, Syncing
<1>10. ASSUME Edit!Calm, NEW g \in Editable, g # f
       PROVE  Usable(g)'
  <2>1. Usable(g)
    BY <1>1, <1>2, <1>10, OthersUsable DEF Syncing
  <2> QED BY <1>1, <1>8, <1>10, <2>1 DEF Usable, Edit!There
<1> HIDE DEF q, f
<1> QED BY <1>1, <1>2, <1>6, <1>7, <1>9, <1>10, OnlyTicks DEF q

LEMMA CreateTicks ==
  ASSUME Edit!Given, EditInv, Ticking, NEW a \in Admins, Edit!Create(a)
  PROVE  Ticking'
<1> DEFINE q == request[a]
<1>1. q # None /\ q.stage = "create" /\ UNCHANGED <<permissions, cuts, crossed>>
  BY DEF Edit!Create, Edit!At
<1>2. EditTyped /\ Alone /\ q \in Edit!Asks /\ Sound(q)
  BY <1>1, UnderWay DEF EditInv
<1>3. q.kind = "create" /\ q.flow \in Editable /\ q.plain \in BOOLEAN
  BY <1>1, <1>2 DEF Sound, Syncing, Forgetting, Edit!Asks
<1>4. PICK f \in Edit!FreeKeys(q) :
        /\ row' = [row EXCEPT ![f] = [version |-> 1, text |-> q.text, on |-> f \in Blocks, plain |-> 0]]
        /\ IF q.plain THEN request' = [request EXCEPT ![a] = [q EXCEPT !.stage = "base", !.flow = f]]
           ELSE request' = [request EXCEPT ![a] = None]
  BY DEF Edit!Create, Edit!GoOn, Edit!Over
<1>5. f \in Editable /\ made[f] = <<>>
  BY <1>3, <1>4 DEF Edit!FreeKeys
<1>6. \A g \in Editable \ {f} : row'[g] = row[g]
  BY <1>2, <1>4 DEF EditTyped
<1>7. PICK x : request' = [request EXCEPT ![a] = x] /\ (x # None => x.kind = "create" /\ x.stage = "base")
  <2>1. CASE q.plain = TRUE
    <3> DEFINE x == [q EXCEPT !.stage = "base", !.flow = f]
    <3>1. request' = [request EXCEPT ![a] = x]
      BY <1>4, <2>1
    <3> HIDE DEF q
    <3>2. x.stage = "base" /\ x.kind = q.kind
      BY <1>2 DEF Edit!Asks
    <3> QED BY <1>3, <3>1, <3>2
  <2>2. CASE q.plain # TRUE
    BY <1>3, <1>4, <2>2
  <2> QED BY <2>1, <2>2
<1>8. ~Edit!There(f)
  BY <1>5 DEF EditInv, History, LastMade
<1>9. ASSUME Edit!Calm, NEW g \in Editable
      PROVE  Usable(g)'
  <2>1. Usable(g)
    BY <1>1, <1>2, <1>9, OthersUsable DEF Syncing
  <2>2. g = f => \A r \in PanelRoles : g \notin permissions[r]
    BY <1>8, <2>1 DEF Usable
  <2> QED BY <1>1, <1>6, <2>1, <2>2 DEF Usable, Edit!There
<1>10. x # None => Knows(x)'
  BY <1>7 DEF Knows, Syncing
<1> HIDE DEF q
<1> QED BY <1>1, <1>2, <1>7, <1>9, <1>10, OnlyTicks DEF q

LEMMA ForgetPlainTicks ==
  ASSUME Edit!Given, EditInv, Ticking, NEW a \in Admins, Edit!ForgetPlain(a)
  PROVE  Ticking'
<1>1. request[a] # None /\ request[a].stage = "forget" /\ request' = [request EXCEPT ![a] = None]
  BY DEF Edit!ForgetPlain, Edit!At, Edit!Over
<1>2. EditTyped /\ Alone
  BY DEF EditInv
<1>3. Relabels /\ \A g \in Editable : row[g] # None => row'[g].on = row[g].on
  BY <1>2, ForgetPlainSeen
<1>4. ASSUME Edit!Calm, NEW g \in Editable
      PROVE  Usable(g)'
  <2>1. Usable(g)
    BY <1>1, <1>2, <1>4, OthersUsable DEF Syncing
  <2> QED BY <1>3, <2>1 DEF Usable, Relabels, Edit!There
<1> QED BY <1>1, <1>2, <1>3, <1>4, OnlyTicks DEF Relabels

LEMMA FlipTicks ==
  ASSUME Edit!Given, EditInv, Ticking, NEW a \in Admins, Edit!Flip(a)
  PROVE  Ticking'
<1> DEFINE f == request[a].flow
<1>1. request[a] # None /\ request[a].stage = "flip" /\ request' = [request EXCEPT ![a] = None]
  BY DEF Edit!Flip, Edit!At, Edit!Over
<1>2. EditTyped /\ Alone
  BY DEF EditInv
<1>3. Relabels /\ \A g \in Editable \ {f} : row'[g] = row[g]
  BY <1>2, FlipSeen
<1>4. ASSUME Edit!Calm, NEW g \in Editable
      PROVE  Usable(g)'
  <2>1. Usable(g)
    BY <1>1, <1>2, <1>4, OthersUsable DEF Syncing
  <2>2. CASE g # f
    BY <1>3, <2>1, <2>2 DEF Usable, Relabels, Edit!There
  <2>3. CASE g = f
    <3>1. Edit!There(g) /\ \A r \in PanelRoles : g \in permissions[r] => Needs[row[g].text] \subseteq permissions[r]
      BY <1>1, <1>4, <2>3 DEF Ticking, Knows
    <3> QED BY <1>3, <3>1 DEF Usable, Relabels, Edit!There
  <2> QED BY <2>2, <2>3
<1> QED BY <1>1, <1>2, <1>3, <1>4, OnlyTicks DEF Relabels

LEMMA RemoveTicks ==
  ASSUME Edit!Given, EditInv, Ticking, NEW a \in Admins, Edit!Remove(a)
  PROVE  Ticking'
<1> DEFINE f == request[a].flow
<1>1. request[a] # None /\ request[a].stage = "remove" /\ request' = [request EXCEPT ![a] = None]
      /\ row' = [row EXCEPT ![f] = None] /\ UNCHANGED <<permissions, cuts, crossed>>
  BY DEF Edit!Remove, Edit!At, Edit!Over, Edit!history
<1>2. EditTyped /\ Alone
  BY DEF EditInv
<1>3. \A g \in Editable \ {f} : row'[g] = row[g]
  BY <1>1, <1>2 DEF EditTyped
<1>4. ASSUME Edit!Calm, NEW g \in Editable
      PROVE  Usable(g)'
  <2>1. Usable(g)
    BY <1>1, <1>2, <1>4, OthersUsable DEF Syncing
  <2>2. g = f => \A r \in PanelRoles : g \notin permissions[r]
    <3>1. Knows(request[a])
      BY <1>1, <1>4 DEF Ticking
    <3>2. request[a].stage = "remove"
      BY <1>1
    <3>3. \A r \in PanelRoles : request[a].flow \notin permissions[r]
      BY <3>1, <3>2 DEF Knows
    <3> QED BY <3>3
  <2>3. CASE g = f
    BY <1>1, <2>2, <2>3 DEF Usable
  <2>4. CASE g # f
    <3>1. row'[g] = row[g]
      BY <1>3, <2>4
    <3> QED BY <1>1, <2>1, <3>1 DEF Usable, Edit!There
  <2> QED BY <2>3, <2>4
<1> QED BY <1>1, <1>2, <1>4, OnlyTicks

\* What is asked for is known.
LEMMA AsksKnow ==
  ASSUME Edit!Given, EditTyped, NEW a \in Admins, Edit!Asking(a)
  PROVE  \E q : request' = [request EXCEPT ![a] = q] /\ Knows(q)
<1> USE DEF Edit!Ask
<1>1. ASSUME NEW t \in Texts, Edit!AskSave(a, t)
      PROVE  \E q : request' = [request EXCEPT ![a] = q] /\ Knows(q)
  <2> DEFINE p == page[a]
             q == [Edit!Sent EXCEPT !.kind = "save", !.stage = "save", !.flow = p.flow, !.base = p.base,
                     !.from = p.from, !.plain = p.plain, !.text = t]
  <2>1. request' = [request EXCEPT ![a] = q]
    BY <1>1 DEF Edit!AskSave
  <2>2. q.kind = "save" /\ q.stage = "save"
    BY SentIsOne DEF Edit!Asks
  <2> HIDE DEF q
  <2> QED BY <2>1, <2>2, KnowsNothing
<1>2. ASSUME NEW v, Edit!AskRestore(a, v)
      PROVE  \E q : request' = [request EXCEPT ![a] = q] /\ Knows(q)
  <2> DEFINE p == page[a]
             q == [Edit!Sent EXCEPT !.kind = "save", !.stage = "save", !.flow = p.flow, !.base = p.base,
                     !.from = p.base, !.text = kept[p.flow][v].text]
  <2>1. request' = [request EXCEPT ![a] = q]
    BY <1>2 DEF Edit!AskRestore
  <2>2. q.kind = "save" /\ q.stage = "save"
    BY SentIsOne DEF Edit!Asks
  <2> HIDE DEF q
  <2> QED BY <2>1, <2>2, KnowsNothing
<1>3. ASSUME NEW f \in Editable, NEW t \in Texts, NEW plain \in BOOLEAN, Edit!AskCreate(a, f, t, plain)
      PROVE  \E q : request' = [request EXCEPT ![a] = q] /\ Knows(q)
  <2> DEFINE q == [Edit!Sent EXCEPT !.kind = "create", !.stage = "create", !.flow = f, !.base = 1, !.from = 1,
                     !.plain = plain, !.text = t]
  <2>1. request' = [request EXCEPT ![a] = q]
    BY <1>3 DEF Edit!AskCreate
  <2>2. q.kind = "create" /\ q.stage = "create"
    BY SentIsOne DEF Edit!Asks
  <2> HIDE DEF q
  <2> QED BY <2>1, <2>2, KnowsNothing
<1>4. ASSUME NEW f \in Editable, NEW R \in SUBSET PanelRoles, Edit!AskRoles(a, f, R)
      PROVE  \E q : request' = [request EXCEPT ![a] = q] /\ Knows(q)
  <2> DEFINE q == [Edit!Sent EXCEPT !.kind = "roles", !.stage = "roles", !.flow = f, !.text = row[f].text,
         !.roles = R]
  <2>1. request' = [request EXCEPT ![a] = q] /\ Edit!There(f)
    BY <1>4 DEF Edit!AskRoles
  <2>2. q.kind = "roles" /\ q.stage = "roles" /\ q.flow = f /\ q.text = row[f].text
    BY SentIsOne DEF Edit!Asks
  <2> HIDE DEF q
  <2>3. Knows(q)
    BY <2>1, <2>2 DEF Knows, Current, Syncing
  <2> QED BY <2>1, <2>3
<1>5. ASSUME NEW r \in PanelRoles, NEW W \in SUBSET (Editable \ Blocks), Edit!AskRole(a, r, W)
      PROVE  \E q : request' = [request EXCEPT ![a] = q] /\ Knows(q)
  <2> DEFINE T == {[flow |-> f, text |-> row[f].text, wanted |-> f \in W] :
                     f \in {g \in Editable \ Blocks : Edit!There(g)}}
             q == [Edit!Sent EXCEPT !.kind = "role", !.stage = "next", !.role = r, !.todo = T]
  <2>1. request' = [request EXCEPT ![a] = q]
    BY <1>5 DEF Edit!AskRole
  <2>2. \A y \in T : Edit!There(y.flow) /\ row[y.flow].text = y.text
    OBVIOUS
  <2> HIDE DEF T
  <2>3. q.kind = "role" /\ q.stage = "next" /\ q.todo = T
    BY SentIsOne DEF Edit!Asks
  <2> HIDE DEF q
  <2>4. Knows(q)
    BY <2>2, <2>3 DEF Knows, Syncing
  <2> QED BY <2>1, <2>4
<1>6. ASSUME NEW f \in Editable, Edit!AskSwitch(a, f)
      PROVE  \E q : request' = [request EXCEPT ![a] = q] /\ Knows(q)
  <2>1. PICK b \in BOOLEAN : b = ~row[f].on
    BY Zenon
  <2> DEFINE q == [Edit!Sent EXCEPT !.kind = "switch", !.stage = "switch", !.flow = f, !.on = b]
  <2>2. request' = [request EXCEPT ![a] = [Edit!Sent EXCEPT !.kind = "switch", !.stage = "switch", !.flow = f,
                                             !.on = ~row[f].on]]
    BY <1>6 DEF Edit!AskSwitch
  <2>3. request' = [request EXCEPT ![a] = q]
    BY <2>1, <2>2
  <2>4. q.kind = "switch" /\ q.stage = "switch"
    BY SentIsOne DEF Edit!Asks
  <2> HIDE DEF q
  <2> QED BY <2>3, <2>4, KnowsNothing
<1>7. ASSUME NEW f \in Editable, Edit!AskDelete(a, f)
      PROVE  \E q : request' = [request EXCEPT ![a] = q] /\ Knows(q)
  <2> DEFINE q == [Edit!Sent EXCEPT !.kind = "delete", !.stage = "keep", !.flow = f, !.text = row[f].text,
                     !.base = row[f].version]
  <2>1. request' = [request EXCEPT ![a] = q] /\ Edit!There(f)
    BY <1>7 DEF Edit!AskDelete
  <2>2. q.kind = "delete" /\ q.stage = "keep" /\ q.flow = f /\ q.text = row[f].text
    BY SentIsOne DEF Edit!Asks
  <2> HIDE DEF q
  <2>3. Knows(q)
    BY <2>1, <2>2 DEF Knows, Current, Syncing
  <2> QED BY <2>1, <2>3
<1> QED BY <1>1, <1>2, <1>3, <1>4, <1>5, <1>6, <1>7 DEF Edit!Asking

LEMMA AskingTicks ==
  ASSUME Edit!Given, EditInv, Ticking, NEW a \in Admins, Edit!Asking(a)
  PROVE  Ticking'
<1>1. EditTyped
  BY DEF EditInv
<1>2. PICK k : /\ request[a] = None /\ request' = [request EXCEPT ![a] = k]
               /\ crossed' = (crossed \/ \E b \in Admins \ {a} : request[b] # None)
               /\ UNCHANGED <<row, permissions, cuts>>
  BY <1>1, AskingBegins DEF Begins
<1>3. PICK q : request' = [request EXCEPT ![a] = q] /\ Knows(q)
  BY <1>1, AsksKnow
<1>4. request'[a] = q /\ \A b \in Admins \ {a} : request'[b] = request[b]
  BY <1>1, <1>3 DEF EditTyped
<1> SUFFICES ASSUME Edit!Calm'
             PROVE  /\ \A b \in Admins : request'[b] # None => Knows(request[b])'
                    /\ \A f \in Editable : Usable(f)' \/ InHand(f)'
  BY DEF Ticking
<1>5. Edit!Calm /\ \A b \in Admins : request[b] = None
  BY <1>2 DEF Edit!Calm
<1>6. ASSUME NEW b \in Admins, request'[b] # None
      PROVE  Knows(request[b])'
  <2>1. b = a
    BY <1>4, <1>5, <1>6
  <2>2. Knows(q)'
    BY <1>2, <1>3 DEF Knows, Current, Edit!SwitchedOn, Edit!There
  <2> QED BY <1>4, <2>1, <2>2 DEF Knows, Current, Edit!SwitchedOn, Edit!There
<1>7. ASSUME NEW f \in Editable
      PROVE  Usable(f)'
  <2>1. Usable(f)
    BY <1>5 DEF Ticking, InHand
  <2> QED BY <1>2, <2>1 DEF Usable, Edit!There
<1> QED BY <1>6, <1>7

LEMMA WorkingTicks ==
  ASSUME Edit!Given, EditInv, Ticking, NEW a \in Admins, Edit!Working(a)
  PROVE  Ticking'
<1>1. CASE Edit!Create(a)
  BY <1>1, CreateTicks
<1>2. CASE Edit!CreateFails(a) \/ Edit!Refuse(a) \/ Edit!RoleDone(a)
  BY <1>2, CreateFailsTicks
<1>3. CASE Edit!ReadBase(a)
  BY <1>3, ReadBaseTicks
<1>4. CASE Edit!Save(a)
  BY <1>4, SaveTicks
<1>5. CASE Edit!ReadGranted(a)
  BY <1>5, ReadGrantedTicks
<1>6. CASE Edit!ForgetPlain(a)
  BY <1>6, ForgetPlainTicks
<1>7. CASE Edit!ReadRoles(a)
  BY <1>7, ReadRolesTicks
<1>8. CASE Edit!ReadOthers(a)
  BY <1>8, ReadOthersTicks
<1>9. CASE Edit!Grant(a)
  BY <1>9, GrantTicks
<1>10. CASE Edit!RoleFlow(a)
  BY <1>10, RoleFlowTicks
<1>11. CASE Edit!SwitchReads(a)
  BY <1>11, SwitchReadsTicks
<1>12. CASE Edit!Flip(a)
  BY <1>12, FlipTicks
<1>13. CASE Edit!Keep(a)
  BY <1>13, KeepTicks
<1>14. CASE Edit!Remove(a)
  BY <1>14, RemoveTicks
<1> QED BY <1>1, <1>2, <1>3, <1>4, <1>5, <1>6, <1>7, <1>8, <1>9, <1>10, <1>11, <1>12, <1>13, <1>14 DEF Edit!Working

\* A step without requests, that leaves who may use the flows, their steps and whether they are on.
LEMMA AsideTicks ==
  ASSUME EditTyped, Ticking, UNCHANGED <<permissions, request, cuts>>, crossed => crossed',
         \A f \in Editable : row[f] # None <=> row'[f] # None,
         \A f \in Editable : row[f] # None => row'[f].text = row[f].text /\ row'[f].on = row[f].on
  PROVE  Ticking'
<1> SUFFICES ASSUME Edit!Calm'
             PROVE  /\ \A b \in Admins : request'[b] # None => Knows(request[b])'
                    /\ \A f \in Editable : Usable(f)' \/ InHand(f)'
  BY DEF Ticking
<1>1. Edit!Calm
  BY DEF Edit!Calm
<1>2. ASSUME NEW b \in Admins, request'[b] # None
      PROVE  Knows(request[b])'
  <2>1. Knows(request[b]) /\ request[b] \in Edit!Asks /\ Sound(request[b])
    BY <1>1, <1>2, UnderWay DEF Ticking
  <2>2. PICK q : q = request[b]
    OBVIOUS
  <2>3. q.stage # "next" => q.flow \in Editable
    BY <2>1, <2>2 DEF Sound
  <2>4. \A y \in q.todo : y.flow \in Editable
    BY <2>1, <2>2 DEF Edit!Asks, Edit!Tasks
  <2>5. PICK O : O = Edit!SwitchedOn(Editable \ {q.flow})
    OBVIOUS
  <2>6. O = {g \in Editable \ {q.flow} : row[g] # None /\ row[g].on}
    BY <2>5 DEF Edit!SwitchedOn, Edit!There
  <2>7. Edit!SwitchedOn(Editable \ {q.flow})' = O
    BY <2>6 DEF Edit!SwitchedOn, Edit!There
  <2>8. \A g \in O : row'[g].text = row[g].text
    BY <2>6
  <2>9. [g \in O |-> row'[g].text] = [g \in O |-> row[g].text]
    BY <2>8
  <2>10. Knows(q)
    BY <2>1, <2>2
  <2>11. q.stage = "grant" => q.others = [g \in Edit!SwitchedOn(Editable \ {q.flow})' |-> row'[g].text]
    BY <2>5, <2>7, <2>9, <2>10 DEF Knows
  <2>12. Current(q) /\ q.flow \in Editable => Current(q)'
    BY DEF Current, Edit!There
  <2>13. Knows(q)'
    BY <2>3, <2>4, <2>10, <2>11, <2>12 DEF Knows, Edit!There, Syncing
  <2> QED BY <2>2, <2>13
<1>3. ASSUME NEW f \in Editable
      PROVE  Usable(f)' \/ InHand(f)'
  <2>1. Usable(f) \/ InHand(f)
    BY <1>1 DEF Ticking
  <2>2. InHand(f) => InHand(f)'
    BY DEF InHand
  <2>3. Usable(f) => Usable(f)'
    BY DEF Usable, Edit!There
  <2> QED BY <2>1, <2>2, <2>3
<1> QED BY <1>2, <1>3

LEMMA NextTicks ==
  ASSUME Edit!Given, EditInv, Ticking, [Edit!Next]_(Edit!vars)
  PROVE  Ticking'
<1>0. EditTyped
  BY DEF EditInv
<1>1. ASSUME NEW a \in Admins, Edit!Paging(a)
      PROVE  Ticking'
  <2>1. UNCHANGED <<row, permissions, request, cuts>> /\ (crossed => crossed')
    BY <1>0, <1>1, PagingSeen
  <2> QED BY <1>0, <2>1, AsideTicks
<1>3. ASSUME NEW f \in Editable, Edit!Convert(f)
      PROVE  Ticking'
  <2>1. Relabels /\ UNCHANGED request /\ \A g \in Editable : row[g] # None => row'[g].on = row[g].on
    BY <1>0, <1>3, ConvertSeen
  <2> QED BY <1>0, <2>1, AsideTicks DEF Relabels
<1>4. ASSUME NEW a \in Admins, Edit!Asking(a)
      PROVE  Ticking'
  BY <1>4, AskingTicks
<1>5. ASSUME NEW a \in Admins, Edit!Working(a)
      PROVE  Ticking'
  BY <1>5, WorkingTicks
<1>6. ASSUME NEW a \in Admins, Edit!Cut(a)
      PROVE  Ticking'
  <2>1. cuts' = cuts + 1 /\ cuts \in Nat
    BY <1>0, <1>6 DEF Edit!Cut, EditTyped
  <2>2. ~Edit!Calm'
    BY <2>1 DEF Edit!Calm
  <2> QED BY <2>2 DEF Ticking
<1>7. CASE UNCHANGED Edit!vars
  <2>1. UNCHANGED <<row, permissions, request, cuts, crossed>>
    BY <1>7 DEF Edit!vars, Edit!history
  <2> QED BY <1>0, <2>1, AsideTicks
<1> QED BY <1>1, <1>3, <1>4, <1>5, <1>6, <1>7 DEF Edit!Next

LEMMA TicksBegin ==
  ASSUME Edit!Given, Edit!Init
  PROVE  Ticking
<1>1. PICK first \in Firsts :
        /\ row = [f \in Editable |->
             IF f \in {g \in Editable : first.texts[g] # None}
             THEN [version |-> 1, text |-> first.texts[f], on |-> f \in first.on, plain |-> 0] ELSE None]
        /\ permissions = [r \in PanelRoles |-> UNION {{f} \cup Needs[first.texts[f]]
             : f \in {g \in {h \in Editable : first.texts[h] # None} \cap first.on : r \in Ticked[g]}}]
        /\ request = [a \in Admins |-> None]
  BY DEF Edit!Init
<1>2. first.texts \in [Editable -> Texts \cup {None}]
  BY DEF Edit!Given
<1>3. EditTyped
  BY EditInitKeeps DEF EditInv
<1>4. ASSUME NEW f \in Editable
      PROVE  Usable(f)
  <2> SUFFICES ASSUME NEW r \in PanelRoles, f \in permissions[r]
               PROVE  Edit!There(f) /\ Needs[row[f].text] \subseteq permissions[r]
    BY DEF Usable
  <2> DEFINE H == {g \in {h \in Editable : first.texts[h] # None} \cap first.on : r \in Ticked[g]}
  <2>1. permissions[r] = UNION {{g} \cup Needs[first.texts[g]] : g \in H}
    BY <1>1
  <2>2. \A g \in H : g \in Editable /\ first.texts[g] \in Texts /\ first.texts[g] # None
    BY <1>2
  <2> HIDE DEF H
  <2>3. f \in H
    BY <2>1, <2>2 DEF Edit!Given
  <2>4. PICK t \in Texts : t = first.texts[f]
    BY <2>2, <2>3
  <2>5. PICK o : row[f] = [version |-> 1, text |-> t, on |-> o, plain |-> 0]
    BY <1>1, <2>2, <2>3, <2>4
  <2>6. row[f] # None
    <3>1. row[f] \in Edit!Rows \cup {None}
      BY <1>3 DEF EditTyped
    <3>2. PICK b \in BOOLEAN : b = (f \in first.on)
      <4>1. (f \in first.on) \in BOOLEAN
        OBVIOUS
      <4> QED BY <4>1
    <3>3. row[f] = [version |-> 1, text |-> t, on |-> b, plain |-> 0]
      BY <1>1, <2>2, <2>3, <2>4, <3>2
    <3>4. row[f] \in Edit!Rows
      BY <3>3 DEF Edit!Rows
    <3> QED BY <3>4 DEF Edit!Given
  <2>7. row[f].text = t
    BY <2>5
  <2>8. Needs[t] \subseteq permissions[r]
    BY <2>1, <2>3, <2>4
  <2> QED BY <2>6, <2>7, <2>8 DEF Edit!There
<1> QED BY <1>1, <1>4 DEF Ticking

LEMMA NeedsInvHolds ==
  ASSUME Edit!Given
  PROVE  Edit!Spec => [](EditInv /\ Blocked /\ Ticking)
<1>1. Edit!Init => EditInv /\ Blocked /\ Ticking
  BY EditInitKeeps, BlocksBegin, TicksBegin
<1>2. EditInv /\ Blocked /\ Ticking /\ [Edit!Next]_(Edit!vars) => (EditInv /\ Blocked /\ Ticking)'
  BY EditNextKeeps, NextBlocks, NextTicks
<1> QED BY <1>1, <1>2, PTL DEF Edit!Spec

-----------------------------------------------------------------------------
(* What holds *)

\* The tables, the open pages and the requests under way are what the panel's code and its tables take them to be.
THEOREM EditTyping == Edit!Spec => []Edit!TypeOK
<1> USE EditGiven
<1>1. ASSUME EditInv
      PROVE  Edit!TypeOK
  <2>1. \A f \in Editable : \A v \in DOMAIN kept[f] : v \in Nat /\ kept[f][v] \in Edit!Kept
    BY <1>1, KeptHasSteps DEF EditInv
  <2>2. \A f \in Editable : \A v \in DOMAIN made[f] : made[f][v] \in Edit!Made
    BY <1>1 DEF EditInv, EditTyped
  <2> QED BY <1>1, <2>1, <2>2 DEF EditInv, EditTyped, Edit!TypeOK
<1> QED BY <1>1, EditInvHolds, PTL

\* Nothing is lost by saving, restoring or deleting (_snapshot, _save, delete_workflow of studio.py): however the
\* requests of the admins run into each other and wherever they die, every version of a flow that is no longer the
\* one in its row is kept in workflow_versions, with the steps it had.
THEOREM NothingReplacedIsLost == Edit!Spec => []Edit!ReplacedIsKept
<1> USE EditGiven
<1>1. ASSUME EditInv
      PROVE  Edit!ReplacedIsKept
  <2> SUFFICES ASSUME NEW f \in Editable, NEW v \in DOMAIN made[f],
                      v < (IF Edit!There(f) THEN row[f].version ELSE Len(made[f]) + 1)
               PROVE  v \in DOMAIN kept[f] /\ kept[f][v].text = made[f][v].text
    BY DEF Edit!ReplacedIsKept
  <2>1. v \in 1..Len(made[f])
    BY <1>1, MadeSoFar DEF EditInv
  <2>2. Edit!There(f) => row[f].version = Len(made[f])
    BY <1>1 DEF EditInv, History, LastMade
  <2>3. v \in DOMAIN kept[f]
    BY <1>1, <2>1, <2>2 DEF EditInv, History, MadeIsKept
  <2> QED BY <1>1, <2>3 DEF EditInv, History, KeptIsMade
<1> QED BY <1>1, EditInvHolds, PTL

\* Nobody's change is written over unseen: a version made in the Advanced editor starts from the one before it,
\* always, since a save is refused when the flow has moved on (_save of studio.py).  One made in plain words
\* (build_save of build.py) does as well, as long as no request died half way, no two were under way at once, and no
\* page that showed an earlier version of the flow went on keeping its draft (which has no version, build_draft).
THEOREM NoEditIsOverwritten == Edit!Spec => []Edit!EditsBuildOnTheLast
<1> USE EditGiven
<1>1. EditInv => Edit!EditsBuildOnTheLast
  BY DEF EditInv
<1> QED BY <1>1, EditInvHolds, PTL

-----------------------------------------------------------------------------
(* The parts of Workflows *)

\* NoEditLost: both of the above.
THEOREM NoEditLostHolds == Edit!Spec => []NoEditLost
<1>1. Edit!ReplacedIsKept /\ Edit!EditsBuildOnTheLast => NoEditLost
  BY DEF NoEditLost
<1> QED BY <1>1, NothingReplacedIsLost, NoEditIsOverwritten, PTL

\* KeptInTheLoop: whoever handled a ticket stays on it, and knows who has it.
THEOREM KeptInTheLoopHolds == Ticket!Spec => []KeptInTheLoop
<1>1. Ticket!NobodyDropsOut /\ Ticket!LastWordIsTrue => KeptInTheLoop
  BY DEF KeptInTheLoop
<1> QED BY <1>1, NobodyDropsOutHolds, LastWordIsTrueHolds, PTL

\* NumbersDiffer: complaints that are not saved at once have numbers of their own, and a ticket the handler its row
\* of case_parties says.
THEOREM NumbersHold == Ticket!Spec => []NumbersDiffer
<1>1. Ticket!TypeOK /\ Ticket!NumbersDiffer => NumbersDiffer
  BY DEF NumbersDiffer
<1> QED BY <1>1, TypeCorrect, NumbersDifferHolds, PTL

\* NeedsAreMet: a role that may use a flow may do what the flow's own steps ask for (extract_required_permissions
\* does not look into the blocks it runs), and these blocks are there, none of them in a circle.
THEOREM NeedsAreMetHolds == Edit!Spec => []NeedsAreMet
<1> USE EditGiven
<1>1. ASSUME Ticking, Edit!Calm, Edit!Idle, NEW f \in Editable, NEW r \in Edit!Holders(f)
      PROVE  Edit!There(f) /\ (row[f].on => Needs[row[f].text] \subseteq permissions[r])
  <2>1. Usable(f)
    BY <1>1 DEF Ticking, InHand, Edit!Idle
  <2> QED BY <1>1, <2>1 DEF Usable, Edit!Holders
<1>2. ASSUME Blocked, ~crossed
      PROVE  Edit!InOrder([f \in Editable |-> IF Edit!There(f) THEN row[f].text ELSE None])
  BY <1>2 DEF Blocked, There
<1>3. EditInv /\ Blocked /\ Ticking => NeedsAreMet
  BY <1>1, <1>2 DEF NeedsAreMet, Edit!TickedCanUse, Edit!BlocksAreThere
<1> QED BY <1>3, NeedsInvHolds, PTL
=============================================================================
