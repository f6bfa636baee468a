------------------------- MODULE CaseRemindersProofs -------------------------
(***************************************************************************)
(* What holds of the reminders about open cases (CaseReminders, the Case   *)
(* of InTheEnd), for any copies, cases, people, rounds and numbers of      *)
(* faults: the types; that an item is marked for a reason; that nobody is  *)
(* told twice but for a fault.                                             *)
(***************************************************************************)
EXTENDS InTheEnd, Sequences, FiniteSetTheorems, TLAPS

-----------------------------------------------------------------------------
(* The invariant *)

\* What run q of the job has come to about the item in its hand.
PassFits(q) ==
  /\ q.due = None => q.item = None
  /\ Case!IsInjective(q.left)
  /\ q.item # None =>
       /\ q.item \notin q.due
       /\ q.sent => \E p \in Case!People : heard[q.item][p] > 0
       /\ ~q.sent /\ ~q.failed => q.left = PeopleOf[q.item[1]]

PassesFit == \A c \in Copies : pass[c] # None => PassFits(pass[c])

\* A copy counts no failure that did not happen; it may forget some.
FailuresHappened == \A c \in Copies, x \in Case!Items : failures[c][x] <= misses[x]

IInv == Case!TypeOK /\ PassesFit /\ FailuresHappened

\* Run q tells p no more about x: it told or passed over p, or x is marked and no longer ahead of it.
Done(q, x, p) ==
  \/ q.item = x /\ q.sent /\ p \notin Case!Range(q.left)
  \/ x \in marked /\ ~(q.due # None /\ x \in q.due) /\ q.item # x

\* Who may yet tell p about x: runs, and None for the run that may start while the lock is free.
MayTell(x, p) ==
  {c \in Copies : pass[c] # None /\ ~Done(pass[c], x, p)} \cup {n \in {None} : jobLock = None /\ x \notin marked}

Accounted == \A x \in Case!Items, p \in Case!People : heard[x][p] + Cardinality(MayTell(x, p)) <= 1 + faults

-----------------------------------------------------------------------------
(* Types *)

LEMMA Elements ==
  ASSUME NEW S, NEW s \in Seq(S)
  PROVE  Len(s) \in Nat /\ DOMAIN s = 1..Len(s) /\ \A i \in 1..Len(s) : s[i] \in S
OBVIOUS

LEMMA RoundAt ==
  ASSUME Case!Given, NEW i \in DOMAIN Rounds
  PROVE  /\ DOMAIN Rounds = 1..Len(Rounds) /\ Len(Rounds) \in Nat /\ i \in Nat
         /\ Rounds[i].org \in Case!Range(OrgOf)
<1>1. Rounds \in Seq([org : Case!Range(OrgOf), kind : {"reminder", "tat_breach"}])
  BY DEF Case!Given
<1>2. DOMAIN Rounds = 1..Len(Rounds) /\ Len(Rounds) \in Nat
  BY <1>1, Elements
<1>3. Rounds[i] \in [org : Case!Range(OrgOf), kind : {"reminder", "tat_breach"}]
  BY <1>1, <1>2, Elements
<1>4. QED  BY <1>2, <1>3

LEMMA ItemParts ==
  ASSUME NEW x \in Case!Items
  PROVE  x[1] \in Cases /\ x # <<>>
BY DEF Case!Items

\* The people of a case, in order and none of them twice.
LEMMA PeopleAt ==
  ASSUME Case!Given, NEW c \in Cases
  PROVE  PeopleOf[c] \in Seq(Case!People) /\ Case!IsInjective(PeopleOf[c])
<1>1. PeopleOf[c] \in Seq(Case!Range(PeopleOf[c])) /\ Case!IsInjective(PeopleOf[c])
  BY DEF Case!Given
<1>2. Case!Range(PeopleOf[c]) \subseteq Case!People
  BY DEF Case!People
<1>3. QED  BY <1>1, <1>2

LEMMA BlankIs ==
  ASSUME Case!Given, NEW i \in DOMAIN Rounds, NEW due \in (SUBSET Case!Items) \cup {None}
  PROVE  /\ Case!Blank(i, due) \in Case!Passes /\ Case!Blank(i, due) # None
         /\ Case!Blank(i, due).at = i /\ Case!Blank(i, due).due = due /\ Case!Blank(i, due).item = None
         /\ Case!Blank(i, due).left = <<>> /\ ~Case!Blank(i, due).sent
<1>1. Case!Blank(i, due) \in Case!Passes
  BY DEF Case!Blank, Case!Passes
<1>2. QED  BY <1>1 DEF Case!Blank, Case!Given

LEMMA AfterIs ==
  ASSUME Case!Given, NEW i \in DOMAIN Rounds
  PROVE  \/ Case!After(i) = None
         \/ i + 1 \in DOMAIN Rounds /\ Case!After(i) = Case!Blank(i + 1, None)
BY RoundAt DEF Case!After

\* What a pass is, piece by piece.
LEMMA PassParts ==
  ASSUME NEW q \in Case!Passes
  PROVE  /\ q.at \in DOMAIN Rounds /\ q.due \in (SUBSET Case!Items) \cup {None} /\ q.item \in Case!Items \cup {None}
         /\ q.left \in Seq(Case!People) /\ q.sent \in BOOLEAN /\ q.failed \in BOOLEAN /\ q.paused \in BOOLEAN
BY DEF Case!Passes

\* The run of the job in copy c goes on as p; the runs of other copies and the cases stay.
LEMMA BecomesTyped ==
  ASSUME Case!TypeOK, NEW c \in Copies, NEW p \in Case!Passes \cup {None}, Case!Becomes(c, p)
  PROVE  /\ pass' \in [Copies -> Case!Passes \cup {None}] /\ jobLock' \in Copies \cup {None}
         /\ pass'[c] = p /\ \A d \in Copies \ {c} : pass'[d] = pass[d]
         /\ p # None => jobLock' = jobLock
         /\ p = None => jobLock' = IF jobLock = c THEN None ELSE jobLock
BY DEF Case!TypeOK, Case!Becomes

-----------------------------------------------------------------------------
(* Every step keeps the invariant *)

ToldKept == \A x \in Case!Items, p \in Case!People : heard[x][p] <= heard'[x][p]

LEMMA PassStillFits ==
  ASSUME Case!TypeOK, ToldKept, NEW q \in Case!Passes, PassFits(q), heard' \in [Case!Items -> [Case!People -> Nat]]
  PROVE  PassFits(q)'
<1>1. ASSUME NEW x \in Case!Items, NEW p \in Case!People, heard[x][p] > 0 PROVE heard'[x][p] > 0
  <2>1. heard[x][p] \in Nat /\ heard'[x][p] \in Nat /\ heard[x][p] <= heard'[x][p]
    BY DEF Case!TypeOK, ToldKept
  <2> QED BY <1>1, <2>1
<1>2. QED  BY <1>1, PassParts DEF PassFits

\* The run in copy c goes on as p, which fits; then all do.
LEMMA RunFits ==
  ASSUME Case!Given, IInv, NEW c \in Copies, NEW p \in Case!Passes \cup {None}, Case!Becomes(c, p), p # None
         => PassFits(p)',
         ToldKept, heard' \in [Case!Items -> [Case!People -> Nat]]
  PROVE  PassesFit' /\ pass' \in [Copies -> Case!Passes \cup {None}] /\ jobLock' \in Copies \cup {None}
<1>1. /\ pass' \in [Copies -> Case!Passes \cup {None}] /\ jobLock' \in Copies \cup {None}
      /\ pass'[c] = p /\ \A d \in Copies \ {c} : pass'[d] = pass[d]
  BY BecomesTyped DEF IInv
<1>2. ASSUME NEW d \in Copies, pass'[d] # None PROVE PassFits(pass[d])'
  <2> PICK q : q = pass'[d]
    OBVIOUS
  <2>1. CASE d = c
    BY <1>1, <1>2, <2>1
  <2>2. CASE d # c
    <3>1. q = pass[d] /\ q \in Case!Passes /\ PassFits(q)
      BY <1>1, <1>2, <2>2 DEF IInv, Case!TypeOK, PassesFit
    <3>2. PassFits(q)'
      BY <3>1, PassStillFits DEF IInv
    <3> QED BY <3>2
  <2> QED BY <2>1, <2>2
<1>3. QED  BY <1>1, <1>2 DEF PassesFit

LEMMA BlankFits ==
  ASSUME Case!Given, NEW i \in DOMAIN Rounds, NEW due \in (SUBSET Case!Items) \cup {None}
  PROVE  PassFits(Case!Blank(i, due)) /\ PassFits(Case!Blank(i, due))'
<1>1. Case!IsInjective(<<>>)
  BY DEF Case!IsInjective
<1>2. QED  BY <1>1, BlankIs DEF PassFits

LEMMA AfterFits ==
  ASSUME Case!Given, NEW i \in DOMAIN Rounds
  PROVE  Case!After(i) \in Case!Passes \cup {None} /\ (Case!After(i) # None => PassFits(Case!After(i))')
<1>1. CASE Case!After(i) = None
  BY <1>1
<1>2. CASE i + 1 \in DOMAIN Rounds /\ Case!After(i) = Case!Blank(i + 1, None)
  <2>1. Case!Blank(i + 1, None) \in Case!Passes /\ PassFits(Case!Blank(i + 1, None))'
    BY <1>2, BlankIs, BlankFits
  <2> QED BY <1>2, <2>1
<1>3. QED  BY <1>1, <1>2, AfterIs

\* A step that changes no settings, cases or counts that the invariant is about.
LEMMA FitsIfRest ==
  ASSUME Case!Given, IInv, UNCHANGED config, late' \subseteq Case!Items, closed' \subseteq Cases,
         marked' \subseteq Case!Items,
         faults' \in 0..MaxFaults, heard' \in [Case!Items -> [Case!People -> Nat]], misses' \in [Case!Items -> Nat],
         failures' \in [Copies -> [Case!Items -> 0..MaxFailures]], FailuresHappened',
         PassesFit', pass' \in [Copies -> Case!Passes \cup {None}], jobLock' \in Copies \cup {None}
  PROVE  IInv'
BY DEF IInv, Case!TypeOK

LEMMA CasesFit ==
  ASSUME Case!Given, IInv, (\E x \in Case!Items : Case!TimePasses(x)) \/ (\E c \in Cases : Case!CloseCase(c))
         \/ UNCHANGED Case!vars
  PROVE  IInv'
<1>1. /\ UNCHANGED <<config, marked, failures, jobLock, pass, faults, heard, misses>>
      /\ late' \subseteq Case!Items /\ closed' \subseteq Cases
  BY DEF IInv, Case!TypeOK, Case!TimePasses, Case!CloseCase, Case!vars, Case!job
<1>2. QED  BY <1>1 DEF IInv, Case!TypeOK, PassesFit, PassFits, FailuresHappened

LEMMA SameTold ==
  ASSUME Case!TypeOK, UNCHANGED heard
  PROVE  ToldKept /\ heard' \in [Case!Items -> [Case!People -> Nat]]
<1>1. \A x \in Case!Items, p \in Case!People : heard[x][p] \in Nat
  BY DEF Case!TypeOK
<1>2. QED  BY <1>1 DEF Case!TypeOK, ToldKept

LEMMA StartRun_Fits ==
  ASSUME Case!Given, IInv, NEW c \in Copies, Case!StartRun(c)
  PROVE  IInv'
<1>1. UNCHANGED <<config, late, closed, marked, failures, faults, heard, misses>> /\ Case!TypeOK
  BY DEF Case!StartRun, IInv
<1>2. 1 \in DOMAIN Rounds
  <2>1. PICK x \in Case!Items : TRUE
    BY DEF Case!StartRun, Case!Waiting, IInv, Case!TypeOK
  <2>2. PICK i \in DOMAIN Rounds : TRUE
    BY <2>1 DEF Case!Items
  <2> QED BY <2>2, RoundAt
<1> PICK p : p = Case!Blank(1, None)
  OBVIOUS
<1>3. p \in Case!Passes /\ PassFits(p)'
  <2>1. Case!Blank(1, None) \in Case!Passes /\ PassFits(Case!Blank(1, None))'
    BY <1>2, BlankIs, BlankFits
  <2> QED BY <2>1
<1>4. pass' = [pass EXCEPT ![c] = p] /\ jobLock' = c
  BY DEF Case!StartRun
<1>5. pass' \in [Copies -> Case!Passes \cup {None}] /\ pass'[c] = p /\ \A d \in Copies \ {c} : pass'[d] = pass[d]
  BY <1>1, <1>3, <1>4 DEF Case!TypeOK
<1>6. ASSUME NEW d \in Copies, pass'[d] # None PROVE PassFits(pass[d])'
  <2> PICK q : q = pass'[d]
    OBVIOUS
  <2>1. CASE d = c
    BY <1>3, <1>5, <2>1
  <2>2. CASE d # c
    <3>1. q = pass[d] /\ PassFits(q)
      BY <1>5, <1>6, <2>2 DEF IInv, PassesFit
    <3>2. PassFits(q)'
      BY <1>1, <3>1 DEF PassFits
    <3> QED BY <3>2
  <2> QED BY <2>1, <2>2
<1>7. PassesFit'
  BY <1>6 DEF PassesFit
<1>8. FailuresHappened'
  BY <1>1 DEF IInv, FailuresHappened
<1>9. QED  BY <1>1, <1>4, <1>5, <1>7, <1>8 DEF IInv, Case!TypeOK

LEMMA ReadDue_Fits ==
  ASSUME Case!Given, IInv, NEW c \in Copies, Case!ReadDue(c)
  PROVE  IInv'
<1>1. UNCHANGED <<config, late, closed, marked, faults, heard, misses>> /\ Case!TypeOK
  BY DEF Case!ReadDue, IInv
<1> PICK q : q = pass[c]
  OBVIOUS
<1>2. q \in Case!Passes /\ q.due = None /\ q.at \in DOMAIN Rounds /\ PassFits(q)
  BY PassParts DEF Case!ReadDue, Case!Reading, Case!Runs, IInv, Case!TypeOK, PassesFit
<1> PICK r : r = Rounds[q.at]
  OBVIOUS
<1>3. \/ Case!Becomes(c, Case!After(q.at)) /\ UNCHANGED failures
      \/ Case!Becomes(c, None) /\ UNCHANGED failures
      \/ /\ Case!Becomes(c, [q EXCEPT !.due = Case!Due(r)])
         /\ failures' = [failures EXCEPT ![c] = [x \in Case!Items |-> IF x \in Case!Stale(r) THEN 0 ELSE @[x]]]
  <2>1. config[r.org] \in {"fine", "skipped", "raises"}
    BY <1>1, <1>2, RoundAt DEF Case!TypeOK, Case!Given
  <2> QED BY <2>1 DEF Case!ReadDue
<1>4. FailuresHappened' /\ failures' \in [Copies -> [Case!Items -> 0..MaxFailures]]
  <2>1. CASE UNCHANGED failures
    BY <1>1, <2>1 DEF IInv, Case!TypeOK, FailuresHappened
  <2>2. CASE failures' = [failures EXCEPT ![c] = [x \in Case!Items |-> IF x \in Case!Stale(r) THEN 0 ELSE @[x]]]
    <3>1. \A d \in Copies, x \in Case!Items : failures'[d][x] = failures[d][x] \/ failures'[d][x] = 0
      BY <1>1, <2>2 DEF Case!TypeOK
    <3>2. failures' \in [Copies -> [Case!Items -> 0..MaxFailures]]
      BY <1>1, <2>2 DEF Case!TypeOK, Case!Given
    <3>3. \A x \in Case!Items : misses[x] \in Nat
      BY <1>1 DEF Case!TypeOK
    <3> QED BY <1>1, <3>1, <3>2, <3>3 DEF IInv, FailuresHappened
  <2> QED BY <1>3, <2>1, <2>2
<1>5. PassesFit' /\ pass' \in [Copies -> Case!Passes \cup {None}] /\ jobLock' \in Copies \cup {None}
  <2>1. CASE Case!Becomes(c, Case!After(q.at))
    BY <1>1, <1>2, <2>1, AfterFits, SameTold, RunFits
  <2>2. CASE Case!Becomes(c, None)
    BY <1>1, <2>2, SameTold, RunFits
  <2>3. CASE Case!Becomes(c, [q EXCEPT !.due = Case!Due(r)])
    <3> PICK p : p = [q EXCEPT !.due = Case!Due(r)]
      OBVIOUS
    <3>1. Case!Due(r) \subseteq Case!Items
      BY DEF Case!Due, Case!Of
    <3>2. p \in Case!Passes /\ p.item = None /\ p.left = q.left
      BY <1>2, <3>1 DEF Case!Passes, PassFits
    <3>3. PassFits(p)'
      BY <1>2, <3>2 DEF PassFits
    <3> QED BY <1>1, <2>3, <3>2, <3>3, SameTold, RunFits
  <2> QED BY <1>3, <2>1, <2>2, <2>3
<1>6. QED  BY <1>1, <1>4, <1>5 DEF IInv, Case!TypeOK

\* Item x in hand, with the people who are left to tell.
Taken(i, due, x, failed, left) ==
  [Case!Blank(i, due \ {x}) EXCEPT !.item = x, !.failed = failed, !.left = left]

LEMMA TakenIs ==
  ASSUME NEW i \in DOMAIN Rounds, NEW due \in SUBSET Case!Items, NEW x \in due, NEW failed \in BOOLEAN,
         NEW left \in Seq(Case!People)
  PROVE  Taken(i, due, x, failed, left) \in Case!Passes
<1>1. x \in Case!Items /\ due \ {x} \in SUBSET Case!Items
  OBVIOUS
<1>2. QED  BY <1>1 DEF Case!Passes, Taken, Case!Blank

LEMMA TakenFits ==
  ASSUME Case!Given, IInv, UNCHANGED heard, NEW c \in Copies, NEW i \in DOMAIN Rounds, NEW due \in SUBSET Case!Items,
         NEW x \in due, NEW failed \in BOOLEAN, NEW left \in Seq(Case!People), Case!IsInjective(left),
         failed = TRUE \/ left = PeopleOf[x[1]], Case!Becomes(c, Taken(i, due, x, failed, left))
  PROVE  PassesFit' /\ pass' \in [Copies -> Case!Passes \cup {None}] /\ jobLock' \in Copies \cup {None}
<1> DEFINE p == Taken(i, due, x, failed, left)
<1>1. x \in Case!Items /\ due \ {x} \in SUBSET Case!Items
  OBVIOUS
<1>2. p \in Case!Passes
  BY TakenIs
<1>3. p.item = x /\ p.due = due \ {x} /\ p.left = left /\ p.sent = FALSE /\ p.failed = failed
  BY DEF Taken, Case!Blank
<1> HIDE DEF p
<1>4. p.due # None
  BY <1>1, <1>3 DEF Case!Given
<1>5. PassFits(p)'
  BY <1>1, <1>3, <1>4 DEF PassFits
<1>6. QED  BY <1>2, <1>5, SameTold, RunFits DEF IInv, p

LEMMA TakeItem_Fits ==
  ASSUME Case!Given, IInv, NEW c \in Copies, Case!TakeItem(c)
  PROVE  IInv'
<1>1. UNCHANGED <<config, late, closed, marked, failures, faults, heard, misses>> /\ Case!TypeOK
  BY DEF Case!TakeItem, IInv
<1> PICK q : q = pass[c]
  OBVIOUS
<1>2. q \in Case!Passes /\ q.due \in SUBSET Case!Items /\ q.at \in DOMAIN Rounds
  <2>1. q # None /\ q.due # None
    BY DEF Case!TakeItem, Case!Choosing, Case!Runs
  <2>2. q \in Case!Passes
    BY <1>1, <2>1 DEF Case!TypeOK
  <2> QED BY <2>1, <2>2, PassParts
<1>3. PassesFit' /\ pass' \in [Copies -> Case!Passes \cup {None}] /\ jobLock' \in Copies \cup {None}
  <2>1. CASE Case!Becomes(c, Case!After(q.at))
    BY <1>1, <1>2, <2>1, AfterFits, SameTold, RunFits
  <2>2. ASSUME NEW x \in q.due, NEW failed \in BOOLEAN,
               Case!Becomes(c, [Case!Blank(q.at, q.due \ {x}) EXCEPT
                             !.item = x, !.failed = failed, !.left = IF failed THEN <<>> ELSE PeopleOf[x[1]]])
        PROVE  PassesFit' /\ pass' \in [Copies -> Case!Passes \cup {None}] /\ jobLock' \in Copies \cup {None}
    <3> PICK left : left = IF failed THEN <<>> ELSE PeopleOf[x[1]]
      OBVIOUS
    <3>1. left \in Seq(Case!People) /\ Case!IsInjective(left) /\ (failed = TRUE \/ left = PeopleOf[x[1]])
      <4>1. PeopleOf[x[1]] \in Seq(Case!People) /\ Case!IsInjective(PeopleOf[x[1]])
        BY <1>2, ItemParts, PeopleAt
      <4>2. Case!IsInjective(<<>>)
        BY DEF Case!IsInjective
      <4> QED BY <4>1, <4>2
    <3>2. Case!Becomes(c, Taken(q.at, q.due, x, failed, left))
      BY <2>2 DEF Taken
    <3> QED BY <1>1, <1>2, <3>1, <3>2, TakenFits
  <2> QED BY <2>1, <2>2 DEF Case!TakeItem
<1>4. FailuresHappened'
  BY <1>1 DEF IInv, FailuresHappened
<1>5. QED  BY <1>1, <1>3, <1>4 DEF IInv, Case!TypeOK

\* The first of those who are left, and the rest.
LEMMA RestOf ==
  ASSUME NEW S, NEW s \in Seq(S), s # <<>>, Case!IsInjective(s)
  PROVE  /\ Head(s) \in S /\ Tail(s) \in Seq(S) /\ Case!IsInjective(Tail(s))
         /\ Head(s) \in Case!Range(s) /\ Head(s) \notin Case!Range(Tail(s))
            /\ Case!Range(Tail(s)) \subseteq Case!Range(s)
<1>1. /\ Len(s) \in Nat \ {0} /\ DOMAIN s = 1..Len(s) /\ Head(s) = s[1] /\ Head(s) \in S
      /\ Tail(s) \in Seq(S) /\ DOMAIN Tail(s) = 1..(Len(s) - 1)
  OBVIOUS
<1>2. \A i \in 1..(Len(s) - 1) : Tail(s)[i] = s[i + 1]
  OBVIOUS
<1>3. \A i \in 1..(Len(s) - 1) : i + 1 \in 1..Len(s) /\ i + 1 # 1
  BY <1>1
<1>4. Case!IsInjective(Tail(s))
  BY <1>1, <1>2, <1>3 DEF Case!IsInjective
<1>5. Case!Range(Tail(s)) \subseteq Case!Range(s) /\ Head(s) \in Case!Range(s)
  BY <1>1, <1>2, <1>3 DEF Case!Range
<1>6. Head(s) \notin Case!Range(Tail(s))
  BY <1>1, <1>2, <1>3 DEF Case!Range, Case!IsInjective
<1>7. QED  BY <1>1, <1>4, <1>5, <1>6

\* The run that has an item in hand.
LEMMA TellingIs ==
  ASSUME Case!Given, IInv, NEW c \in Copies, Case!Telling(c)
  PROVE  /\ pass[c] # None /\ pass[c] \in Case!Passes /\ PassFits(pass[c]) /\ pass[c].item \in Case!Items
         /\ pass[c].due \in SUBSET Case!Items /\ pass[c].at \in DOMAIN Rounds
         /\ pass[c].sent \in BOOLEAN /\ pass[c].failed \in BOOLEAN /\ pass[c].paused \in BOOLEAN
<1> PICK q : q = pass[c]
  OBVIOUS
<1>1. q # None /\ q.item # None
  BY DEF Case!Telling, Case!Runs
<1>2. q \in Case!Passes /\ PassFits(q)
  BY <1>1 DEF IInv, Case!TypeOK, PassesFit
<1>3. q.due # None
  BY <1>1, <1>2 DEF PassFits
<1>4. QED  BY <1>1, <1>2, <1>3, PassParts

Reached(q) == [q EXCEPT !.left = Tail(@), !.sent = TRUE]
Passed(q) == [q EXCEPT !.left = Tail(@), !.failed = TRUE]
Waits(q) == [q EXCEPT !.paused = TRUE]

LEMMA TellIs ==
  ASSUME Case!Given, IInv, NEW c \in Copies, Case!Tell(c), NEW q, q = pass[c]
  PROVE  /\ Case!Telling(c) /\ q.left # <<>>
         /\ UNCHANGED <<config, late, closed, marked, failures, misses>>
         /\ \/ /\ heard' = [heard EXCEPT ![q.item][Head(q.left)] = @ + 1]
               /\ Case!Becomes(c, Reached(q)) /\ faults' = faults
            \/ Case!Becomes(c, Passed(q)) /\ UNCHANGED <<heard, faults>>
            \/ faults < MaxFaults /\ faults' = faults + 1 /\ Case!Becomes(c, Waits(q)) /\ UNCHANGED heard
BY DEF Case!Tell, Reached, Passed, Waits

\* What a run is after it told somebody, or tried to.
LEMMA ToldIs ==
  ASSUME NEW q \in Case!Passes, q.left # <<>>, Case!IsInjective(q.left)
  PROVE  /\ Reached(q) \in Case!Passes /\ Passed(q) \in Case!Passes /\ Waits(q) \in Case!Passes
         /\ Reached(q).sent = TRUE /\ Passed(q).sent = q.sent /\ Waits(q).sent = q.sent
         /\ Passed(q).failed = TRUE /\ Waits(q).failed = q.failed
         /\ Reached(q).left = Tail(q.left) /\ Passed(q).left = Tail(q.left) /\ Waits(q).left = q.left
         /\ \A r \in {Reached(q), Passed(q), Waits(q)} : r.item = q.item /\ r.due = q.due /\ r.at = q.at
<1>1. Tail(q.left) \in Seq(Case!People)
  BY PassParts, RestOf
<1>2. /\ Reached(q) \in Case!Passes /\ Reached(q).sent = TRUE /\ Reached(q).left = Tail(q.left)
      /\ Reached(q).item = q.item /\ Reached(q).due = q.due /\ Reached(q).at = q.at
  BY <1>1 DEF Case!Passes, Reached
<1>3. /\ Passed(q) \in Case!Passes /\ Passed(q).sent = q.sent /\ Passed(q).left = Tail(q.left)
         /\ Passed(q).failed = TRUE
      /\ Passed(q).item = q.item /\ Passed(q).due = q.due /\ Passed(q).at = q.at
  BY <1>1 DEF Case!Passes, Passed
<1>4. /\ Waits(q) \in Case!Passes /\ Waits(q).sent = q.sent /\ Waits(q).left = q.left /\ Waits(q).failed = q.failed
      /\ Waits(q).item = q.item /\ Waits(q).due = q.due /\ Waits(q).at = q.at
  BY <1>1 DEF Case!Passes, Waits
<1>5. QED  BY <1>2, <1>3, <1>4

LEMMA OneTold ==
  ASSUME Case!TypeOK, NEW x \in Case!Items, NEW h \in Case!People, heard' = [heard EXCEPT ![x][h] = @ + 1]
  PROVE  /\ ToldKept /\ heard' \in [Case!Items -> [Case!People -> Nat]] /\ heard'[x][h] > 0
         /\ heard'[x][h] = heard[x][h] + 1
         /\ \A y \in Case!Items, p \in Case!People : y # x \/ p # h => heard'[y][p] = heard[y][p]
<1> PICK old : old = heard[x]
  OBVIOUS
<1> PICK row : row = [old EXCEPT ![h] = old[h] + 1]
  OBVIOUS
<1>1. heard \in [Case!Items -> [Case!People -> Nat]] /\ old \in [Case!People -> Nat]
  BY DEF Case!TypeOK
<1>2. heard' = [heard EXCEPT ![x] = row]
  OBVIOUS
<1>3. row \in [Case!People -> Nat]
  BY <1>1
<1>4. \A p \in Case!People : row[p] = IF p = h THEN old[p] + 1 ELSE old[p]
  BY <1>1
<1>5. heard' \in [Case!Items -> [Case!People -> Nat]]
         /\ \A y \in Case!Items : heard'[y] = IF y = x THEN row ELSE heard[y]
  BY <1>1, <1>2, <1>3
<1>6. \A y \in Case!Items, p \in Case!People : heard[y][p] \in Nat
  BY <1>1
<1>7. \A y \in Case!Items, p \in Case!People : heard'[y][p] = IF y = x /\ p = h THEN heard[y][p] + 1 ELSE heard[y][p]
  BY <1>4, <1>5
<1>8. ToldKept /\ heard'[x][h] > 0
  BY <1>6, <1>7 DEF ToldKept
<1>9. heard'[x][h] = heard[x][h] + 1
  BY <1>7
<1>10. \A y \in Case!Items, p \in Case!People : y # x \/ p # h => heard'[y][p] = heard[y][p]
  BY <1>7
<1>11. QED  BY <1>5, <1>8, <1>9, <1>10

LEMMA Tell_Fits ==
  ASSUME Case!Given, IInv, NEW c \in Copies, Case!Tell(c)
  PROVE  IInv' /\ ToldKept
<1> PICK q : q = pass[c]
  OBVIOUS
<1>1. /\ UNCHANGED <<config, late, closed, marked, failures, misses>> /\ Case!TypeOK /\ q.left # <<>>
      /\ \/ /\ heard' = [heard EXCEPT ![q.item][Head(q.left)] = @ + 1]
            /\ Case!Becomes(c, Reached(q)) /\ faults' = faults
         \/ Case!Becomes(c, Passed(q)) /\ UNCHANGED <<heard, faults>>
         \/ faults < MaxFaults /\ faults' = faults + 1 /\ Case!Becomes(c, Waits(q)) /\ UNCHANGED heard
  BY TellIs DEF IInv
<1>2. /\ q \in Case!Passes /\ PassFits(q) /\ q.item \in Case!Items /\ q.due \in SUBSET Case!Items
      /\ q.left \in Seq(Case!People) /\ Case!IsInjective(q.left)
  BY TellIs, TellingIs, PassParts DEF PassFits
<1> PICK x : x = q.item
  OBVIOUS
<1> PICK h : h = Head(q.left)
  OBVIOUS
<1>3. h \in Case!People /\ Case!IsInjective(Tail(q.left))
  BY <1>1, <1>2, RestOf
<1>4. faults' \in 0..MaxFaults
  BY <1>1 DEF Case!TypeOK, Case!Given
<1>5. ToldKept /\ heard' \in [Case!Items -> [Case!People -> Nat]]
  <2>1. CASE UNCHANGED heard
    BY <1>1, <2>1, SameTold
  <2>2. CASE heard' = [heard EXCEPT ![x][h] = @ + 1]
    BY <1>1, <1>2, <1>3, <2>2, OneTold
  <2> QED BY <1>1, <2>1, <2>2
<1>6. q.due # None
  BY <1>2 DEF Case!Given
<1>7. PassesFit' /\ pass' \in [Copies -> Case!Passes \cup {None}] /\ jobLock' \in Copies \cup {None}
  <2>1. CASE heard' = [heard EXCEPT ![x][h] = @ + 1] /\ Case!Becomes(c, Reached(q))
    <3> PICK r : r = Reached(q)
      OBVIOUS
    <3>1. r \in Case!Passes /\ r.sent = TRUE /\ r.left = Tail(q.left) /\ r.item = x /\ r.due = q.due
      BY <1>1, <1>2, ToldIs
    <3>2. heard'[x][h] > 0
      BY <1>1, <1>2, <1>3, <2>1, OneTold
    <3>3. PassFits(r)'
      BY <1>2, <1>3, <1>6, <3>1, <3>2 DEF PassFits
    <3> QED BY <1>5, <2>1, <3>1, <3>3, RunFits
  <2>2. CASE Case!Becomes(c, Passed(q)) /\ UNCHANGED heard
    <3> PICK r : r = Passed(q)
      OBVIOUS
    <3>1. /\ r \in Case!Passes /\ r.sent = q.sent /\ r.failed = TRUE /\ r.left = Tail(q.left)
          /\ r.item = x /\ r.due = q.due
      BY <1>1, <1>2, ToldIs
    <3>2. PassFits(r)'
      BY <1>2, <1>3, <1>6, <2>2, <3>1 DEF PassFits
    <3> QED BY <1>5, <2>2, <3>1, <3>2, RunFits
  <2>3. CASE Case!Becomes(c, Waits(q)) /\ UNCHANGED heard
    <3> PICK r : r = Waits(q)
      OBVIOUS
    <3>1. /\ r \in Case!Passes /\ r.sent = q.sent /\ r.failed = q.failed /\ r.left = q.left
          /\ r.item = x /\ r.due = q.due
      BY <1>1, <1>2, ToldIs
    <3>2. PassFits(r)'
      BY <1>2, <1>6, <2>3, <3>1 DEF PassFits
    <3> QED BY <1>5, <2>3, <3>1, <3>2, RunFits
  <2> QED BY <1>1, <2>1, <2>2, <2>3
<1>8. FailuresHappened'
  BY <1>1 DEF IInv, FailuresHappened
<1>9. QED  BY <1>1, <1>4, <1>5, <1>7, <1>8 DEF IInv, Case!TypeOK

LEMMA MissedIs ==
  ASSUME Case!Given, Case!TypeOK, NEW x \in Case!Items
  PROVE  /\ Case!Missed(x) \in [Case!Items -> Nat]
         /\ \A y \in Case!Items : misses[y] \in Nat /\ misses[y] <= Case!Missed(x)[y]
         /\ Case!Missed(x)[x] = IF misses[x] < MaxFailures THEN misses[x] + 1 ELSE misses[x]
<1>1. \A y \in Case!Items : misses[y] \in Nat
  BY DEF Case!TypeOK
<1>2. MaxFailures \in Nat
  BY DEF Case!Given
<1>3. Case!Missed(x) \in [Case!Items -> Nat]
  BY <1>1, <1>2 DEF Case!TypeOK, Case!Missed
<1>4. \A y \in Case!Items : Case!Missed(x)[y] = IF y = x /\ misses[x] < MaxFailures THEN misses[x] + 1 ELSE misses[y]
  BY <1>1, <1>2 DEF Case!TypeOK, Case!Missed
<1>5. QED  BY <1>1, <1>3, <1>4

MissesKept == \A x \in Case!Items : misses[x] <= misses'[x]

LEMMA KeepItem_Fits ==
  ASSUME Case!Given, IInv, NEW c \in Copies, Case!KeepItem(c)
  PROVE  IInv' /\ MissesKept
<1>1. UNCHANGED <<config, late, closed, marked, faults, heard>> /\ Case!TypeOK /\ Case!Telling(c)
  BY DEF Case!KeepItem, IInv, Case!Told
<1> PICK q : q = pass[c]
  OBVIOUS
<1>2. q \in Case!Passes /\ q.item \in Case!Items /\ q.due \in SUBSET Case!Items /\ q.at \in DOMAIN Rounds
  BY <1>1, TellingIs
<1> PICK n : n = failures[c][q.item] + 1
  OBVIOUS
<1>3. \/ Case!Becomes(c, Case!After(q.at)) /\ UNCHANGED <<failures, misses>>
      \/ /\ n < MaxFailures /\ Case!Becomes(c, Case!Blank(q.at, q.due))
         /\ failures' = [failures EXCEPT ![c][q.item] = n]
         /\ misses' = Case!Missed(q.item)
  BY DEF Case!KeepItem, Case!TriesLeft
<1>4. PassesFit' /\ pass' \in [Copies -> Case!Passes \cup {None}] /\ jobLock' \in Copies \cup {None}
  <2>1. CASE Case!Becomes(c, Case!After(q.at))
    BY <1>1, <1>2, <2>1, AfterFits, SameTold, RunFits
  <2>2. CASE Case!Becomes(c, Case!Blank(q.at, q.due))
    <3>1. Case!Blank(q.at, q.due) \in Case!Passes /\ PassFits(Case!Blank(q.at, q.due))'
      BY <1>2, BlankIs, BlankFits
    <3> QED BY <1>1, <2>2, <3>1, SameTold, RunFits
  <2> QED BY <1>3, <2>1, <2>2
<1>5. /\ FailuresHappened' /\ failures' \in [Copies -> [Case!Items -> 0..MaxFailures]]
      /\ misses' \in [Case!Items -> Nat] /\ MissesKept
  <2>0. \A x \in Case!Items : misses[x] \in Nat
    BY <1>1 DEF Case!TypeOK
  <2>1. CASE UNCHANGED <<failures, misses>>
    BY <1>1, <2>0, <2>1 DEF IInv, Case!TypeOK, FailuresHappened, MissesKept
  <2>2. CASE /\ n < MaxFailures
             /\ failures' = [failures EXCEPT ![c][q.item] = n] /\ misses' = Case!Missed(q.item)
    <3>1. failures[c][q.item] \in 0..MaxFailures /\ MaxFailures \in Nat
      BY <1>1, <1>2 DEF Case!TypeOK, Case!Given
    <3>2. n \in 0..MaxFailures
      BY <2>2, <3>1
    <3>3. failures' \in [Copies -> [Case!Items -> 0..MaxFailures]]
      BY <1>1, <1>2, <2>2, <3>2 DEF Case!TypeOK
    <3>4. \A d \in Copies, y \in Case!Items :
            failures'[d][y] = IF d = c /\ y = q.item THEN n ELSE failures[d][y]
      BY <1>1, <1>2, <2>2 DEF Case!TypeOK
    <3>5. /\ misses' \in [Case!Items -> Nat] /\ \A y \in Case!Items : misses[y] \in Nat /\ misses[y] <= misses'[y]
          /\ misses'[q.item] = IF misses[q.item] < MaxFailures THEN misses[q.item] + 1 ELSE misses[q.item]
      BY <1>1, <1>2, <2>2, MissedIs
    <3>6. n <= misses'[q.item]
      <4>1. failures[c][q.item] <= misses[q.item]
        BY <1>2 DEF IInv, FailuresHappened
      <4> QED BY <1>2, <2>2, <3>1, <3>5, <4>1
    <3>7. \A d \in Copies, y \in Case!Items : failures[d][y] <= misses[y] /\ failures[d][y] \in Nat
      BY <1>1 DEF IInv, FailuresHappened, Case!TypeOK
    <3>8. ASSUME NEW d \in Copies, NEW y \in Case!Items PROVE failures'[d][y] <= misses'[y]
      <4>1. CASE d = c /\ y = q.item
        BY <3>4, <3>6, <4>1
      <4>2. CASE ~(d = c /\ y = q.item)
        <5>1. failures'[d][y] = failures[d][y]
          BY <3>4, <4>2
        <5>2. failures[d][y] <= misses[y] /\ misses[y] <= misses'[y] /\ misses[y] \in Nat /\ misses'[y] \in Nat
          BY <3>5, <3>7
        <5> QED BY <3>7, <5>1, <5>2
      <4> QED BY <4>1, <4>2
    <3> QED BY <3>3, <3>5, <3>8 DEF FailuresHappened, MissesKept
  <2> QED BY <1>3, <2>1, <2>2
<1>6. QED  BY <1>1, <1>4, <1>5 DEF IInv, Case!TypeOK

LEMMA MarkItem_Fits ==
  ASSUME Case!Given, IInv, NEW c \in Copies, Case!MarkItem(c)
  PROVE  IInv' /\ MissesKept
<1>1. UNCHANGED <<config, late, closed, heard>> /\ Case!TypeOK /\ Case!Telling(c)
  BY DEF Case!MarkItem, IInv, Case!Told
<1> PICK q : q = pass[c]
  OBVIOUS
<1>2. q \in Case!Passes /\ q.item \in Case!Items /\ q.due \in SUBSET Case!Items /\ q.at \in DOMAIN Rounds
  BY <1>1, TellingIs
<1>3. /\ \/ marked' = marked \cup {q.item} /\ UNCHANGED faults
         \/ faults < MaxFaults /\ faults' = faults + 1 /\ UNCHANGED marked
      /\ Case!Becomes(c, Case!After(q.at)) \/ Case!Becomes(c, Case!Blank(q.at, q.due))
      /\ failures' = [failures EXCEPT ![c][q.item] = 0]
      /\ misses' = Case!Missed(q.item) \/ misses' = misses
  <2>1. /\ \/ marked' = marked \cup {q.item} /\ UNCHANGED faults
           \/ faults < MaxFaults /\ faults' = faults + 1 /\ UNCHANGED marked
        /\ Case!Becomes(c, IF q.paused THEN Case!After(q.at) ELSE Case!Blank(q.at, q.due))
        /\ failures' = [failures EXCEPT ![c][q.item] = 0]
        /\ misses' = IF Case!Unreached(q) THEN Case!Missed(q.item) ELSE misses
    BY DEF Case!MarkItem
  <2>2. CASE q.paused
    <3>1. Case!Becomes(c, Case!After(q.at))
      BY <2>1, <2>2
    <3> QED BY <2>1, <3>1
  <2>3. CASE ~q.paused
    <3>1. Case!Becomes(c, Case!Blank(q.at, q.due))
      BY <2>1, <2>3
    <3> QED BY <2>1, <3>1
  <2> QED BY <2>2, <2>3
<1>4. PassesFit' /\ pass' \in [Copies -> Case!Passes \cup {None}] /\ jobLock' \in Copies \cup {None}
  <2>1. CASE Case!Becomes(c, Case!After(q.at))
    BY <1>1, <1>2, <2>1, AfterFits, SameTold, RunFits
  <2>2. CASE Case!Becomes(c, Case!Blank(q.at, q.due))
    <3>1. Case!Blank(q.at, q.due) \in Case!Passes /\ PassFits(Case!Blank(q.at, q.due))'
      BY <1>2, BlankIs, BlankFits
    <3> QED BY <1>1, <2>2, <3>1, SameTold, RunFits
  <2> QED BY <1>3, <2>1, <2>2
<1>5. misses' \in [Case!Items -> Nat] /\ \A y \in Case!Items : misses[y] \in Nat /\ misses[y] <= misses'[y]
  <2>1. CASE misses' = misses
    BY <1>1, <2>1 DEF Case!TypeOK
  <2>2. CASE misses' = Case!Missed(q.item)
    BY <1>1, <1>2, <2>2, MissedIs
  <2> QED BY <1>3, <2>1, <2>2
<1>6. failures' \in [Copies -> [Case!Items -> 0..MaxFailures]] /\ FailuresHappened'
  <2>1. \A d \in Copies, y \in Case!Items : failures'[d][y] = IF d = c /\ y = q.item THEN 0 ELSE failures[d][y]
    BY <1>1, <1>2, <1>3 DEF Case!TypeOK
  <2>2. 0 \in 0..MaxFailures
    BY DEF Case!Given
  <2>3. failures' \in [Copies -> [Case!Items -> 0..MaxFailures]]
    BY <1>1, <1>2, <1>3, <2>2 DEF Case!TypeOK
  <2>4. \A d \in Copies, y \in Case!Items : failures[d][y] <= misses[y] /\ failures[d][y] \in Nat
    BY <1>1 DEF IInv, FailuresHappened, Case!TypeOK
  <2>5. ASSUME NEW d \in Copies, NEW y \in Case!Items PROVE failures'[d][y] <= misses'[y]
    <3>1. misses[y] \in Nat /\ misses'[y] \in Nat /\ misses[y] <= misses'[y]
      BY <1>5
    <3>2. CASE d = c /\ y = q.item
      BY <2>1, <3>1, <3>2
    <3>3. CASE ~(d = c /\ y = q.item)
      BY <2>1, <2>4, <3>1, <3>3
    <3> QED BY <3>2, <3>3
  <2> QED BY <2>3, <2>5 DEF FailuresHappened
<1>7. marked' \subseteq Case!Items /\ faults' \in 0..MaxFaults
  BY <1>1, <1>2, <1>3 DEF Case!TypeOK, Case!Given
<1>8. QED  BY <1>1, <1>4, <1>5, <1>6, <1>7 DEF IInv, Case!TypeOK, MissesKept

LEMMA CutRun_Fits ==
  ASSUME Case!Given, IInv, NEW c \in Copies, Case!CutRun(c)
  PROVE  IInv'
<1>1. /\ UNCHANGED <<config, late, closed, marked, heard, misses>> /\ Case!TypeOK
      /\ faults < MaxFaults /\ faults' = faults + 1 /\ Case!Becomes(c, None)
      /\ UNCHANGED failures \/ failures' = [failures EXCEPT ![c] = [x \in Case!Items |-> 0]]
  BY DEF Case!CutRun, IInv
<1>2. PassesFit' /\ pass' \in [Copies -> Case!Passes \cup {None}] /\ jobLock' \in Copies \cup {None}
  BY <1>1, SameTold, RunFits
<1>3. faults' \in 0..MaxFaults
  BY <1>1 DEF Case!TypeOK, Case!Given
<1>4. failures' \in [Copies -> [Case!Items -> 0..MaxFailures]] /\ FailuresHappened'
  <2>1. CASE UNCHANGED failures
    BY <1>1, <2>1 DEF IInv, Case!TypeOK, FailuresHappened
  <2>2. CASE failures' = [failures EXCEPT ![c] = [x \in Case!Items |-> 0]]
    <3>1. \A d \in Copies, x \in Case!Items : failures'[d][x] = failures[d][x] \/ failures'[d][x] = 0
      BY <1>1, <2>2 DEF Case!TypeOK
    <3>2. failures' \in [Copies -> [Case!Items -> 0..MaxFailures]]
      BY <1>1, <2>2 DEF Case!TypeOK, Case!Given
    <3>3. \A x \in Case!Items : misses[x] \in Nat
      BY <1>1 DEF Case!TypeOK
    <3> QED BY <1>1, <3>1, <3>2, <3>3 DEF IInv, FailuresHappened
  <2> QED BY <1>1, <2>1, <2>2
<1>5. QED  BY <1>1, <1>2, <1>3, <1>4 DEF IInv, Case!TypeOK

LEMMA LoseLock_Fits ==
  ASSUME Case!Given, IInv, NEW c \in Copies, Case!LoseLock(c)
  PROVE  IInv'
<1>1. /\ UNCHANGED <<config, late, closed, marked, failures, pass, heard, misses>> /\ Case!TypeOK
      /\ faults < MaxFaults /\ faults' = faults + 1 /\ jobLock' = None
  BY DEF Case!LoseLock, IInv
<1>2. faults' \in 0..MaxFaults
  BY <1>1 DEF Case!TypeOK, Case!Given
<1>3. PassesFit' /\ FailuresHappened'
  BY <1>1 DEF IInv, PassesFit, PassFits, FailuresHappened
<1>4. QED  BY <1>1, <1>2, <1>3 DEF IInv, Case!TypeOK

LEMMA Init_Fits ==
  ASSUME Case!Given, Case!Init
  PROVE  IInv
<1>1. Case!TypeOK
  BY DEF Case!Given, Case!Init, Case!TypeOK
<1>2. PassesFit
  BY DEF Case!Init, PassesFit
<1>3. FailuresHappened
  BY DEF Case!Init, FailuresHappened
<1>4. QED  BY <1>1, <1>2, <1>3 DEF IInv

LEMMA Next_Fits ==
  ASSUME Case!Given, IInv, [Case!Next]_(Case!vars)
  PROVE  IInv'
BY CasesFit, StartRun_Fits, ReadDue_Fits, TakeItem_Fits, Tell_Fits, KeepItem_Fits, MarkItem_Fits, CutRun_Fits,
   LoseLock_Fits DEF Case!Next, Case!Working

\* The types, and what a run of the job has come to about the case in its hand: _run_case_notification_pass.
THEOREM Typing == Case!Spec => [](Case!TypeOK /\ IInv)
<1> USE CaseGiven
<1>1. Case!Init => IInv
  BY Init_Fits
<1>2. IInv /\ [Case!Next]_(Case!vars) => IInv'
  BY Next_Fits
<1>3. IInv => Case!TypeOK
  BY DEF IInv
<1>4. QED  BY <1>1, <1>2, <1>3, PTL DEF Case!Spec

-----------------------------------------------------------------------------
(* An item is marked for a reason *)

LEMMA ReasonStays ==
  ASSUME Case!Given, IInv, IInv', NEW x \in Case!Items, ToldKept, MissesKept,
         (\E p \in Case!People : heard[x][p] > 0) \/ PeopleOf[x[1]] = <<>> \/ misses[x] >= MaxFailures
  PROVE  (\E p \in Case!People : heard'[x][p] > 0) \/ PeopleOf[x[1]] = <<>> \/ misses'[x] >= MaxFailures
<1>1. \A p \in Case!People : heard[x][p] \in Nat /\ heard'[x][p] \in Nat /\ heard[x][p] <= heard'[x][p]
  BY DEF IInv, Case!TypeOK, ToldKept
<1>2. misses[x] \in Nat /\ misses'[x] \in Nat /\ misses[x] <= misses'[x] /\ MaxFailures \in Nat
  BY DEF IInv, Case!TypeOK, MissesKept, Case!Given
<1>3. QED  BY <1>1, <1>2

\* Nobody counts back.
LEMMA Kept ==
  ASSUME Case!Given, IInv, [Case!Next]_(Case!vars)
  PROVE  ToldKept /\ MissesKept
<1>1. UNCHANGED misses => MissesKept
  BY DEF MissesKept, IInv, Case!TypeOK
<1>2. UNCHANGED heard => ToldKept
  BY SameTold DEF IInv
<1>3. ASSUME NEW c \in Copies, Case!Working(c) PROVE ToldKept /\ MissesKept
  <2>1. CASE Case!StartRun(c) \/ Case!ReadDue(c) \/ Case!TakeItem(c)
    BY <1>1, <1>2, <2>1 DEF Case!StartRun, Case!ReadDue, Case!TakeItem
  <2>2. CASE Case!Tell(c)
    BY <1>1, <2>2, Tell_Fits DEF Case!Tell
  <2>3. CASE Case!KeepItem(c)
    BY <1>2, <2>3, KeepItem_Fits DEF Case!KeepItem
  <2>4. CASE Case!MarkItem(c)
    BY <1>2, <2>4, MarkItem_Fits DEF Case!MarkItem
  <2> QED BY <1>3, <2>1, <2>2, <2>3, <2>4 DEF Case!Working
<1>4. ASSUME NEW c \in Copies, Case!CutRun(c) \/ Case!LoseLock(c) PROVE ToldKept /\ MissesKept
  BY <1>1, <1>2, <1>4 DEF Case!CutRun, Case!LoseLock
<1>5. CASE (\E x \in Case!Items : Case!TimePasses(x)) \/ (\E c \in Cases : Case!CloseCase(c)) \/ UNCHANGED Case!vars
  BY <1>1, <1>2, <1>5 DEF Case!TimePasses, Case!CloseCase, Case!vars
<1>6. QED  BY <1>3, <1>4, <1>5 DEF Case!Next

\* The reason for which a run marks the item in its hand.
LEMMA MarkItem_Reason ==
  ASSUME Case!Given, IInv, NEW c \in Copies, Case!MarkItem(c), NEW x, x = pass[c].item
  PROVE  (\E p \in Case!People : heard'[x][p] > 0) \/ PeopleOf[x[1]] = <<>> \/ misses'[x] >= MaxFailures
<1> PICK q : q = pass[c]
  OBVIOUS
<1>1. /\ q \in Case!Passes /\ PassFits(q) /\ x \in Case!Items /\ x # None /\ Case!TypeOK
      /\ q.sent \in BOOLEAN /\ q.failed \in BOOLEAN /\ q.paused \in BOOLEAN
  BY TellingIs DEF Case!MarkItem, Case!Told, IInv, Case!Given
<1>2. /\ UNCHANGED heard /\ (q.left = <<>> \/ q.paused) /\ ~(q.paused /\ ~q.sent)
      /\ ~(Case!Unreached(q) /\ Case!TriesLeft(failures[c][x] + 1))
      /\ misses' = IF Case!Unreached(q) THEN Case!Missed(x) ELSE misses
  BY DEF Case!MarkItem, Case!Told, Case!Telling
<1>3. CASE q.sent
  BY <1>1, <1>2, <1>3 DEF PassFits
<1>4. CASE ~q.sent /\ ~q.failed
  BY <1>1, <1>2, <1>4 DEF PassFits
<1>5. CASE ~q.sent /\ q.failed
  <2>1. Case!Unreached(q)
    BY <1>2, <1>5 DEF Case!Unreached
  <2>2. failures[c][x] + 1 >= MaxFailures
    BY <1>1, <1>2, <2>1 DEF Case!TriesLeft, Case!Given, Case!TypeOK
  <2>3. misses' = Case!Missed(x)
    BY <1>2, <2>1
  <2>4. failures[c][x] <= misses[x] /\ failures[c][x] \in Nat /\ misses[x] \in Nat /\ MaxFailures \in Nat
    BY <1>1 DEF IInv, Case!TypeOK, FailuresHappened, Case!Given
  <2>5. misses'[x] = IF misses[x] < MaxFailures THEN misses[x] + 1 ELSE misses[x]
    BY <1>1, <2>3, MissedIs
  <2> QED BY <2>2, <2>4, <2>5
<1>6. QED  BY <1>3, <1>4, <1>5

\* MarkedForAReason: the "sent" column of a case is only filled when somebody was told, when nobody is to be told, or
\* when nobody could be reached in as many runs as the organisation allows, whatever else failed in between.
THEOREM Marked == Case!Spec => []Case!MarkedForAReason
<1> USE CaseGiven
<1>1. Case!Init => Case!MarkedForAReason
  BY DEF Case!Init, Case!MarkedForAReason
<1>2. IInv /\ Case!MarkedForAReason /\ [Case!Next]_(Case!vars) => Case!MarkedForAReason'
  <2> SUFFICES ASSUME IInv, Case!MarkedForAReason, [Case!Next]_(Case!vars), NEW x \in marked'
               PROVE  (\E p \in Case!People : heard'[x][p] > 0) \/ PeopleOf[x[1]] = <<>> \/ misses'[x] >= MaxFailures
    BY DEF Case!MarkedForAReason
  <2>1. IInv' /\ x \in Case!Items
    BY Next_Fits DEF IInv, Case!TypeOK
  <2>2. CASE x \in marked
    BY <2>1, <2>2, Kept, ReasonStays DEF Case!MarkedForAReason
  <2>3. CASE x \notin marked
    <3>1. PICK c \in Copies : Case!MarkItem(c)
      BY <2>3 DEF Case!Next, Case!vars, Case!job, Case!TimePasses, Case!CloseCase, Case!Working, Case!StartRun,
         Case!ReadDue, Case!TakeItem, Case!Tell, Case!KeepItem,
           Case!CutRun, Case!LoseLock
    <3>2. x = pass[c].item
      BY <2>3, <3>1 DEF Case!MarkItem
    <3> QED BY <3>1, <3>2, MarkItem_Reason
  <2> QED BY <2>2, <2>3
<1>3. QED  BY <1>1, <1>2, Typing, PTL DEF Case!Spec

-----------------------------------------------------------------------------
(* Nobody is told twice but for a fault *)

LEMMA CopiesAreFinite == ASSUME Case!Given PROVE IsFiniteSet(Copies)
BY DEF Case!Given, Case!IsFiniteSet, IsFiniteSet

LEMMA TellersAre ==
  ASSUME Case!Given, NEW x, NEW p
  PROVE  /\ IsFiniteSet(Copies \cup {None}) /\ None \notin Copies
         /\ MayTell(x, p) \subseteq Copies \cup {None} /\ MayTell(x, p)' \subseteq Copies \cup {None}
<1>1. IsFiniteSet(Copies \cup {None}) /\ None \notin Copies
  BY CopiesAreFinite, FS_AddElement DEF Case!Given
<1>2. QED  BY <1>1 DEF MayTell

LEMMA SizeOf ==
  ASSUME Case!Given, NEW T \in SUBSET (Copies \cup {None})
  PROVE  IsFiniteSet(T) /\ Cardinality(T) \in Nat
<1>1. IsFiniteSet(Copies \cup {None})
  BY CopiesAreFinite, FS_AddElement DEF Case!Given
<1>2. QED  BY <1>1, FS_Subset, FS_CardinalityType

\* How the number of those who may tell changes when one is left out, put in, or replaced.
LEMMA SizesOf ==
  ASSUME Case!Given, NEW M \in SUBSET (Copies \cup {None}), NEW N \in SUBSET (Copies \cup {None})
  PROVE  /\ N \subseteq M => Cardinality(N) <= Cardinality(M)
         /\ \A a \in M : N \subseteq M \ {a} => Cardinality(N) <= Cardinality(M) - 1
         /\ \A b : N \subseteq M \cup {b} => Cardinality(N) <= Cardinality(M) + 1
         /\ \A a \in M : \A b : N \subseteq (M \ {a}) \cup {b} => Cardinality(N) <= Cardinality(M)
<1>1. IsFiniteSet(M) /\ Cardinality(M) \in Nat
  BY SizeOf
<1>2. ASSUME N \subseteq M PROVE Cardinality(N) <= Cardinality(M)
  BY <1>1, <1>2, FS_Subset
<1>3. ASSUME NEW a \in M PROVE IsFiniteSet(M \ {a}) /\ Cardinality(M \ {a}) = Cardinality(M) - 1
  BY <1>1, FS_RemoveElement
<1>4. ASSUME NEW a \in M, N \subseteq M \ {a} PROVE Cardinality(N) <= Cardinality(M) - 1
  <2> PICK L : L = M \ {a}
    OBVIOUS
  <2>1. IsFiniteSet(L) /\ Cardinality(L) = Cardinality(M) - 1 /\ N \subseteq L
    BY <1>3, <1>4
  <2>2. Cardinality(N) <= Cardinality(L)
    BY <2>1, FS_Subset
  <2> QED BY <2>1, <2>2
<1>5. ASSUME NEW L, IsFiniteSet(L), Cardinality(L) \in Nat, NEW b, N \subseteq L \cup {b}
      PROVE  Cardinality(N) <= Cardinality(L) + 1
  <2>1. /\ IsFiniteSet(L \cup {b})
        /\ Cardinality(L \cup {b}) = Cardinality(L) + 1 \/ Cardinality(L \cup {b}) = Cardinality(L)
    BY <1>5, FS_AddElement
  <2>2. Cardinality(N) <= Cardinality(L \cup {b}) /\ Cardinality(N) \in Nat
    BY <1>5, <2>1, FS_Subset, SizeOf
  <2> QED BY <1>5, <2>1, <2>2
<1>6. ASSUME NEW a \in M, NEW b, N \subseteq (M \ {a}) \cup {b} PROVE Cardinality(N) <= Cardinality(M)
  <2> PICK L : L = M \ {a}
    OBVIOUS
  <2>1. IsFiniteSet(L) /\ Cardinality(L) = Cardinality(M) - 1
    BY <1>3
  <2>2. Cardinality(L) \in Nat
    BY <2>1, FS_CardinalityType
  <2>3. Cardinality(N) <= Cardinality(L) + 1
    BY <1>5, <1>6, <2>1, <2>2
  <2> QED BY <1>1, <2>1, <2>2, <2>3, SizeOf
<1>7. QED  BY <1>1, <1>2, <1>4, <1>5, <1>6

LEMMA DoneStays ==
  ASSUME NEW q, NEW x, NEW p, marked \subseteq marked', Done(q, x, p)
  PROVE  Done(q, x, p)'
BY DEF Done

\* The run in copy c goes on as r: c may then tell, or not, and None if it gave the lock back.
LEMMA TellersBecome ==
  ASSUME Case!Given, IInv, NEW x \in Case!Items, NEW p \in Case!People, NEW c \in Copies,
         NEW r \in Case!Passes \cup {None},
         Case!Becomes(c, r), marked \subseteq marked'
  PROVE  /\ r # None => MayTell(x, p)' \subseteq MayTell(x, p) \cup {c} /\ (Done(r, x, p)' => c \notin MayTell(x, p)')
         /\ r = None => /\ c \notin MayTell(x, p)' /\ MayTell(x, p)' \subseteq MayTell(x, p) \cup {None}
                        /\ x \in marked' => None \notin MayTell(x, p)'
                        /\ jobLock # c => MayTell(x, p)' \subseteq MayTell(x, p)
<1>1. /\ pass'[c] = r /\ \A d \in Copies \ {c} : pass'[d] = pass[d]
      /\ r # None => jobLock' = jobLock
      /\ r = None => jobLock' = IF jobLock = c THEN None ELSE jobLock
  BY BecomesTyped DEF IInv
<1>2. ASSUME NEW d \in MayTell(x, p)', d \in Copies \ {c} PROVE d \in MayTell(x, p)
  <2> PICK q : q = pass[d]
    OBVIOUS
  <2>1. pass'[d] = q /\ q # None /\ ~Done(q, x, p)'
    BY <1>1, <1>2, TellersAre DEF MayTell
  <2>2. ~Done(q, x, p)
    BY <2>1, DoneStays
  <2> QED BY <1>2, <2>1, <2>2 DEF MayTell
<1>3. None \in MayTell(x, p)' <=> jobLock' = None /\ x \notin marked'
  BY TellersAre DEF MayTell
<1>4. None \in MayTell(x, p) <=> jobLock = None /\ x \notin marked
  BY TellersAre DEF MayTell
<1>5. jobLock' = jobLock => (None \in MayTell(x, p)' => None \in MayTell(x, p))
  BY <1>3, <1>4
<1>6. c \in MayTell(x, p)' <=> r # None /\ ~Done(r, x, p)'
  BY <1>1, TellersAre DEF MayTell
<1>7. MayTell(x, p)' \subseteq Copies \cup {None} /\ c # None
  BY TellersAre
<1>8. ASSUME r # None
      PROVE  MayTell(x, p)' \subseteq MayTell(x, p) \cup {c} /\ (Done(r, x, p)' => c \notin MayTell(x, p)')
  BY <1>1, <1>2, <1>5, <1>6, <1>7, <1>8
<1>9. ASSUME r = None
      PROVE  /\ c \notin MayTell(x, p)' /\ MayTell(x, p)' \subseteq MayTell(x, p) \cup {None}
             /\ x \in marked' => None \notin MayTell(x, p)'
             /\ jobLock # c => MayTell(x, p)' \subseteq MayTell(x, p)
  BY <1>1, <1>2, <1>3, <1>5, <1>6, <1>7, <1>9
<1>10. QED  BY <1>8, <1>9

\* One more may tell, at most.
LEMMA OneMoreTells ==
  ASSUME Case!Given, IInv, NEW x \in Case!Items, NEW p \in Case!People, NEW c \in Copies,
         NEW r \in Case!Passes \cup {None},
         Case!Becomes(c, r), marked \subseteq marked'
  PROVE  Cardinality(MayTell(x, p)') <= Cardinality(MayTell(x, p)) + 1
<1> PICK M : M = MayTell(x, p)
  OBVIOUS
<1> PICK N : N = MayTell(x, p)'
  OBVIOUS
<1>1. N \subseteq M \cup {c} \/ N \subseteq M \cup {None}
  BY TellersBecome
<1>2. Cardinality(N) <= Cardinality(M) + 1
  BY <1>1, SizesOf, TellersAre
<1>3. QED  BY <1>2

\* No more may tell, if the run is done where it was, and leaves x marked if it was done.
LEMMA NoMoreTell ==
  ASSUME Case!Given, IInv, NEW x \in Case!Items, NEW p \in Case!People, NEW c \in Copies,
         NEW r \in Case!Passes \cup {None},
         NEW q, q = pass[c], q # None, Case!Becomes(c, r), marked \subseteq marked',
         r # None /\ Done(q, x, p) => Done(r, x, p)',
         r = None /\ Done(q, x, p) => x \in marked'
  PROVE  Cardinality(MayTell(x, p)') <= Cardinality(MayTell(x, p))
<1> PICK M : M = MayTell(x, p)
  OBVIOUS
<1> PICK N : N = MayTell(x, p)'
  OBVIOUS
<1>1. c \in M <=> ~Done(q, x, p)
  BY TellersAre DEF MayTell
<1>2. CASE r # None
  <2>1. N \subseteq M
    BY <1>1, <1>2, TellersBecome
  <2> QED BY <2>1, SizesOf, TellersAre
<1>3. CASE r = None
  <2>1. c \notin N /\ N \subseteq M \cup {None} /\ (x \in marked' => None \notin N)
    BY <1>3, TellersBecome
  <2>2. CASE c \in M
    <3>1. N \subseteq (M \ {c}) \cup {None}
      BY <2>1
    <3> QED BY <2>2, <3>1, SizesOf, TellersAre
  <2>3. CASE c \notin M
    <3>1. N \subseteq M
      BY <1>1, <1>3, <2>1, <2>3
    <3> QED BY <3>1, SizesOf, TellersAre
  <2> QED BY <2>2, <2>3
<1>4. QED  BY <1>2, <1>3

\* No more may tell and nobody is told; or one more may tell, for a fault.
LEMMA NothingTold ==
  ASSUME Case!Given, IInv, IInv', NEW x \in Case!Items, NEW p \in Case!People, heard'[x][p] = heard[x][p],
         heard[x][p] + Cardinality(MayTell(x, p)) <= 1 + faults,
         \/ Cardinality(MayTell(x, p)') <= Cardinality(MayTell(x, p)) /\ faults' \in {faults, faults + 1}
         \/ Cardinality(MayTell(x, p)') <= Cardinality(MayTell(x, p)) + 1 /\ faults' = faults + 1
  PROVE  heard'[x][p] + Cardinality(MayTell(x, p)') <= 1 + faults'
<1>1. heard[x][p] \in Nat /\ faults \in Nat
  BY DEF IInv, Case!TypeOK
<1>2. Cardinality(MayTell(x, p)) \in Nat /\ Cardinality(MayTell(x, p)') \in Nat
  BY SizeOf, TellersAre
<1>3. CASE Cardinality(MayTell(x, p)') <= Cardinality(MayTell(x, p)) /\ faults' \in {faults, faults + 1}
  BY <1>1, <1>2, <1>3
<1>4. CASE Cardinality(MayTell(x, p)') <= Cardinality(MayTell(x, p)) + 1 /\ faults' = faults + 1
  BY <1>1, <1>2, <1>4
<1>5. QED  BY <1>3, <1>4

LEMMA CasesAccounted ==
  ASSUME Case!Given, IInv, IInv', NEW x \in Case!Items, NEW p \in Case!People,
         heard[x][p] + Cardinality(MayTell(x, p)) <= 1 + faults,
         (\E y \in Case!Items : Case!TimePasses(y)) \/ (\E d \in Cases : Case!CloseCase(d)) \/ UNCHANGED Case!vars
  PROVE  heard'[x][p] + Cardinality(MayTell(x, p)') <= 1 + faults'
<1>1. UNCHANGED <<marked, jobLock, pass, faults, heard>>
  BY DEF Case!TimePasses, Case!CloseCase, Case!vars, Case!job
<1>2. MayTell(x, p)' = MayTell(x, p)
  BY <1>1 DEF MayTell, Done
<1>3. Cardinality(MayTell(x, p)') <= Cardinality(MayTell(x, p))
  BY <1>2, SizesOf, TellersAre
<1>4. QED  BY <1>1, <1>3, NothingTold

LEMMA StartRun_Accounted ==
  ASSUME Case!Given, IInv, IInv', NEW c \in Copies, Case!StartRun(c), NEW x \in Case!Items, NEW p \in Case!People,
         heard[x][p] + Cardinality(MayTell(x, p)) <= 1 + faults
  PROVE  heard'[x][p] + Cardinality(MayTell(x, p)') <= 1 + faults'
<1>1. UNCHANGED <<marked, faults, heard>> /\ pass[c] = None /\ jobLock = None /\ jobLock' = c /\ Case!TypeOK
  BY DEF Case!StartRun, IInv
<1>2. pass' = [pass EXCEPT ![c] = Case!Blank(1, None)]
  BY DEF Case!StartRun
<1>3. pass'[c] = Case!Blank(1, None) /\ \A d \in Copies \ {c} : pass'[d] = pass[d]
  BY <1>1, <1>2 DEF Case!TypeOK
<1> PICK M : M = MayTell(x, p)
  OBVIOUS
<1> PICK N : N = MayTell(x, p)'
  OBVIOUS
<1>4. None \notin N /\ N \subseteq Copies \cup {None}
  BY <1>1, TellersAre DEF MayTell
<1>5. \A d \in Copies \ {c} : d \in N => d \in M
  BY <1>1, <1>3 DEF MayTell, Done
<1>6. CASE x \in marked
  <2>1. c \notin N
    BY <1>1, <1>3, <1>6, TellersAre DEF MayTell, Done, Case!Blank, Case!Given
  <2> QED BY <1>1, <1>4, <1>5, <2>1, SizesOf, TellersAre, NothingTold
<1>7. CASE x \notin marked
  <2>1. None \in M
    BY <1>1, <1>7 DEF MayTell
  <2>2. N \subseteq (M \ {None}) \cup {c}
    BY <1>4, <1>5
  <2>3. Cardinality(N) <= Cardinality(M)
    BY <2>1, <2>2, SizesOf, TellersAre
  <2> QED BY <1>1, <2>3, NothingTold
<1>8. QED  BY <1>6, <1>7

\* A run with nothing in hand is done with x only if x is marked.
LEMMA BlankDone ==
  ASSUME Case!Given, NEW i \in DOMAIN Rounds, NEW due \in (SUBSET Case!Items) \cup {None}, NEW x \in Case!Items,
         NEW p,
         x \in marked', due = None \/ x \notin due
  PROVE  Done(Case!Blank(i, due), x, p)'
<1>1. Case!Blank(i, due).due = due /\ Case!Blank(i, due).item = None /\ None # x
  BY BlankIs DEF Case!Given
<1>2. QED  BY <1>1 DEF Done

LEMMA AfterDone ==
  ASSUME Case!Given, NEW i \in DOMAIN Rounds, NEW x \in Case!Items, NEW p, x \in marked'
  PROVE  Case!After(i) # None => Done(Case!After(i), x, p)'
<1>1. CASE Case!After(i) = None
  BY <1>1
<1>2. CASE i + 1 \in DOMAIN Rounds /\ Case!After(i) = Case!Blank(i + 1, None)
  <2>1. Done(Case!Blank(i + 1, None), x, p)'
    BY <1>2, BlankDone
  <2> QED BY <1>2, <2>1
<1>3. QED  BY <1>1, <1>2, AfterIs

LEMMA ReadDue_Accounted ==
  ASSUME Case!Given, IInv, IInv', NEW c \in Copies, Case!ReadDue(c), NEW x \in Case!Items, NEW p \in Case!People,
         heard[x][p] + Cardinality(MayTell(x, p)) <= 1 + faults
  PROVE  heard'[x][p] + Cardinality(MayTell(x, p)') <= 1 + faults'
<1>1. UNCHANGED <<marked, faults, heard, config>> /\ Case!TypeOK
  BY DEF Case!ReadDue, IInv
<1> PICK q : q = pass[c]
  OBVIOUS
<1>2. q # None /\ q \in Case!Passes /\ q.due = None /\ q.item = None /\ q.at \in DOMAIN Rounds
  BY PassParts DEF Case!ReadDue, Case!Reading, Case!Runs, IInv, Case!TypeOK, PassesFit, PassFits
<1> PICK r : r = Rounds[q.at]
  OBVIOUS
<1>3. Case!Becomes(c, Case!After(q.at)) \/ Case!Becomes(c, None) \/ Case!Becomes(c, [q EXCEPT !.due = Case!Due(r)])
  <2>1. config[r.org] \in {"fine", "skipped", "raises"}
    BY <1>1, <1>2, RoundAt DEF Case!TypeOK, Case!Given
  <2> QED BY <2>1 DEF Case!ReadDue
<1>4. Done(q, x, p) => x \in marked'
  BY <1>1, <1>2 DEF Done, Case!Given
<1>5. Cardinality(MayTell(x, p)') <= Cardinality(MayTell(x, p))
  <2>1. CASE Case!Becomes(c, Case!After(q.at))
    BY <1>1, <1>2, <1>4, <2>1, AfterFits, AfterDone, NoMoreTell
  <2>2. CASE Case!Becomes(c, None)
    BY <1>1, <1>2, <1>4, <2>2, NoMoreTell
  <2>3. CASE Case!Becomes(c, [q EXCEPT !.due = Case!Due(r)])
    <3> PICK due : due = Case!Due(r)
      OBVIOUS
    <3> DEFINE s == [q EXCEPT !.due = due]
    <3>1. due \subseteq Case!Items /\ due \cap marked = {}
      BY DEF Case!Due, Case!Of, Case!Waiting
    <3>2. s \in Case!Passes /\ s.item = None /\ s.due = due
      BY <1>2, <3>1 DEF Case!Passes
    <3>3. Case!Becomes(c, s)
      BY <2>3
    <3> HIDE DEF s
    <3>4. Done(q, x, p) => Done(s, x, p)'
      BY <1>1, <1>4, <3>1, <3>2 DEF Done, Case!Given
    <3>5. s # None
      BY <3>2 DEF Case!Given
    <3> QED BY <1>1, <1>2, <3>2, <3>3, <3>4, <3>5, NoMoreTell
  <2> QED BY <1>3, <2>1, <2>2, <2>3
<1>6. QED  BY <1>1, <1>5, NothingTold

LEMMA TakeItem_Accounted ==
  ASSUME Case!Given, IInv, IInv', NEW c \in Copies, Case!TakeItem(c), NEW x \in Case!Items, NEW p \in Case!People,
         heard[x][p] + Cardinality(MayTell(x, p)) <= 1 + faults
  PROVE  heard'[x][p] + Cardinality(MayTell(x, p)') <= 1 + faults'
<1>1. UNCHANGED <<marked, faults, heard>> /\ Case!TypeOK
  BY DEF Case!TakeItem, IInv
<1> PICK q : q = pass[c]
  OBVIOUS
<1>2. q # None /\ q \in Case!Passes /\ q.due \in SUBSET Case!Items /\ q.at \in DOMAIN Rounds /\ q.item = None
  <2>1. q # None /\ q.due # None /\ q.item = None
    BY DEF Case!TakeItem, Case!Choosing, Case!Runs
  <2>2. q \in Case!Passes
    BY <1>1, <2>1 DEF Case!TypeOK
  <2> QED BY <2>1, <2>2, PassParts
<1>3. Done(q, x, p) => x \in marked' /\ x \notin q.due
  BY <1>1, <1>2 DEF Done, Case!Given
<1>4. Cardinality(MayTell(x, p)') <= Cardinality(MayTell(x, p))
  <2>1. CASE Case!Becomes(c, Case!After(q.at))
    BY <1>1, <1>2, <1>3, <2>1, AfterFits, AfterDone, NoMoreTell
  <2>2. ASSUME NEW y \in q.due, NEW failed \in BOOLEAN, NEW left \in Seq(Case!People),
               Case!Becomes(c, Taken(q.at, q.due, y, failed, left))
        PROVE  Cardinality(MayTell(x, p)') <= Cardinality(MayTell(x, p))
    <3> DEFINE s == Taken(q.at, q.due, y, failed, left)
    <3>1. s \in Case!Passes /\ s.item = y /\ s.due = q.due \ {y}
      <4>1. s \in Case!Passes
        BY <1>2, TakenIs
      <4> QED BY <4>1 DEF Taken, Case!Blank
    <3> HIDE DEF s
    <3>2. Done(q, x, p) => Done(s, x, p)'
      BY <1>3, <3>1 DEF Done
    <3>3. s # None
      BY <3>1 DEF Case!Given
    <3>4. Case!Becomes(c, s)
      BY <2>2 DEF s
    <3> QED BY <1>1, <1>2, <3>1, <3>2, <3>3, <3>4, NoMoreTell
  <2>3. ASSUME NEW y \in q.due, NEW failed \in BOOLEAN,
               Case!Becomes(c, [Case!Blank(q.at, q.due \ {y}) EXCEPT
                             !.item = y, !.failed = failed, !.left = IF failed THEN <<>> ELSE PeopleOf[y[1]]])
        PROVE  Cardinality(MayTell(x, p)') <= Cardinality(MayTell(x, p))
    <3> PICK left : left = IF failed THEN <<>> ELSE PeopleOf[y[1]]
      OBVIOUS
    <3>1. left \in Seq(Case!People)
      <4>1. PeopleOf[y[1]] \in Seq(Case!People)
        BY <1>2, ItemParts, PeopleAt
      <4> QED BY <4>1
    <3>2. Case!Becomes(c, Taken(q.at, q.due, y, failed, left))
      BY <2>3 DEF Taken
    <3> QED BY <2>2, <3>1, <3>2
  <2> QED BY <2>1, <2>3 DEF Case!TakeItem
<1>5. QED  BY <1>1, <1>4, NothingTold

\* A run that goes on with the same item, closer to the end of its list, is done with whom it was done with.
LEMMA CloserIsDone ==
  ASSUME NEW q, NEW r, NEW x, NEW p, marked \subseteq marked', Done(q, x, p), r.item = q.item, r.due = q.due,
         q.sent => r.sent, Case!Range(r.left) \subseteq Case!Range(q.left)
  PROVE  Done(r, x, p)'
BY DEF Done

\* What a try to tell somebody adds to the count of p.
LEMMA TellCounts ==
  ASSUME Case!Given, IInv, NEW c \in Copies, Case!Tell(c), NEW q, q = pass[c], NEW x \in Case!Items,
         NEW p \in Case!People
  PROVE  \/ /\ heard'[x][p] = heard[x][p] /\ faults' \in {faults, faults + 1}
            /\ \E r \in {Reached(q), Passed(q), Waits(q)} : Case!Becomes(c, r)
         \/ /\ heard'[x][p] = heard[x][p] + 1 /\ x = q.item /\ p = Head(q.left)
            /\ Case!Becomes(c, Reached(q)) /\ faults' = faults
<1>1. /\ q.left # <<>>
      /\ \/ /\ heard' = [heard EXCEPT ![q.item][Head(q.left)] = @ + 1]
            /\ Case!Becomes(c, Reached(q)) /\ faults' = faults
         \/ Case!Becomes(c, Passed(q)) /\ UNCHANGED <<heard, faults>>
         \/ faults < MaxFaults /\ faults' = faults + 1 /\ Case!Becomes(c, Waits(q)) /\ UNCHANGED heard
  BY TellIs
<1>2. q.item \in Case!Items /\ q.left \in Seq(Case!People) /\ Case!IsInjective(q.left)
  BY TellIs, TellingIs, PassParts DEF PassFits
<1> PICK y : y = q.item
  OBVIOUS
<1> PICK h : h = Head(q.left)
  OBVIOUS
<1>3. CASE heard' = [heard EXCEPT ![y][h] = @ + 1] /\ Case!Becomes(c, Reached(q)) /\ faults' = faults
  <2>1. Case!TypeOK /\ y \in Case!Items /\ h \in Case!People
    BY <1>1, <1>2, RestOf DEF IInv
  <2>2. heard' = [heard EXCEPT ![y][h] = @ + 1]
    BY <1>3
  <2>3. heard'[x][p] = IF x = y /\ p = h THEN heard[x][p] + 1 ELSE heard[x][p]
    BY <2>1, <2>2, SMTT(40) DEF Case!TypeOK
  <2> QED BY <1>3, <2>3
<1>4. CASE UNCHANGED heard
  BY <1>1, <1>4
<1>5. QED  BY <1>1, <1>3, <1>4

LEMMA Tell_Accounted ==
  ASSUME Case!Given, IInv, IInv', NEW c \in Copies, Case!Tell(c), NEW x \in Case!Items, NEW p \in Case!People,
         heard[x][p] + Cardinality(MayTell(x, p)) <= 1 + faults
  PROVE  heard'[x][p] + Cardinality(MayTell(x, p)') <= 1 + faults'
<1> PICK q : q = pass[c]
  OBVIOUS
<1>1. /\ UNCHANGED marked /\ Case!TypeOK /\ q.left # <<>>
      /\ \/ /\ heard' = [heard EXCEPT ![q.item][Head(q.left)] = @ + 1]
            /\ Case!Becomes(c, Reached(q)) /\ faults' = faults
         \/ Case!Becomes(c, Passed(q)) /\ UNCHANGED <<heard, faults>>
         \/ faults < MaxFaults /\ faults' = faults + 1 /\ Case!Becomes(c, Waits(q)) /\ UNCHANGED heard
  BY TellIs DEF IInv
<1>2. /\ q # None /\ q \in Case!Passes /\ q.item \in Case!Items /\ q.left \in Seq(Case!People)
         /\ Case!IsInjective(q.left)
  BY TellIs, TellingIs, PassParts DEF PassFits
<1>3. /\ Head(q.left) \in Case!Range(q.left) /\ Head(q.left) \notin Case!Range(Tail(q.left))
      /\ Case!Range(Tail(q.left)) \subseteq Case!Range(q.left)
  BY <1>1, <1>2, RestOf
<1>4. ASSUME NEW r \in {Reached(q), Passed(q), Waits(q)}, Case!Becomes(c, r)
      PROVE  Cardinality(MayTell(x, p)') <= Cardinality(MayTell(x, p))
  <2>1. /\ r \in Case!Passes /\ r.item = q.item /\ r.due = q.due /\ (q.sent => r.sent)
        /\ r.left = Tail(q.left) \/ r.left = q.left
    <3>1. CASE r = Reached(q)
      BY <1>1, <1>2, <3>1, ToldIs
    <3>2. CASE r = Passed(q)
      BY <1>1, <1>2, <3>2, ToldIs
    <3>3. CASE r = Waits(q)
      BY <1>1, <1>2, <3>3, ToldIs
    <3> QED BY <3>1, <3>2, <3>3
  <2>2. Case!Range(r.left) \subseteq Case!Range(q.left)
    BY <1>3, <2>1
  <2>3. Done(q, x, p) => Done(r, x, p)'
    BY <1>1, <2>1, <2>2, CloserIsDone
  <2>4. r # None
    BY <2>1 DEF Case!Given
  <2> QED BY <1>1, <1>2, <1>4, <2>1, <2>3, <2>4, NoMoreTell
<1>5. \/ /\ heard'[x][p] = heard[x][p] /\ faults' \in {faults, faults + 1}
         /\ \E r \in {Reached(q), Passed(q), Waits(q)} : Case!Becomes(c, r)
      \/ /\ heard'[x][p] = heard[x][p] + 1 /\ x = q.item /\ p = Head(q.left)
         /\ Case!Becomes(c, Reached(q)) /\ faults' = faults
  BY TellCounts
<1>6. CASE /\ heard'[x][p] = heard[x][p] /\ faults' \in {faults, faults + 1}
           /\ \E r \in {Reached(q), Passed(q), Waits(q)} : Case!Becomes(c, r)
  BY <1>4, <1>6, NothingTold
<1>7. CASE /\ heard'[x][p] = heard[x][p] + 1 /\ x = q.item /\ p = Head(q.left)
           /\ Case!Becomes(c, Reached(q)) /\ faults' = faults
  <2> PICK M : M = MayTell(x, p)
    OBVIOUS
  <2> PICK N : N = MayTell(x, p)'
    OBVIOUS
  <2> PICK r : r = Reached(q)
    OBVIOUS
  <2>1. r \in Case!Passes /\ r.item = x /\ r.due = q.due /\ r.sent /\ r.left = Tail(q.left) /\ r # None
    BY <1>1, <1>2, <1>7, ToldIs DEF Case!Given
  <2>2. ~Done(q, x, p)
    BY <1>3, <1>7 DEF Done
  <2>3. c \in M
    BY <1>2, <2>2 DEF MayTell
  <2>4. Done(r, x, p)'
    BY <1>3, <1>7, <2>1 DEF Done
  <2>5. N \subseteq M \cup {c} /\ c \notin N
    <3>1. Case!Becomes(c, r) /\ marked \subseteq marked' /\ r \in Case!Passes \cup {None} /\ r # None
      BY <1>1, <1>7, <2>1
    <3> QED BY <2>4, <3>1, TellersBecome
  <2>6. N \subseteq M \ {c}
    BY <2>5
  <2>7. Cardinality(N) <= Cardinality(M) - 1
    BY <2>3, <2>6, SizesOf, TellersAre
  <2>8. heard[x][p] \in Nat /\ faults \in Nat /\ Cardinality(M) \in Nat /\ Cardinality(N) \in Nat
    BY <1>1, SizeOf, TellersAre DEF Case!TypeOK
  <2>9. heard[x][p] + 1 + Cardinality(N) <= 1 + faults
    BY <2>7, <2>8
  <2> QED BY <1>7, <2>9
<1>8. QED  BY <1>5, <1>6, <1>7

LEMMA KeepItem_Accounted ==
  ASSUME Case!Given, IInv, IInv', NEW c \in Copies, Case!KeepItem(c), NEW x \in Case!Items, NEW p \in Case!People,
         heard[x][p] + Cardinality(MayTell(x, p)) <= 1 + faults
  PROVE  heard'[x][p] + Cardinality(MayTell(x, p)') <= 1 + faults'
<1>1. UNCHANGED <<marked, faults, heard>> /\ Case!Telling(c)
  BY DEF Case!KeepItem, Case!Told
<1> PICK q : q = pass[c]
  OBVIOUS
<1>2. q # None /\ q \in Case!Passes /\ q.item \in Case!Items /\ q.due \in SUBSET Case!Items /\ q.at \in DOMAIN Rounds
  BY <1>1, TellingIs
<1>3. ~q.sent /\ (Case!Becomes(c, Case!After(q.at)) \/ Case!Becomes(c, Case!Blank(q.at, q.due)))
  BY DEF Case!KeepItem, Case!Unreached
<1>4. Done(q, x, p) => x \in marked' /\ x \notin q.due
  BY <1>1, <1>2, <1>3 DEF Done, Case!Given
<1>5. Cardinality(MayTell(x, p)') <= Cardinality(MayTell(x, p))
  <2>1. CASE Case!Becomes(c, Case!After(q.at))
    BY <1>1, <1>2, <1>4, <2>1, AfterFits, AfterDone, NoMoreTell
  <2>2. CASE Case!Becomes(c, Case!Blank(q.at, q.due))
    <3>1. Done(q, x, p) => Done(Case!Blank(q.at, q.due), x, p)'
      BY <1>2, <1>4, BlankDone
    <3>2. Case!Blank(q.at, q.due) \in Case!Passes /\ Case!Blank(q.at, q.due) # None
      BY <1>2, BlankIs
    <3> QED BY <1>1, <1>2, <2>2, <3>1, <3>2, NoMoreTell
  <2> QED BY <1>3, <2>1, <2>2
<1>6. QED  BY <1>1, <1>5, NothingTold

LEMMA MarkItem_Accounted ==
  ASSUME Case!Given, IInv, IInv', NEW c \in Copies, Case!MarkItem(c), NEW x \in Case!Items, NEW p \in Case!People,
         heard[x][p] + Cardinality(MayTell(x, p)) <= 1 + faults
  PROVE  heard'[x][p] + Cardinality(MayTell(x, p)') <= 1 + faults'
<1>1. UNCHANGED heard /\ Case!Telling(c)
  BY DEF Case!MarkItem, Case!Told
<1> PICK q : q = pass[c]
  OBVIOUS
<1>2. /\ q # None /\ q \in Case!Passes /\ q.item \in Case!Items /\ q.due \in SUBSET Case!Items
         /\ q.at \in DOMAIN Rounds
      /\ PassFits(q)
  BY <1>1, TellingIs
<1>3. /\ \/ marked' = marked \cup {q.item} /\ UNCHANGED faults
         \/ faults < MaxFaults /\ faults' = faults + 1 /\ UNCHANGED marked
      /\ Case!Becomes(c, Case!After(q.at)) \/ Case!Becomes(c, Case!Blank(q.at, q.due))
  <2>1. /\ \/ marked' = marked \cup {q.item} /\ UNCHANGED faults
           \/ faults < MaxFaults /\ faults' = faults + 1 /\ UNCHANGED marked
        /\ Case!Becomes(c, IF q.paused THEN Case!After(q.at) ELSE Case!Blank(q.at, q.due))
    BY DEF Case!MarkItem
  <2>2. CASE q.paused
    <3>1. Case!Becomes(c, Case!After(q.at))
      BY <2>1, <2>2
    <3> QED BY <2>1, <3>1
  <2>3. CASE ~q.paused
    <3>1. Case!Becomes(c, Case!Blank(q.at, q.due))
      BY <2>1, <2>3
    <3> QED BY <2>1, <3>1
  <2> QED BY <2>2, <2>3
<1>4. /\ Case!After(q.at) \in Case!Passes \cup {None}
      /\ Case!Blank(q.at, q.due) \in Case!Passes /\ Case!Blank(q.at, q.due) # None
  BY <1>2, AfterFits, BlankIs
<1>5. CASE faults' = faults + 1 /\ UNCHANGED marked
  <2>1. Cardinality(MayTell(x, p)') <= Cardinality(MayTell(x, p)) + 1
    BY <1>3, <1>4, <1>5, OneMoreTells
  <2> QED BY <1>1, <1>5, <2>1, NothingTold
<1>6. CASE marked' = marked \cup {q.item} /\ UNCHANGED faults
  <2>1. Done(q, x, p) => x \in marked' /\ x \notin q.due
    BY <1>2, <1>6 DEF Done, Case!Given, PassFits
  <2>2. Cardinality(MayTell(x, p)') <= Cardinality(MayTell(x, p))
    <3>1. CASE Case!Becomes(c, Case!After(q.at))
      BY <1>2, <1>4, <1>6, <2>1, <3>1, AfterDone, NoMoreTell
    <3>2. CASE Case!Becomes(c, Case!Blank(q.at, q.due))
      <4>1. Done(q, x, p) => Done(Case!Blank(q.at, q.due), x, p)'
        BY <1>2, <2>1, BlankDone
      <4> QED BY <1>2, <1>4, <1>6, <3>2, <4>1, NoMoreTell
    <3> QED BY <1>3, <3>1, <3>2
  <2> QED BY <1>1, <1>6, <2>2, NothingTold
<1>7. QED  BY <1>3, <1>5, <1>6

LEMMA CutOff_Accounted ==
  ASSUME Case!Given, IInv, IInv', NEW c \in Copies, Case!CutRun(c) \/ Case!LoseLock(c), NEW x \in Case!Items,
         NEW p \in Case!People,
         heard[x][p] + Cardinality(MayTell(x, p)) <= 1 + faults
  PROVE  heard'[x][p] + Cardinality(MayTell(x, p)') <= 1 + faults'
<1>1. UNCHANGED <<heard, marked>> /\ faults' = faults + 1
  BY DEF Case!CutRun, Case!LoseLock
<1>2. Cardinality(MayTell(x, p)') <= Cardinality(MayTell(x, p)) + 1
  <2>1. CASE Case!CutRun(c)
    <3>1. Case!Becomes(c, None)
      BY <2>1 DEF Case!CutRun
    <3> QED BY <1>1, <3>1, OneMoreTells
  <2>2. CASE Case!LoseLock(c)
    <3> PICK M : M = MayTell(x, p)
      OBVIOUS
    <3> PICK N : N = MayTell(x, p)'
      OBVIOUS
    <3>1. UNCHANGED <<pass, marked>>
      BY <2>2 DEF Case!LoseLock
    <3>2. N \subseteq M \cup {None}
      BY <3>1 DEF MayTell, Done
    <3> QED BY <3>2, SizesOf, TellersAre
  <2> QED BY <2>1, <2>2
<1>3. QED  BY <1>1, <1>2, NothingTold

\* ToldOnce: nobody hears the same about a case twice, except for each mark that failed, run that was cut off, lock
\* that was lost and limit of the messenger: the loop of _run_case_notification_pass that marks a case as soon as one
\* of its people was told, under a lock whose holder may lose it and go on.
THEOREM OnlyOnce == Case!Spec => []Case!ToldOnce
<1> USE CaseGiven
<1>1. Case!Init => Accounted
  <2> SUFFICES ASSUME Case!Init, NEW x \in Case!Items, NEW p \in Case!People
               PROVE  heard[x][p] + Cardinality(MayTell(x, p)) <= 1 + faults
    BY DEF Accounted
  <2>1. heard[x][p] = 0 /\ faults = 0
    BY DEF Case!Init
  <2> PICK N : N = MayTell(x, p)
    OBVIOUS
  <2>2. N \subseteq {} \cup {None}
    BY DEF Case!Init, MayTell
  <2>3. Cardinality(N) <= Cardinality({}) + 1
    BY <2>2, SizesOf, TellersAre
  <2> QED BY <2>1, <2>3, FS_EmptySet, SizeOf, TellersAre
<1>2. IInv /\ Accounted /\ [Case!Next]_(Case!vars) => Accounted'
  <2> SUFFICES ASSUME IInv, Accounted, [Case!Next]_(Case!vars), NEW x \in Case!Items, NEW p \in Case!People
               PROVE  heard'[x][p] + Cardinality(MayTell(x, p)') <= 1 + faults'
    BY DEF Accounted
  <2>1. IInv' /\ heard[x][p] + Cardinality(MayTell(x, p)) <= 1 + faults
    BY Next_Fits DEF Accounted
  <2>2. ASSUME NEW c \in Copies, Case!Working(c) PROVE heard'[x][p] + Cardinality(MayTell(x, p)') <= 1 + faults'
    BY <2>1, <2>2, StartRun_Accounted, ReadDue_Accounted, TakeItem_Accounted, Tell_Accounted, KeepItem_Accounted,
       MarkItem_Accounted DEF Case!Working
  <2>3. ASSUME NEW c \in Copies, Case!CutRun(c) \/ Case!LoseLock(c)
        PROVE  heard'[x][p] + Cardinality(MayTell(x, p)') <= 1 + faults'
    BY <2>1, <2>3, CutOff_Accounted
  <2>4. CASE (\E y \in Case!Items : Case!TimePasses(y)) \/ (\E d \in Cases : Case!CloseCase(d)) \/ UNCHANGED Case!vars
    BY <2>1, <2>4, CasesAccounted
  <2> QED BY <2>2, <2>3, <2>4 DEF Case!Next
<1>3. IInv /\ Accounted => Case!ToldOnce
  <2> SUFFICES ASSUME IInv, Accounted, NEW x \in Case!Items, NEW p \in Case!People PROVE heard[x][p] <= 1 + faults
    BY DEF Case!ToldOnce
  <2>1. heard[x][p] \in Nat /\ faults \in Nat /\ heard[x][p] + Cardinality(MayTell(x, p)) <= 1 + faults
    BY DEF IInv, Case!TypeOK, Accounted
  <2>2. Cardinality(MayTell(x, p)) \in Nat
    BY SizeOf, TellersAre
  <2> QED BY <2>1, <2>2
<1>4. QED  BY <1>1, <1>2, <1>3, Typing, PTL DEF Case!Spec

\* MarkedRight, of the cases of InTheEnd: both of the above.
THEOREM MarkedRightHolds == Case!Spec => []MarkedRight
<1>1. Case!ToldOnce /\ Case!MarkedForAReason => MarkedRight
  BY DEF MarkedRight
<1> QED BY <1>1, OnlyOnce, Marked, PTL
=============================================================================
