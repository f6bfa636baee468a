---------------------------- MODULE CaseReminders ----------------------------
(***************************************************************************)
(* The reminders about open cases: the job of scheduler/jobs.py that tells *)
(* the assignee and the complainant of a case once that it is open for     *)
(* long, and once that its whole time is over.  It runs each minute in one *)
(* copy of the app, for one organisation after the other.                  *)
(***************************************************************************)
EXTENDS Naturals, Sequences, FiniteSets, Functions

CONSTANTS
  Copies,
  Rounds,             \* the passes of one run of the job, in their order: [org, kind]
  Cases,
  OrgOf,              \* the organisation of each case
  PeopleOf,           \* who is told about each case: the assignee, then the complainant if it is someone else
  Configs,            \* an organisation's settings: "fine", "skipped" (off, or not fitting the tables), "raises"
  MaxFailures,        \* reminder_max_failures
  None,
  MaxFaults           \* bound: passes cut off, locks lost, marks that fail, and limits of the messenger

\* A case and a message about it that is sent once.
Items == {x \in Cases \X {"reminder", "tat_breach"} :
            \E i \in DOMAIN Rounds : Rounds[i] = [org |-> OrgOf[x[1]], kind |-> x[2]]}
People == UNION {Range(PeopleOf[c]) : c \in Cases}

VARIABLES
  config,       \* config[o]: the settings of organisation o; nothing here changes them
  late,         \* items whose time has passed
  closed,       \* cases that are closed
  marked,       \* items with their "sent" column filled
  failures,     \* failures[c][x]: _reminder_failures in the memory of copy c
  jobLock,
  pass,         \* pass[c]: the run of the job in copy c
  faults,
  told,         \* history: told[x][p], how often p got the message of item x
  misses        \* history: misses[x], the passes in which nobody could be reached about x, up to MaxFailures

job == <<failures, jobLock, pass>>
vars == <<config, late, closed, marked, job, faults, told, misses>>

\* The round it is in, the items of it that are left (None: not read yet), the one it is at, who is left to tell,
\* and what came of those told.
Passes == [at : DOMAIN Rounds, due : (SUBSET Items) \cup {None}, item : Items \cup {None}, left : Seq(People),
           sent : BOOLEAN, failed : BOOLEAN, paused : BOOLEAN]

\* What the constants have to be.  Nobody is in the list of a case twice.
Given ==
  /\ Rounds \in Seq([org : Range(OrgOf), kind : {"reminder", "tat_breach"}])
  /\ MaxFailures \in Nat \ {0} /\ MaxFaults \in Nat /\ IsFiniteSet(Copies)
  /\ Configs \subseteq {"fine", "skipped", "raises"}
  /\ OrgOf \in [Cases -> Range(OrgOf)] /\ DOMAIN PeopleOf = Cases
  /\ \A c \in Cases : PeopleOf[c] \in Seq(Range(PeopleOf[c])) /\ IsInjective(PeopleOf[c])
  /\ None \notin Cases \cup Copies /\ None \notin Items /\ None \notin Passes
  /\ \A due \in SUBSET Items : None # due

TypeOK ==
  /\ config \in [Range(OrgOf) -> Configs]
  /\ late \subseteq Items /\ closed \subseteq Cases /\ marked \subseteq Items
  /\ failures \in [Copies -> [Items -> 0..MaxFailures]]
  /\ jobLock \in Copies \cup {None}
  /\ pass \in [Copies -> Passes \cup {None}]
  /\ faults \in 0..MaxFaults
  /\ told \in [Items -> [People -> Nat]]
  /\ misses \in [Items -> Nat]

Init ==
  /\ config \in [Range(OrgOf) -> Configs]
  /\ late = {} /\ closed = {} /\ marked = {}
  /\ failures = [c \in Copies |-> [x \in Items |-> 0]]
  /\ jobLock = None
  /\ pass = [c \in Copies |-> None]
  /\ faults = 0
  /\ told = [x \in Items |-> [p \in People |-> 0]]
  /\ misses = [x \in Items |-> 0]

-----------------------------------------------------------------------------
(* Cases *)

TimePasses(x) ==
  /\ x \notin late
  /\ late' = late \cup {x}
  /\ UNCHANGED <<config, closed, marked, job, faults, told, misses>>

CloseCase(c) ==
  /\ c \notin closed
  /\ closed' = closed \cup {c}
  /\ UNCHANGED <<config, late, marked, job, faults, told, misses>>

-----------------------------------------------------------------------------
(* A run of the job *)

Waiting == {x \in late \ marked : x[1] \notin closed}
Of(r) == {x \in Items : OrgOf[x[1]] = r.org /\ x[2] = r.kind}
Due(r) == Waiting \cap Of(r)

\* Counts of failures that are forgotten: of cases that are closed or reminded by now.
Stale(r) == Of(r) \ Due(r)

Blank(i, due) == [at |-> i, due |-> due, item |-> None, left |-> <<>>, sent |-> FALSE, failed |-> FALSE, paused |-> FALSE]

\* The next round, or the end of the run.
After(i) == IF i < Len(Rounds) THEN Blank(i + 1, None) ELSE None

\* What copy c has in hand becomes p; the lock is given back at the end.
Becomes(c, p) ==
  /\ pass' = [pass EXCEPT ![c] = p]
  /\ jobLock' = IF p = None /\ jobLock = c THEN None ELSE jobLock

Runs(c) == pass[c] # None
Reading(c) == Runs(c) /\ (Runs(c) => pass[c].due = None)
Choosing(c) == Runs(c) /\ (Runs(c) => pass[c].due # None /\ pass[c].item = None)
Telling(c) == Runs(c) /\ (Runs(c) => pass[c].item # None)

StartRun(c) ==
  /\ pass[c] = None /\ jobLock = None /\ Waiting # {}
  /\ pass' = [pass EXCEPT ![c] = Blank(1, None)]
  /\ jobLock' = c
  /\ UNCHANGED <<config, late, closed, marked, failures, faults, told, misses>>

\* A setting that is missing or no identifier, or a query that fails, is caught by nobody: the run is over.
ReadDue(c) ==
  /\ Reading(c)
  /\ LET r == Rounds[pass[c].at]
     IN  CASE config[r.org] = "skipped" -> Becomes(c, After(pass[c].at)) /\ UNCHANGED failures
           [] config[r.org] = "raises"  -> Becomes(c, None) /\ UNCHANGED failures
           [] config[r.org] = "fine"    ->
                /\ Becomes(c, [pass[c] EXCEPT !.due = Due(r)])
                /\ failures' = [failures EXCEPT ![c] = [x \in Items |-> IF x \in Stale(r) THEN 0 ELSE @[x]]]
  /\ UNCHANGED <<config, late, closed, marked, faults, told, misses>>

\* The next case of the round, its people looked up, unless that fails.
TakeItem(c) ==
  /\ Choosing(c)
  /\ IF pass[c].due = {} THEN Becomes(c, After(pass[c].at))
     ELSE \E x \in pass[c].due, failed \in BOOLEAN :
            Becomes(c, [Blank(pass[c].at, pass[c].due \ {x}) EXCEPT
                          !.item = x, !.failed = failed, !.left = IF failed THEN <<>> ELSE PeopleOf[x[1]]])
  /\ UNCHANGED <<config, late, closed, marked, failures, faults, told, misses>>

Tell(c) ==
  /\ Telling(c) /\ (Telling(c) => pass[c].left # <<>> /\ ~pass[c].paused)
  /\ \/ /\ told' = [told EXCEPT ![pass[c].item][Head(pass[c].left)] = @ + 1]
        /\ Becomes(c, [pass[c] EXCEPT !.left = Tail(@), !.sent = TRUE])
        /\ UNCHANGED faults
     \/ Becomes(c, [pass[c] EXCEPT !.left = Tail(@), !.failed = TRUE]) /\ UNCHANGED <<told, faults>>
     \/ /\ faults < MaxFaults /\ faults' = faults + 1  \* the messenger asks the bot to wait
        /\ Becomes(c, [pass[c] EXCEPT !.paused = TRUE])
        /\ UNCHANGED told
  /\ UNCHANGED <<config, late, closed, marked, failures, misses>>

Told(c) == Telling(c) /\ (Telling(c) => pass[c].left = <<>> \/ pass[c].paused)

\* Nobody could be reached.
Unreached(p) == p.failed /\ ~p.sent /\ ~p.paused

\* Mutant: one try fewer than the organisation allows.
TriesLeftButOne(n) == n + 1 < MaxFailures

TriesLeft(n) == n < MaxFailures

Missed(x) == [misses EXCEPT ![x] = IF @ < MaxFailures THEN @ + 1 ELSE @]

\* Nobody was reached yet: the messenger's limit ends the round, and a failure is counted and tried again.
KeepItem(c) ==
  /\ Told(c)
  /\ LET p == pass[c]
         n == failures[c][p.item] + 1
     IN  \/ /\ p.paused /\ ~p.sent
            /\ Becomes(c, After(p.at))
            /\ UNCHANGED <<failures, misses>>
         \/ /\ Unreached(p) /\ TriesLeft(n)
            /\ Becomes(c, Blank(p.at, p.due))
            /\ failures' = [failures EXCEPT ![c][p.item] = n]
            /\ misses' = Missed(p.item)
  /\ UNCHANGED <<config, late, closed, marked, faults, told>>

\* Someone was told, nobody is to be told, or nobody was reached too often: the item is marked, if the database
\* lets it; a limit of the messenger then ends the round.
MarkItem(c) ==
  /\ Told(c)
  /\ LET p == pass[c]
     IN  /\ ~(p.paused /\ ~p.sent) /\ ~(Unreached(p) /\ TriesLeft(failures[c][p.item] + 1))
         /\ \/ marked' = marked \cup {p.item} /\ UNCHANGED faults
            \/ faults < MaxFaults /\ faults' = faults + 1 /\ UNCHANGED marked
         /\ Becomes(c, IF p.paused THEN After(p.at) ELSE Blank(p.at, p.due))
         /\ failures' = [failures EXCEPT ![c][p.item] = 0]
         /\ misses' = IF Unreached(p) THEN Missed(p.item) ELSE misses
  /\ UNCHANGED <<config, late, closed, told>>

\* Mutant: a run that is cancelled keeps the lock.
CutRunLocked(c) ==
  /\ Runs(c) /\ faults < MaxFaults
  /\ faults' = faults + 1
  /\ pass' = [pass EXCEPT ![c] = None]
  /\ UNCHANGED <<config, late, closed, marked, failures, jobLock, told, misses>>

\* The run is cancelled after 50 seconds, or the copy stops and forgets what failed.
CutRun(c) ==
  /\ Runs(c) /\ faults < MaxFaults
  /\ faults' = faults + 1
  /\ Becomes(c, None)
  /\ \/ UNCHANGED failures
     \/ failures' = [failures EXCEPT ![c] = [x \in Items |-> 0]]
  /\ UNCHANGED <<config, late, closed, marked, told, misses>>

\* The connection that holds the lock breaks; the run goes on.
LoseLock(c) ==
  /\ jobLock = c /\ faults < MaxFaults
  /\ faults' = faults + 1
  /\ jobLock' = None
  /\ UNCHANGED <<config, late, closed, marked, failures, pass, told, misses>>

-----------------------------------------------------------------------------
Working(c) == StartRun(c) \/ ReadDue(c) \/ TakeItem(c) \/ Tell(c) \/ KeepItem(c) \/ MarkItem(c)

Next ==
  \/ \E x \in Items : TimePasses(x)
  \/ \E c \in Cases : CloseCase(c)
  \/ \E c \in Copies : Working(c) \/ CutRun(c) \/ LoseLock(c)

Spec == Init /\ [][Next]_vars

\* The job is called every minute in every copy, and a message is sent or given up.
Fairness == \A c \in Copies : WF_vars(Working(c))
FairSpec == Spec /\ Fairness

-----------------------------------------------------------------------------
(* Properties *)

\* Nobody hears the same about a case twice, except for each mark that failed, run that was cut off and lock that was
\* lost: a person who could not be reached does not have the other one told again.
ToldOnce == \A x \in Items : \A p \in People : told[x][p] <= 1 + faults

\* An item is marked because someone was told, because there is nobody to tell, or because nobody could be reached
\* in as many runs as the organisation allows.  A limit of the messenger is no reason.
MarkedForAReason == \A x \in marked :
  \/ \E p \in People : told[x][p] > 0
  \/ PeopleOf[x[1]] = <<>>
  \/ misses[x] >= MaxFailures

\* A case that is late is marked or closed in the end, unless the settings of an organisation make the job fail.
DueIsMarked == (\A o \in Range(OrgOf) : config[o] = "fine") =>
  \A x \in Items : x \in Waiting ~> x \notin Waiting

\* "A missing/mismatched table now skips just this org's pass" (_run_case_notification_pass): settings that raise
\* still end the job for every organisation after this one.
DueIsMarkedWhateverOthers == \A x \in Items :
  config[OrgOf[x[1]]] = "fine" /\ x \in Waiting ~> x \notin Waiting
=============================================================================
