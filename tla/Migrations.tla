----------------------------- MODULE Migrations -----------------------------
(***************************************************************************)
(* tools/migrate.py: numbered SQL files are run over the control database  *)
(* and every client database, one database after another, and what was run *)
(* is kept in schema_migrations of that database.  Several people may run  *)
(* the tool at once, each from a checkout of their own moment; files are   *)
(* still being written and edited; a file may fail, a connection may be    *)
(* lost and a run may be stopped between any two steps.                    *)
(***************************************************************************)
EXTENDS Naturals, FiniteSets, Sequences, SequencesExt

CONSTANTS
  Runs,          \* the people (or pipelines) who run the tool
  Targets,       \* the databases in the order a run goes through them
  Control,       \* the first of them
  ControlFiles,  \* the files of the control database in the order of their numbers
  Core,          \* the files of every client database
  Features,      \* [tenants, files] of every feature, in the order of their names
  Statements,    \* the statements of each file
  Alone,         \* the files marked no-transaction
  None,
  MaxEdits,      \* bound: how often a file is written or edited once it is there
  MaxStarts,     \* bound: runs of the tool
  MaxFaults      \* bound: failing statements, lost connections and stopped runs

Databases == ToSet(Targets)
Files == ToSet(ControlFiles) \cup ToSet(Core) \cup UNION {ToSet(Features[i].files) : i \in DOMAIN Features}

Given ==
  /\ Targets[1] = Control
  /\ Alone \subseteq Files /\ Statements \in [Files -> Nat \ {0}]
  /\ None \notin Runs \cup Databases

VARIABLES
  text,      \* what each file says on disk, 0 while it is not written
  recorded,  \* schema_migrations of each database: the text of every version run there, or None
  effect,    \* the statements that took effect in each database, in order
  lock,      \* the advisory lock of each database
  run,       \* what each person's run is doing, or None
  edits, starts, faults

vars == <<text, recorded, effect, lock, run, edits, starts, faults>>

\* Catalog.for_control and for_tenant: the core files, then those of each feature the client has.
PlanOf(db) ==
  IF db = Control THEN ControlFiles
  ELSE Core \o FlattenSeq([i \in DOMAIN Features |->
                             IF db \in Features[i].tenants THEN Features[i].files ELSE <<>>])

\* The plan of a run: the files its checkout had when it started.
Plan(r, db) == SelectSeq(PlanOf(db), LAMBDA f : run[r].files[f] > 0)

Here(r) == Head(run[r].left)

Pending(r, db) == SelectSeq(Plan(r, db), LAMBDA f : recorded[db][f] = None)
Changed(r, db) == \E f \in ToSet(Plan(r, db)) : recorded[db][f] \notin {None, run[r].files[f]}

TypeOK ==
  /\ text \in [Files -> 0..MaxEdits + 1]
  /\ recorded \in [Databases -> [Files -> 1..MaxEdits + 1 \cup {None}]]
  /\ lock \in [Databases -> Runs \cup {None}]
  /\ \A r \in Runs : run[r] # None =>
       /\ run[r].at \in {"connect", "lock", "look", "work", "release", "again", "over"}
       /\ ToSet(run[r].left) \subseteq Databases /\ ToSet(run[r].todo) \subseteq Files
  /\ edits \in 0..MaxEdits /\ starts \in 0..MaxStarts /\ faults \in 0..MaxFaults

Init ==
  /\ text \in [Files -> {0, 1}]
  /\ recorded = [db \in Databases |-> [f \in Files |-> None]]
  /\ effect = [db \in Databases |-> <<>>]
  /\ lock = [db \in Databases |-> None]
  /\ run = [r \in Runs |-> None]
  /\ edits = 0 /\ starts = 0 /\ faults = 0

-----------------------------------------------------------------------------
\* Somebody writes a new file or edits one, also one that was run somewhere.
Write(f) ==
  /\ edits < MaxEdits
  /\ text' = [text EXCEPT ![f] = @ + 1]
  /\ edits' = edits + 1
  /\ UNCHANGED <<recorded, effect, lock, run, starts, faults>>

\* run: the whole catalogue is read before a database is touched; --tenant picks some of the targets, and
\* without --apply they are only looked at.
Start(r) ==
  /\ run[r] # None => run[r].at = "over"
  /\ starts < MaxStarts
  /\ \E picked \in SUBSET Databases \ {{}}, apply \in BOOLEAN :
       run' = [run EXCEPT ![r] =
         [at |-> "connect", apply |-> apply, files |-> text, picked |-> picked,
          left |-> SelectSeq(Targets, LAMBDA db : db \in picked),
          todo |-> <<>>, done |-> 0, failed |-> FALSE, changed |-> FALSE]]
  /\ starts' = starts + 1
  /\ UNCHANGED <<text, recorded, effect, lock, edits, faults>>

\* The next database, or the end: its exit code is 2 when a database failed or has a changed file.
Onward(r, me) ==
  run' = [run EXCEPT ![r] =
    [me EXCEPT !.left = Tail(@), !.todo = <<>>, !.done = 0,
               !.at = IF Len(me.left) = 1 THEN "over" ELSE "connect"]]

\* open_connection; without --apply inspect is all that is done.
Connect(r) ==
  /\ run[r] # None /\ run[r].at = "connect"
  /\ \/ run[r].apply /\ run' = [run EXCEPT ![r].at = "lock"] /\ UNCHANGED faults
     \/ ~run[r].apply /\ Onward(r, [run[r] EXCEPT !.changed = @ \/ Changed(r, Here(r))]) /\ UNCHANGED faults
     \/ faults < MaxFaults /\ faults' = faults + 1 /\ Onward(r, [run[r] EXCEPT !.failed = TRUE])
  /\ UNCHANGED <<text, recorded, effect, lock, edits, starts>>

\* Mutant: no lock.
LockNothing(r) ==
  /\ run[r] # None /\ run[r].at = "lock"
  /\ lock' = [lock EXCEPT ![Here(r)] = r]
  /\ run' = [run EXCEPT ![r].at = "look"]
  /\ UNCHANGED <<text, recorded, effect, edits, starts, faults>>

\* pg_try_advisory_lock: busy is a problem of this database, and nothing is changed in it.
Lock(r) ==
  /\ run[r] # None /\ run[r].at = "lock"
  /\ IF lock[Here(r)] = None
     THEN /\ lock' = [lock EXCEPT ![Here(r)] = r]
          /\ run' = [run EXCEPT ![r].at = "look"]
     ELSE Onward(r, [run[r] EXCEPT !.failed = TRUE]) /\ UNCHANGED lock
  /\ UNCHANGED <<text, recorded, effect, edits, starts, faults>>

\* Under the lock the table is read again, and an edited file stops the run here.
Look(r) ==
  /\ run[r] # None /\ run[r].at = "look"
  /\ run' = [run EXCEPT ![r] =
       IF Changed(r, Here(r)) THEN [@ EXCEPT !.failed = TRUE, !.changed = TRUE, !.at = "release"]
       ELSE [@ EXCEPT !.todo = Pending(r, Here(r)), !.at = IF Pending(r, Here(r)) = <<>> THEN "release" ELSE "work"]]
  /\ UNCHANGED <<text, recorded, effect, lock, edits, starts, faults>>

\* The files up to the next one that runs alone.
Batch(todo) ==
  LET alone == {i \in DOMAIN todo : todo[i] \in Alone}
      n == IF alone = {} THEN Len(todo) ELSE (CHOOSE i \in alone : \A j \in alone : i <= j) - 1
  IN SubSeq(todo, 1, n)

\* A file with all its statements, as this run's checkout has it.
Whole(r, f) == [s \in 1..Statements[f] |-> [file |-> f, text |-> run[r].files[f], statement |-> s]]

Take(r, batch) ==
  LET db == Here(r) IN
  /\ effect' = [effect EXCEPT ![db] = @ \o FlattenSeq([i \in DOMAIN batch |-> Whole(r, batch[i])])]
  /\ recorded' = [recorded EXCEPT ![db] = [f \in Files |-> IF f \in ToSet(batch) THEN run[r].files[f] ELSE @[f]]]

\* The rest of the files, or the end of this database.
Rest(r, todo) ==
  run' = [run EXCEPT ![r].todo = todo, ![r].done = 0, ![r].at = IF todo = <<>> THEN "release" ELSE "work"]

Failing(r) ==
  /\ faults < MaxFaults /\ faults' = faults + 1
  /\ run' = [run EXCEPT ![r].failed = TRUE, ![r].at = "release"]

\* The lock of a session goes with its connection.
MayLose(r) == lock' \in {lock, [lock EXCEPT ![Here(r)] = IF @ = r THEN None ELSE @]}

\* run_together: the files and their rows are one transaction.  A row that is there already undoes it; when the
\* connection is lost at the commit it may have been done all the same.
RunTogether(r) ==
  /\ run[r] # None /\ run[r].at = "work" /\ Head(run[r].todo) \notin Alone
  /\ LET batch == Batch(run[r].todo)
         there == \E f \in ToSet(batch) : recorded[Here(r)][f] # None
     IN \/ /\ ~there /\ Take(r, batch) /\ Rest(r, SubSeq(run[r].todo, Len(batch) + 1, Len(run[r].todo)))
           /\ UNCHANGED <<lock, faults>>
        \/ /\ there /\ run' = [run EXCEPT ![r].failed = TRUE, ![r].at = "release"]
           /\ UNCHANGED <<recorded, effect, lock, faults>>
        \/ Failing(r) /\ MayLose(r) /\ UNCHANGED <<recorded, effect>>
        \/ ~there /\ Take(r, batch) /\ Failing(r) /\ MayLose(r) /\ lock' # lock
  /\ UNCHANGED <<text, edits, starts>>

\* run_alone: statement by statement, each for good.
RunStatement(r) ==
  /\ run[r] # None /\ run[r].at = "work" /\ Head(run[r].todo) \in Alone
  /\ LET db == Here(r)
         f == Head(run[r].todo)
         step == [file |-> f, text |-> run[r].files[f], statement |-> run[r].done + 1]
         took == effect' = [effect EXCEPT ![db] = Append(@, step)]
     IN /\ run[r].done < Statements[f]
        /\ \/ took /\ run' = [run EXCEPT ![r].done = @ + 1] /\ UNCHANGED <<lock, faults>>
           \/ (took \/ UNCHANGED effect) /\ Failing(r) /\ MayLose(r)
  /\ UNCHANGED <<text, recorded, edits, starts>>

\* Mutant: a file recorded before its statements are through.
RecordEarly(r) ==
  /\ run[r] # None /\ run[r].at = "work" /\ Head(run[r].todo) \in Alone
  /\ LET db == Here(r)
         f == Head(run[r].todo)
     IN /\ run[r].done >= 1
        /\ recorded' = [recorded EXCEPT ![db][f] = run[r].files[f]]
        /\ Rest(r, Tail(run[r].todo))
  /\ UNCHANGED <<text, effect, lock, edits, starts, faults>>

\* The last statement is done; an invalid index left behind keeps the file from being recorded.
Record(r) ==
  /\ run[r] # None /\ run[r].at = "work" /\ Head(run[r].todo) \in Alone
  /\ LET db == Here(r)
         f == Head(run[r].todo)
         row == recorded' = [recorded EXCEPT ![db][f] = run[r].files[f]]
     IN /\ run[r].done = Statements[f]
        /\ \/ /\ recorded[db][f] = None /\ row /\ Rest(r, Tail(run[r].todo))
              /\ UNCHANGED <<lock, faults>>
           \/ /\ recorded[db][f] # None /\ run' = [run EXCEPT ![r].failed = TRUE, ![r].at = "release"]
              /\ UNCHANGED <<recorded, lock, faults>>
           \/ Failing(r) /\ MayLose(r) /\ UNCHANGED recorded
           \/ recorded[db][f] = None /\ row /\ Failing(r) /\ MayLose(r)
  /\ UNCHANGED <<text, effect, edits, starts>>

\* pg_advisory_unlock.
Release(r) ==
  /\ run[r] # None /\ run[r].at = "release"
  /\ lock' = [lock EXCEPT ![Here(r)] = IF @ = r THEN None ELSE @]
  /\ run' = [run EXCEPT ![r].at = "again"]
  /\ UNCHANGED <<text, recorded, effect, edits, starts, faults>>

\* The last look, for the report.
LookAgain(r) ==
  /\ run[r] # None /\ run[r].at = "again"
  /\ Onward(r, [run[r] EXCEPT !.changed = @ \/ Changed(r, Here(r))])
  /\ UNCHANGED <<text, recorded, effect, lock, edits, starts, faults>>

\* The run is stopped: its connection goes, and the lock and an open transaction with it.
Stop(r) ==
  /\ run[r] # None /\ run[r].at # "over" /\ faults < MaxFaults
  /\ lock' = [lock EXCEPT ![Here(r)] = IF @ = r THEN None ELSE @]
  /\ run' = [run EXCEPT ![r] = None]
  /\ faults' = faults + 1
  /\ UNCHANGED <<text, recorded, effect, edits, starts>>

Step(r) ==
  \/ Connect(r) \/ Lock(r) \/ Look(r) \/ RunTogether(r) \/ RunStatement(r) \/ Record(r)
  \/ Release(r) \/ LookAgain(r)

Next ==
  \/ \E f \in Files : Write(f)
  \/ \E r \in Runs : Start(r) \/ Step(r) \/ Stop(r)

Spec == Init /\ [][Next]_vars

-----------------------------------------------------------------------------
(* What must hold *)

Positions(db, f) == {i \in DOMAIN effect[db] : effect[db][i].file = f}

\* A file that runs in a transaction took effect, whole and once, in just the databases that record it,
\* also with two runs at once and runs cut off anywhere.
OnceWhereRecorded ==
  \A db \in Databases : \A f \in Files \ Alone :
    Cardinality(Positions(db, f)) = IF recorded[db][f] = None THEN 0 ELSE Statements[f]

\* A file that runs alone is recorded only when each of its statements, as recorded, took effect there.
RecordedIsThere ==
  \A db \in Databases : \A f \in Alone : recorded[db][f] # None =>
    \A s \in 1..Statements[f] :
      \E i \in Positions(db, f) : effect[db][i].text = recorded[db][f] /\ effect[db][i].statement = s

\* What is recorded stays, and no statement of its file is run in that database again.
RecordedIsDone ==
  [][\A db \in Databases, f \in Files : recorded[db][f] # None =>
       /\ recorded'[db][f] = recorded[db][f]
       /\ Positions(db, f)' = Positions(db, f)]_vars

\* A file takes effect only after every earlier file of the plan the run started with.
InOrder ==
  [][\A db \in Databases : effect'[db] # effect[db] =>
       \E r \in Runs : /\ run[r] # None /\ run[r].at = "work" /\ Here(r) = db
         /\ LET plan == Plan(r, db)
                last == effect'[db][Len(effect'[db])].file
            IN \A i, j \in DOMAIN plan : i < j /\ plan[j] = last => recorded'[db][plan[i]] # None]_vars

\* Exit code 0 of a run that applies: every database it was given has every file of its plan, as the run had it.
ZeroMeansAll ==
  \A r \in Runs : run[r] # None =>
    (run[r].at = "over" /\ run[r].apply /\ ~run[r].failed /\ ~run[r].changed =>
       \A db \in run[r].picked : \A f \in ToSet(Plan(r, db)) : recorded[db][f] = run[r].files[f])

\* schema_migrations says what was done to its database, and exit code 0 that all was.
Tracked == OnceWhereRecorded /\ RecordedIsThere /\ ZeroMeansAll

\* Files take effect in the order of their plan, and none again once it is recorded.
RunInOrder == InOrder /\ RecordedIsDone
=============================================================================
