--------------------------- MODULE Announcements ---------------------------
(***************************************************************************)
(* One announcement of the admin panel, from the moment it is planned      *)
(* until every person's row is settled: services/announcements.py with the *)
(* panel's send-now and cancel, the every-minute job, the part of          *)
(* services/reach.py that keeps a message for a person whose WhatsApp is   *)
(* closed, and the delivery reports Meta sends back.                       *)
(*                                                                         *)
(* A runner is one call of run_one: the job's (at most one at a time, the  *)
(* job lock sees to it) or one started by a "Send now".  A runner is a     *)
(* task that can be stopped anywhere: the process dies, or the job is      *)
(* cancelled when its time is up.                                          *)
(***************************************************************************)
EXTENDS Naturals, FiniteSets

CONSTANTS
  People,       \* the users the ticks may select
  NowRunners,   \* the runs a "Send now" may start
  Job,          \* the every-minute job's run
  Batch,        \* people claimed at a time (BATCH)
  MaxStops      \* bound: how many runs are stopped half-way

ASSUME JobIsApart == Job \notin NowRunners
ASSUME BatchIsPositive == Batch \in Nat \ {0}

Runners == NowRunners \cup {Job}

\* The states of a person's row.  "none": the announcement has no row for the person.
Settled == {"kept", "sent", "emailed", "delivered", "read", "got_it", "failed"}
RowStates == {"none", "waiting", "sending"} \cup Settled

\* What WhatsApp will say of a message that was handed to it.
Fates == {"arrives", "refused", "outside"}

\* Where one send_one is.  "queued": not begun; "telling": WhatsApp has the message, its id is not
\* noted yet; a settled state: what it is about to write on the row.
SendStages == {"idle", "queued", "telling", "kept", "sent", "emailed", "failed"}

VARIABLES
  ann,          \* the announcement's status
  due,          \* send_at <= now()
  row,          \* each person's status
  runner,       \* where each run is: "off", "start", "claim", "batch" or "finish"
  send,         \* send[r][p]: where run r's send_one of p is
  handed,       \* how often the message left for a person from a send_one
  aged,         \* the people whose row has been "sending" for STUCK_MINUTES
  tracked,      \* the fates of the person's messages whose id is noted (ann:{wamid})
  noted,        \* the people whose direct message reach remembers (sent:{wamid})
  held,         \* what reach keeps for a person: an item with "track", a "plain" one
  late,         \* the kept items deliver_waiting has taken and not yet accounted for
  stops         \* runs stopped so far

vars == <<ann, due, row, runner, send, handed, aged, tracked, noted, held, late, stops>>

sending == <<ann, due, row, runner, send, handed, aged, stops>>
reaching == <<tracked, noted, held, late>>

\* What deliver_waiting holds in its hands for a person, and whether it has left.
Taken == [items : SUBSET {"track", "plain"}, gone : BOOLEAN]
NoLate == [items |-> {}, gone |-> FALSE]

TypeOK ==
  /\ ann \in {"planned", "sending", "sent", "cancelled"}
  /\ due \in BOOLEAN
  /\ row \in [People -> RowStates]
  /\ runner \in [Runners -> {"off", "start", "claim", "batch", "finish"}]
  /\ send \in [Runners -> [People -> SendStages]]
  /\ handed \in [People -> Nat]
  /\ aged \subseteq People
  /\ tracked \in [People -> SUBSET Fates]
  /\ noted \subseteq People
  /\ held \in [People -> SUBSET {"track", "plain"}]
  /\ late \in [People -> Taken]
  /\ stops \in Nat

\* The panel saved it: planned, for now or for later, and nothing worked out yet.
Init ==
  /\ ann = "planned"
  /\ due \in BOOLEAN
  /\ row = [p \in People |-> "none"]
  /\ runner = [r \in Runners |-> "off"]
  /\ send = [r \in Runners |-> [p \in People |-> "idle"]]
  /\ handed = [p \in People |-> 0]
  /\ aged = {}
  /\ tracked = [p \in People |-> {}]
  /\ noted = {}
  /\ held = [p \in People |-> {}]
  /\ late = [p \in People |-> NoLate]
  /\ stops = 0

-----------------------------------------------------------------------------
(* The panel and the clock *)

TimeComes ==
  /\ ann = "planned" /\ ~due
  /\ due' = TRUE
  /\ UNCHANGED <<ann, row, runner, send, handed, aged, stops, reaching>>

\* POST send-now: only while planned; the time becomes now and a run starts beside the job.
SendNow(r) ==
  /\ ann = "planned"
  /\ runner[r] = "off"
  /\ due' = TRUE
  /\ runner' = [runner EXCEPT ![r] = "start"]
  /\ UNCHANGED <<ann, row, send, handed, aged, stops, reaching>>

\* POST cancel: the row is locked and must still be planned.
Cancel ==
  /\ ann = "planned"
  /\ ann' = "cancelled"
  /\ UNCHANGED <<due, row, runner, send, handed, aged, stops, reaching>>

-----------------------------------------------------------------------------
(* A run: run_due and run_one *)

InFlight(p) == \E r \in Runners : send[r][p] # "idle"

\* Rows left "sending" by a run that is gone.
Interrupted == {p \in People : row[p] = "sending" /\ ~InFlight(p)}

\* STUCK_MINUTES go by.  They outlast every send in flight (each call out has a timeout of a minute
\* at most), so only an interrupted row gets that old.
TenMinutesPass ==
  /\ ~(Interrupted \subseteq aged)
  /\ aged' = aged \cup Interrupted
  /\ UNCHANGED <<ann, due, row, runner, send, handed, stops, reaching>>

\* Mutant: interrupted rows are put back to wait instead of being failed.
RunDueAgain ==
  /\ runner[Job] = "off"
  /\ row' = [p \in People |-> IF p \in aged /\ row[p] = "sending" THEN "waiting" ELSE row[p]]
  /\ runner' = [runner EXCEPT ![Job] = IF ann = "sending" \/ (ann = "planned" /\ due) THEN "start" ELSE "off"]
  /\ UNCHANGED <<ann, due, send, handed, aged, stops, reaching>>

\* Mutant: only planned announcements are taken up, not the half sent ones.
RunDuePlanned ==
  /\ runner[Job] = "off"
  /\ row' = [p \in People |-> IF p \in aged /\ row[p] = "sending" THEN "failed" ELSE row[p]]
  /\ runner' = [runner EXCEPT ![Job] = IF ann = "planned" /\ due THEN "start" ELSE "off"]
  /\ UNCHANGED <<ann, due, send, handed, aged, stops, reaching>>

\* run_due: rows that have been "sending" too long are failed, then the announcement is taken up if
\* it is due or half sent.
RunDue ==
  LET stuck == {p \in aged : row[p] = "sending"}
      isDue == ann = "sending" \/ (ann = "planned" /\ due)
  IN
  /\ runner[Job] = "off"
  /\ row' = [p \in People |-> IF p \in stuck THEN "failed" ELSE row[p]]
  /\ runner' = [runner EXCEPT ![Job] = IF isDue THEN "start" ELSE "off"]
  /\ UNCHANGED <<ann, due, send, handed, aged, stops, reaching>>

\* Mutant: the status is not looked at again under the row's lock.
StartAnyway(r) ==
  /\ runner[r] = "start"
  /\ \E audience \in SUBSET People :
       row' = [p \in People |-> IF p \in audience /\ row[p] = "none" THEN "waiting" ELSE row[p]]
  /\ ann' = IF ann = "cancelled" THEN ann ELSE "sending"
  /\ runner' = [runner EXCEPT ![r] = "claim"]
  /\ UNCHANGED <<due, send, handed, aged, stops, reaching>>

\* _start and the read after it: the planned announcement gets a row for everybody the ticks select
\* now, in one transaction; a run goes on only with an announcement that is being sent.
Start(r) ==
  /\ runner[r] = "start"
  /\ \E audience \in SUBSET People :
       IF ann = "planned" /\ due
       THEN /\ row' = [p \in People |-> IF p \in audience /\ row[p] = "none" THEN "waiting" ELSE row[p]]
            /\ ann' = "sending"
       ELSE audience = {} /\ UNCHANGED <<row, ann>>
  /\ runner' = [runner EXCEPT ![r] = IF ann' = "sending" THEN "claim" ELSE "off"]
  /\ UNCHANGED <<due, send, handed, aged, stops, reaching>>

\* Mutant: rows another run is sending are taken too.
WaitingOrSending == {p \in People : row[p] \in {"waiting", "sending"}}

Waiting == {p \in People : row[p] = "waiting"}

\* Mutant: the rows are read but not marked.
ClaimUnmarked(r) ==
  /\ runner[r] = "claim"
  /\ send' = [send EXCEPT ![r] = [p \in People |-> IF p \in Waiting THEN "queued" ELSE send[r][p]]]
  /\ runner' = [runner EXCEPT ![r] = IF Waiting = {} THEN "finish" ELSE "batch"]
  /\ UNCHANGED <<ann, due, row, handed, aged, stops, reaching>>

\* _claim: up to Batch waiting rows, skipping those another run has locked, become "sending".
Claim(r) ==
  /\ runner[r] = "claim"
  /\ \E batch \in SUBSET Waiting :
       /\ Cardinality(batch) <= Batch
       /\ batch = {} => Waiting = {}
       /\ row' = [p \in People |-> IF p \in batch THEN "sending" ELSE row[p]]
       /\ send' = [send EXCEPT ![r] = [p \in People |-> IF p \in batch THEN "queued" ELSE send[r][p]]]
       /\ runner' = [runner EXCEPT ![r] = IF batch = {} THEN "finish" ELSE "batch"]
  /\ UNCHANGED <<ann, due, handed, aged, stops, reaching>>

\* gather is over: another batch if there is time, or the end of the run.
BatchOver(r) ==
  /\ runner[r] = "batch"
  /\ \A p \in People : send[r][p] = "idle"
  /\ \E next \in {"claim", "finish"} : runner' = [runner EXCEPT ![r] = next]
  /\ UNCHANGED <<ann, due, row, send, handed, aged, stops, reaching>>

\* Mutant: the end of the run looks for waiting rows only.
FinishEarly(r) ==
  /\ runner[r] = "finish"
  /\ ann' = IF ann = "sending" /\ Waiting = {} THEN "sent" ELSE ann
  /\ runner' = [runner EXCEPT ![r] = "off"]
  /\ UNCHANGED <<due, row, send, handed, aged, stops, reaching>>

\* The end of run_one: sent when no row is waiting or sending.
Finish(r) ==
  /\ runner[r] = "finish"
  /\ ann' = IF ann = "sending" /\ \A p \in People : row[p] \notin {"waiting", "sending"}
            THEN "sent" ELSE ann
  /\ runner' = [runner EXCEPT ![r] = "off"]
  /\ UNCHANGED <<due, row, send, handed, aged, stops, reaching>>

\* The process dies, or the job's time is up and it is cancelled: its sends in flight die with it.
Stop(r) ==
  /\ stops < MaxStops
  /\ runner[r] # "off"
  /\ runner' = [runner EXCEPT ![r] = "off"]
  /\ send' = [send EXCEPT ![r] = [p \in People |-> "idle"]]
  /\ stops' = stops + 1
  /\ UNCHANGED <<ann, due, row, handed, aged, reaching>>

-----------------------------------------------------------------------------
(* One send_one *)

\* Mutant: an error before anything left is taken for a success.
NotHandedButSent(r, p) ==
  /\ send[r][p] = "queued"
  /\ send' = [send EXCEPT ![r][p] = "sent"]
  /\ UNCHANGED <<ann, due, row, runner, handed, aged, stops, reaching>>

\* Nothing leaves: off the list, no channel, or an error before anything was handed over.
NotHanded(r, p) ==
  /\ send[r][p] = "queued"
  /\ send' = [send EXCEPT ![r][p] = "failed"]
  /\ UNCHANGED <<ann, due, row, runner, handed, aged, stops, reaching>>

\* By email, or to Telegram.  An error after the text left (the file) ends as "failed".
HandElsewhere(r, p) ==
  /\ send[r][p] = "queued"
  /\ handed' = [handed EXCEPT ![p] = @ + 1]
  /\ \E result \in {"emailed", "sent", "failed"} : send' = [send EXCEPT ![r][p] = result]
  /\ UNCHANGED <<ann, due, row, runner, aged, stops, reaching>>

\* WhatsApp, the door open: reach.deliver_text sends it and remembers what it sent.
HandToWhatsApp(r, p) ==
  /\ send[r][p] = "queued"
  /\ handed' = [handed EXCEPT ![p] = @ + 1]
  /\ noted' = noted \cup {p}
  /\ send' = [send EXCEPT ![r][p] = "telling"]
  /\ UNCHANGED <<ann, due, row, runner, aged, stops, tracked, held, late>>

\* _remember: from here on the reports about the message find the person's row.  The file follows,
\* and an error there ends as "failed".
Remember(r, p) ==
  /\ send[r][p] = "telling"
  /\ \E fate \in Fates : tracked' = [tracked EXCEPT ![p] = @ \cup {fate}]
  /\ \E result \in {"sent", "failed"} : send' = [send EXCEPT ![r][p] = result]
  /\ UNCHANGED <<ann, due, row, runner, handed, aged, stops, noted, held, late>>

\* WhatsApp, the door closed: reach.hold keeps the message with the person's row as its track.
Hold(r, p) ==
  /\ send[r][p] = "queued"
  /\ handed' = [handed EXCEPT ![p] = @ + 1]
  /\ held' = [held EXCEPT ![p] = @ \cup {"track"}]
  /\ send' = [send EXCEPT ![r][p] = "kept"]
  /\ UNCHANGED <<ann, due, row, runner, aged, stops, tracked, noted, late>>

\* Mutant: the row is written before the send has a result.
WriteTooSoon(r, p) ==
  /\ send[r][p] # "idle"
  /\ row' = [row EXCEPT ![p] = send[r][p]]
  /\ send' = [send EXCEPT ![r][p] = "idle"]
  /\ UNCHANGED <<ann, due, runner, handed, aged, stops, reaching>>

\* _set: the row gets the result, whatever it says by now.
Write(r, p) ==
  /\ send[r][p] \in Settled
  /\ row' = [row EXCEPT ![p] = send[r][p]]
  /\ send' = [send EXCEPT ![r][p] = "idle"]
  /\ UNCHANGED <<ann, due, runner, handed, aged, stops, reaching>>

\* The database refuses the _set: "failed" is tried instead, and if that fails too the row stays.
WriteFails(r, p) ==
  /\ send[r][p] \in Settled
  /\ send' = [send EXCEPT ![r][p] = IF @ = "failed" THEN "idle" ELSE "failed"]
  /\ UNCHANGED <<ann, due, row, runner, handed, aged, stops, reaching>>

SendOne(r, p) ==
  \/ NotHanded(r, p) \/ HandElsewhere(r, p) \/ HandToWhatsApp(r, p) \/ Remember(r, p)
  \/ Hold(r, p) \/ Write(r, p) \/ WriteFails(r, p)

-----------------------------------------------------------------------------
(* The person writes: reach.deliver_waiting *)

TakeKept(p) ==
  /\ held[p] # {}
  /\ late[p] = NoLate
  /\ late' = [late EXCEPT ![p] = [items |-> held[p], gone |-> FALSE]]
  /\ held' = [held EXCEPT ![p] = {}]
  /\ UNCHANGED <<sending, tracked, noted>>

\* The kept items leave as one message, or the send fails and they are kept again.
SendKept(p) ==
  /\ late[p].items # {} /\ ~late[p].gone
  /\ \/ /\ late' = [late EXCEPT ![p].gone = TRUE]
        /\ UNCHANGED held
     \/ /\ late' = [late EXCEPT ![p] = NoLate]
        /\ held' = [held EXCEPT ![p] = @ \cup late[p].items]
  /\ UNCHANGED <<sending, tracked, noted>>

\* delivered_later for an item that carries a track: the id is noted, a row still "kept" becomes "sent".
DeliveredLater(p) ==
  /\ late[p].gone
  /\ late' = [late EXCEPT ![p] = NoLate]
  /\ IF "track" \in late[p].items
     THEN /\ \E fate \in {"arrives", "refused"} : tracked' = [tracked EXCEPT ![p] = @ \cup {fate}]
          /\ row' = [row EXCEPT ![p] = IF @ = "kept" THEN "sent" ELSE @]
     ELSE UNCHANGED <<tracked, row>>
  /\ UNCHANGED <<ann, due, runner, send, handed, aged, stops, noted, held>>

\* The process dies with kept items taken: they are nowhere else.
LoseTaken(p) ==
  /\ stops < MaxStops
  /\ late[p] # NoLate
  /\ late' = [late EXCEPT ![p] = NoLate]
  /\ stops' = stops + 1
  /\ UNCHANGED <<ann, due, row, runner, send, handed, aged, tracked, noted, held>>

-----------------------------------------------------------------------------
(* What WhatsApp tells us afterwards: late, repeated, in any order *)

Order == <<"waiting", "sending", "kept", "sent", "emailed", "delivered", "read", "got_it">>

\* _move: only forward along Order; a row that is not in it ("failed") moves too.
From(status) == {Order[i] : i \in {j \in 1..8 : \E k \in 1..j : Order[k] = status}}

Move(p, status) ==
  /\ row' = [row EXCEPT ![p] = IF @ \in From(status) THEN @ ELSE status]
  /\ UNCHANGED <<ann, due, runner, send, handed, aged, stops, reaching>>

Report(p, status) == "arrives" \in tracked[p] /\ Move(p, status)

\* Refused for another reason than the window: failed, whatever the row says.
ReportRefused(p) ==
  /\ "refused" \in tracked[p]
  /\ row' = [row EXCEPT ![p] = "failed"]
  /\ UNCHANGED <<ann, due, runner, send, handed, aged, stops, reaching>>

\* Error 131047, the door was closed after all: reach keeps the text again, without a track, the
\* first time it hears of it; the row goes back to "kept" from "sent" or "delivered".
ReportOutside(p) ==
  /\ "outside" \in tracked[p]
  /\ row' = [row EXCEPT ![p] = IF @ \in {"sent", "delivered"} THEN "kept" ELSE @]
  /\ held' = [held EXCEPT ![p] = IF p \in noted THEN @ \cup {"plain"} ELSE @]
  /\ noted' = noted \ {p}
  /\ UNCHANGED <<ann, due, runner, send, handed, aged, stops, tracked, late>>

Reports(p) ==
  \/ \E status \in {"delivered", "read", "got_it"} : Report(p, status)
  \/ ReportRefused(p)
  \/ ReportOutside(p)

-----------------------------------------------------------------------------
Run(r) == Start(r) \/ Claim(r) \/ BatchOver(r) \/ Finish(r)

Next ==
  \/ TimeComes \/ Cancel \/ TenMinutesPass \/ RunDue
  \/ \E r \in NowRunners : SendNow(r)
  \/ \E r \in Runners : Run(r) \/ Stop(r)
  \/ \E r \in Runners, p \in People : SendOne(r, p)
  \/ \E p \in People : TakeKept(p) \/ SendKept(p) \/ DeliveredLater(p) \/ LoseTaken(p)
  \/ \E p \in People : Reports(p)

Spec == Init /\ [][Next]_vars

\* The job comes back every minute, a run and a send in it make progress (every call out has a
\* timeout) and time passes.  Nothing is assumed of the panel, the person or WhatsApp's reports.
Fairness ==
  /\ WF_vars(TimeComes) /\ WF_vars(TenMinutesPass) /\ WF_vars(RunDue)
  /\ \A r \in Runners : WF_vars(Run(r))
  /\ \A r \in Runners, p \in People : WF_vars(SendOne(r, p))

FairSpec == Spec /\ Fairness

-----------------------------------------------------------------------------
(* What must hold *)

\* Two runs, a restart in the middle or a stuck row taken for a new one never send the announcement to
\* the same person twice (the promise at the head of services/announcements.py).
AtMostOnce == \A p \in People : handed[p] <= 1

\* Why: _claim is the only way to a send_one, and a row leaves "waiting" for good.  Nothing is on its way
\* to a person whose row is not claimed, at most one run is on its way to a claimed one, and what is
\* still to be handed over was not handed over before.
OneSender ==
  /\ \A p \in People : row[p] \in {"none", "waiting"} => handed[p] = 0 /\ ~InFlight(p)
  /\ \A r, s \in Runners, p \in People : send[r][p] # "idle" /\ send[s][p] # "idle" => r = s
  /\ \A r \in Runners, p \in People : send[r][p] = "queued" => handed[p] = 0
  /\ AtMostOnce

\* The promise as the shared abstract specification: claiming a row takes the person, handing the
\* message over does the work.
Claims == INSTANCE ClaimOnce WITH
            Work <- People,
            taken <- {p \in People : row[p] \notin {"none", "waiting"}},
            done <- handed
ImplementsClaimOnce == Claims!Spec

\* A cancelled announcement has no rows and no run that will send it: cancel and _start both decide
\* under the lock of the announcement's row.
CancelledIsNeverSent ==
  ann = "cancelled" => \A p \in People : row[p] = "none" /\ handed[p] = 0

\* An announcement is shown as sent only when every person's row is settled, and a row never goes back
\* to waiting or sending after that.
SentIsSettled ==
  ann = "sent" => \A p \in People : row[p] \notin {"waiting", "sending"}

\* What the panel shows of a person is not invented: nobody it says was reached was left out.
ReachedIsTrue ==
  \A p \in People : row[p] \in Settled \ {"failed"} => handed[p] = 1

\* _move's docstring (a late "delivered" never undoes a "read"), of every step of the program.
NeverUndone ==
  [][\A p \in People : row[p] \in {"delivered", "read", "got_it"} => row'[p] # "sent"]_vars

\* An announcement that began is finished, whatever was interrupted on the way.
BegunIsFinished == (ann = "sending") ~> (ann = "sent")
=============================================================================
