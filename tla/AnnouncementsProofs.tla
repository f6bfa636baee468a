------------------------ MODULE AnnouncementsProofs ------------------------
(* What holds of every announcement, whatever the people, the runs and the batch size. *)
EXTENDS Announcements, TLAPS

IInv == TypeOK /\ OneSender

LEMMA NoLate_Type == NoLate \in Taken
BY DEF NoLate, Taken

\* Sending what was taken leaves it a record of what was taken.
LEMMA SendKept_Type ==
  ASSUME NEW p \in People, late \in [People -> Taken], SendKept(p)
  PROVE  late' \in [People -> Taken]
<1>1. CASE late' = [late EXCEPT ![p].gone = TRUE]
  <2>1. [late[p] EXCEPT !.gone = TRUE] \in Taken BY DEF Taken
  <2>2. late' = [late EXCEPT ![p] = [late[p] EXCEPT !.gone = TRUE]] BY <1>1
  <2>3. QED BY <2>1, <2>2
<1>2. CASE late' = [late EXCEPT ![p] = NoLate] BY <1>2, NoLate_Type
<1>3. QED BY <1>1, <1>2 DEF SendKept

LEMMA Init_IInv == Init => IInv
BY DEF Init, IInv, TypeOK, OneSender, AtMostOnce, InFlight, RowStates, SendStages, NoLate, Taken

\* The panel, the clock, and a run's steps between two batches: no row is claimed, none is freed.
LEMMA Quiet_IInv ==
  ASSUME IInv, NEW r \in Runners,
         \/ TimeComes \/ Cancel \/ TenMinutesPass \/ RunDue
         \/ SendNow(r) \/ Start(r) \/ BatchOver(r) \/ Finish(r)
  PROVE  IInv'
<1> USE DEF IInv, TypeOK, OneSender, AtMostOnce, InFlight, RowStates, Settled, reaching
<1>1. CASE TimeComes BY <1>1 DEF TimeComes
<1>2. CASE Cancel BY <1>2 DEF Cancel
<1>3. CASE TenMinutesPass BY <1>3 DEF TenMinutesPass, Interrupted
<1>4. CASE RunDue BY <1>4 DEF RunDue, Runners
<1>5. CASE SendNow(r) BY <1>5 DEF SendNow
<1>6. CASE Start(r) BY <1>6 DEF Start
<1>7. CASE BatchOver(r) BY <1>7 DEF BatchOver
<1>8. CASE Finish(r) BY <1>8 DEF Finish
<1>9. QED BY <1>1, <1>2, <1>3, <1>4, <1>5, <1>6, <1>7, <1>8

\* A claimed row was waiting, so nobody was on the way to the person.
LEMMA Claim_IInv ==
  ASSUME IInv, NEW r \in Runners, Claim(r)
  PROVE  IInv'
BY DEF Claim, Waiting, IInv, TypeOK, OneSender, AtMostOnce, InFlight, RowStates, SendStages, reaching

\* A stopped run frees no row.
LEMMA Stop_IInv ==
  ASSUME IInv, NEW r \in Runners, Stop(r)
  PROVE  IInv'
BY DEF Stop, IInv, TypeOK, OneSender, AtMostOnce, InFlight, SendStages, reaching

\* One send_one: only the run that claimed the row hands the message over, and it does so once.
LEMMA SendOne_IInv ==
  ASSUME IInv, NEW r \in Runners, NEW p \in People, SendOne(r, p)
  PROVE  IInv'
<1> USE DEF IInv, TypeOK, OneSender, AtMostOnce, InFlight, RowStates, Settled, SendStages, Fates, reaching
<1>1. CASE NotHanded(r, p) BY <1>1 DEF NotHanded
<1>2. CASE HandElsewhere(r, p) BY <1>2 DEF HandElsewhere
<1>3. CASE HandToWhatsApp(r, p) BY <1>3 DEF HandToWhatsApp
<1>4. CASE Remember(r, p) BY <1>4 DEF Remember
<1>5. CASE Hold(r, p) BY <1>5 DEF Hold
<1>6. CASE Write(r, p) BY <1>6 DEF Write
<1>7. CASE WriteFails(r, p) BY <1>7 DEF WriteFails
<1>8. QED BY <1>1, <1>2, <1>3, <1>4, <1>5, <1>6, <1>7 DEF SendOne

\* The kept messages and the reports move rows, never back to waiting.
LEMMA After_IInv ==
  ASSUME IInv, NEW p \in People,
         TakeKept(p) \/ SendKept(p) \/ DeliveredLater(p) \/ LoseTaken(p) \/ Reports(p)
  PROVE  IInv'
<1> USE DEF IInv, TypeOK, OneSender, AtMostOnce, InFlight, RowStates, Settled, Fates, sending, reaching
<1>1. CASE TakeKept(p)
  <2>1. [items |-> held[p], gone |-> FALSE] \in Taken BY DEF Taken
  <2>2. QED BY <1>1, <2>1 DEF TakeKept
<1>2. CASE SendKept(p)
  <2>1. late' \in [People -> Taken] BY <1>2, SendKept_Type
  <2>2. held' \in [People -> SUBSET {"track", "plain"}]
    <3>1. late[p].items \in SUBSET {"track", "plain"} BY DEF Taken
    <3>2. QED BY <1>2, <3>1, SMTT(30) DEF SendKept
  <2>3. QED BY <1>2, <2>1, <2>2 DEF SendKept
<1>3. CASE DeliveredLater(p)
  <2>1. late' \in [People -> Taken]
    BY <1>3, NoLate_Type DEF DeliveredLater
  <2>2. tracked' \in [People -> SUBSET Fates]
    BY <1>3, SMTT(30) DEF DeliveredLater
  <2>3. row' = row \/ row' = [row EXCEPT ![p] = IF @ = "kept" THEN "sent" ELSE @]
    BY <1>3 DEF DeliveredLater
  <2>4. UNCHANGED <<ann, due, runner, send, handed, aged, stops, noted, held>>
    BY <1>3 DEF DeliveredLater
  <2>5. QED BY <2>1, <2>2, <2>3, <2>4
<1>4. CASE LoseTaken(p) BY <1>4, NoLate_Type DEF LoseTaken
<1>5. ASSUME NEW status \in {"delivered", "read", "got_it"}, Report(p, status)
      PROVE  IInv'
  BY <1>5 DEF Report, Move
<1>6. CASE ReportRefused(p) BY <1>6 DEF ReportRefused
<1>7. CASE ReportOutside(p) BY <1>7 DEF ReportOutside
<1>8. QED BY <1>1, <1>2, <1>3, <1>4, <1>5, <1>6, <1>7 DEF Reports

LEMMA Next_IInv == IInv /\ [Next]_vars => IInv'
<1> SUFFICES ASSUME IInv, [Next]_vars PROVE IInv'
  OBVIOUS
<1>1. CASE UNCHANGED vars
  BY <1>1 DEF vars, IInv, TypeOK, OneSender, AtMostOnce, InFlight
<1>2. CASE TimeComes \/ Cancel \/ TenMinutesPass \/ RunDue
  BY <1>2, Quiet_IInv DEF Runners
<1>3. ASSUME NEW r \in NowRunners, SendNow(r) PROVE IInv'
  BY <1>3, Quiet_IInv DEF Runners
<1>4. ASSUME NEW r \in Runners, Run(r) \/ Stop(r) PROVE IInv'
  BY <1>4, Quiet_IInv, Claim_IInv, Stop_IInv DEF Run
<1>5. ASSUME NEW r \in Runners, NEW p \in People, SendOne(r, p) PROVE IInv'
  BY <1>5, SendOne_IInv
<1>6. ASSUME NEW p \in People,
             TakeKept(p) \/ SendKept(p) \/ DeliveredLater(p) \/ LoseTaken(p) \/ Reports(p)
      PROVE  IInv'
  BY <1>6, After_IInv
<1>7. QED BY <1>1, <1>2, <1>3, <1>4, <1>5, <1>6 DEF Next

\* The rows, the runs and what is kept are always of their types.
THEOREM TypeCorrect == Spec => []TypeOK
<1>1. IInv => TypeOK BY DEF IInv
<1>2. QED BY Init_IInv, Next_IInv, <1>1, PTL DEF Spec

\* At most one run is ever on its way to a person, and only to a person whose row it claimed.
THEOREM OneSenderHolds == Spec => []OneSender
<1>1. IInv => OneSender BY DEF IInv
<1>2. QED BY Init_IInv, Next_IInv, <1>1, PTL DEF Spec

\* No announcement is handed over to the same person twice: two runs, a restart, a repeated "Send now".
THEOREM AtMostOnceHolds == Spec => []AtMostOnce
<1>1. OneSender => AtMostOnce BY DEF OneSender
<1>2. QED BY OneSenderHolds, <1>1, PTL

-----------------------------------------------------------------------------
(* What the rows say *)

\* Before it begins an announcement has no rows.
UnbegunHasNoRows == ann \in {"planned", "cancelled"} => \A p \in People : row[p] = "none"

\* What is kept, noted or about to be written for a person is of a message that left.
Traces ==
  /\ \A p \in People : handed[p] = 0 => tracked[p] = {} /\ held[p] = {} /\ late[p].items = {}
  /\ \A r \in Runners, p \in People : send[r][p] \in {"telling", "kept", "sent", "emailed"} => handed[p] = 1

JInv == UnbegunHasNoRows /\ SentIsSettled /\ Traces /\ ReachedIsTrue

LEMMA Init_JInv == Init => JInv
BY DEF Init, JInv, UnbegunHasNoRows, SentIsSettled, Traces, ReachedIsTrue, Settled, NoLate

\* Only _start makes rows, for the planned announcement, and it begins it in the same transaction.
LEMMA Quiet_JInv ==
  ASSUME IInv, JInv, NEW r \in Runners,
         \/ TimeComes \/ Cancel \/ TenMinutesPass \/ RunDue
         \/ SendNow(r) \/ Start(r) \/ BatchOver(r) \/ Finish(r) \/ Stop(r)
  PROVE  JInv'
<1> USE DEF IInv, TypeOK, JInv, UnbegunHasNoRows, SentIsSettled, Traces, ReachedIsTrue, Settled, RowStates, reaching
<1>1. CASE TimeComes BY <1>1 DEF TimeComes
<1>2. CASE Cancel BY <1>2 DEF Cancel
<1>3. CASE TenMinutesPass BY <1>3 DEF TenMinutesPass
<1>4. CASE RunDue BY <1>4 DEF RunDue
<1>5. CASE SendNow(r) BY <1>5 DEF SendNow
<1>6. CASE Start(r) BY <1>6 DEF Start
<1>7. CASE BatchOver(r) BY <1>7 DEF BatchOver
<1>8. CASE Finish(r) BY <1>8 DEF Finish
<1>9. CASE Stop(r) BY <1>9 DEF Stop, SendStages
<1>10. QED BY <1>1, <1>2, <1>3, <1>4, <1>5, <1>6, <1>7, <1>8, <1>9

\* Who is claimed was waiting: in an announcement that is being sent, with nothing to show for it.
LEMMA Claim_JInv ==
  ASSUME IInv, JInv, NEW r \in Runners, Claim(r)
  PROVE  JInv'
BY DEF Claim, Waiting, IInv, TypeOK, OneSender, AtMostOnce, JInv, UnbegunHasNoRows, SentIsSettled, Traces,
       ReachedIsTrue, Settled, RowStates, SendStages, reaching

\* A send_one is only on its way to somebody who was claimed.
LEMMA SendOne_JInv ==
  ASSUME IInv, JInv, NEW r \in Runners, NEW p \in People, SendOne(r, p)
  PROVE  JInv'
<1> USE DEF IInv, TypeOK, OneSender, AtMostOnce, InFlight, JInv, UnbegunHasNoRows, SentIsSettled, Traces,
            ReachedIsTrue, Settled, RowStates, SendStages, Fates, reaching
<1>1. CASE NotHanded(r, p) BY <1>1 DEF NotHanded
<1>2. CASE HandElsewhere(r, p) BY <1>2 DEF HandElsewhere
<1>3. CASE HandToWhatsApp(r, p) BY <1>3 DEF HandToWhatsApp
<1>4. CASE Remember(r, p) BY <1>4 DEF Remember
<1>5. CASE Hold(r, p) BY <1>5 DEF Hold
<1>6. CASE Write(r, p) BY <1>6 DEF Write
<1>7. CASE WriteFails(r, p) BY <1>7 DEF WriteFails
<1>8. QED BY <1>1, <1>2, <1>3, <1>4, <1>5, <1>6, <1>7 DEF SendOne

\* A report is of a message that left, so its row is not one that waits.
LEMMA Report_JInv ==
  ASSUME IInv, JInv, NEW p \in People, NEW status \in {"delivered", "read", "got_it"}, Report(p, status)
  PROVE  JInv'
<1>1. handed[p] \in Nat /\ handed[p] <= 1 /\ tracked[p] # {}
  BY DEF IInv, TypeOK, OneSender, AtMostOnce, Report
<1>2. handed[p] = 1 /\ row[p] \notin {"none", "waiting"}
  BY <1>1 DEF IInv, OneSender, JInv, Traces
<1>3. row' = row \/ row' = [row EXCEPT ![p] = status]
  <2>1. row' = [row EXCEPT ![p] = IF row[p] \in From(status) THEN row[p] ELSE status]
    BY DEF Report, Move
  <2>2. row \in [People -> RowStates] BY DEF IInv, TypeOK
  <2>3. QED BY <2>1, <2>2
<1>4. UNCHANGED <<ann, send, handed, tracked, held, late>> BY DEF Report, Move, reaching
<1>5. row \in [People -> RowStates] BY DEF IInv, TypeOK
<1>6. QED
  BY <1>2, <1>3, <1>4, <1>5 DEF JInv, UnbegunHasNoRows, SentIsSettled, Traces, ReachedIsTrue, Settled

\* What is kept for one person changes nothing but the traces of that person.
LEMMA Kept_JInv ==
  ASSUME IInv, JInv, NEW p \in People, UNCHANGED <<ann, row, send, handed, tracked>>,
         \A q \in People \ {p} : held'[q] = held[q] /\ late'[q].items = late[q].items,
         handed[p] = 0 => held'[p] = {} /\ late'[p].items = {}
  PROVE  JInv'
<1>1. Traces' BY DEF JInv, Traces
<1>2. UnbegunHasNoRows' /\ SentIsSettled' /\ ReachedIsTrue'
  BY DEF JInv, UnbegunHasNoRows, SentIsSettled, ReachedIsTrue
<1>3. QED BY <1>1, <1>2 DEF JInv

\* Kept messages and reports only speak of people to whom something left.
LEMMA After_JInv ==
  ASSUME IInv, JInv, NEW p \in People,
         TakeKept(p) \/ SendKept(p) \/ DeliveredLater(p) \/ LoseTaken(p) \/ Reports(p)
  PROVE  JInv'
<1>1. /\ held \in [People -> SUBSET {"track", "plain"}] /\ late \in [People -> Taken]
      /\ handed[p] = 0 => held[p] = {} /\ late[p].items = {} /\ tracked[p] = {}
  BY DEF IInv, TypeOK, JInv, Traces
<1>2. CASE TakeKept(p)
  <2>1. late' = [late EXCEPT ![p] = [items |-> held[p], gone |-> FALSE]] /\ held' = [held EXCEPT ![p] = {}]
    BY <1>2 DEF TakeKept
  <2>2. UNCHANGED <<ann, row, send, handed, tracked>>
    BY <1>2 DEF TakeKept, sending
  <2>3. \A q \in People \ {p} : held'[q] = held[q] /\ late'[q].items = late[q].items
    BY <1>1, <2>1
  <2>4. handed[p] = 0 => held'[p] = {} /\ late'[p].items = {}
    BY <1>1, <2>1
  <2> QED BY <2>2, <2>3, <2>4, Kept_JInv
<1>3. CASE SendKept(p)
  <2>1. handed[p] # 0
    BY <1>1, <1>3 DEF SendKept
  <2>2. UNCHANGED <<ann, row, send, handed, tracked>>
    BY <1>3 DEF SendKept, sending
  <2>3. \A q \in People \ {p} : held'[q] = held[q] /\ late'[q].items = late[q].items
    BY <1>1, <1>3 DEF SendKept
  <2> QED BY <2>1, <2>2, <2>3, Kept_JInv
<1> USE DEF IInv, TypeOK, OneSender, AtMostOnce, JInv, UnbegunHasNoRows, SentIsSettled, Traces,
            ReachedIsTrue, Settled, RowStates, Fates, Taken, NoLate, sending, reaching
<1>4. CASE DeliveredLater(p) BY <1>4, SMTT(30) DEF DeliveredLater
<1>5. CASE LoseTaken(p) BY <1>5 DEF LoseTaken
<1>6. ASSUME NEW status \in {"delivered", "read", "got_it"}, Report(p, status)
      PROVE  JInv'
  BY <1>6, Report_JInv
<1>7. CASE ReportRefused(p) BY <1>7 DEF ReportRefused
<1>8. CASE ReportOutside(p) BY <1>8 DEF ReportOutside
<1>9. QED BY <1>2, <1>3, <1>4, <1>5, <1>6, <1>7, <1>8 DEF Reports

LEMMA Next_JInv == IInv /\ JInv /\ [Next]_vars => JInv'
<1> SUFFICES ASSUME IInv, JInv, [Next]_vars PROVE JInv'
  OBVIOUS
<1>1. CASE UNCHANGED vars
  BY <1>1 DEF vars, JInv, UnbegunHasNoRows, SentIsSettled, Traces, ReachedIsTrue
<1>2. CASE TimeComes \/ Cancel \/ TenMinutesPass \/ RunDue
  BY <1>2, Quiet_JInv DEF Runners
<1>3. ASSUME NEW r \in NowRunners, SendNow(r) PROVE JInv'
  BY <1>3, Quiet_JInv DEF Runners
<1>4. ASSUME NEW r \in Runners, Run(r) \/ Stop(r) PROVE JInv'
  BY <1>4, Quiet_JInv, Claim_JInv DEF Run
<1>5. ASSUME NEW r \in Runners, NEW p \in People, SendOne(r, p) PROVE JInv'
  BY <1>5, SendOne_JInv
<1>6. ASSUME NEW p \in People,
             TakeKept(p) \/ SendKept(p) \/ DeliveredLater(p) \/ LoseTaken(p) \/ Reports(p)
      PROVE  JInv'
  BY <1>6, After_JInv
<1>7. QED BY <1>1, <1>2, <1>3, <1>4, <1>5, <1>6 DEF Next

LEMMA Spec_JInv == Spec => [](IInv /\ JInv)
BY Init_IInv, Next_IInv, Init_JInv, Next_JInv, PTL DEF Spec

\* What was cancelled is never sent: cancel and _start decide on the announcement's own row, and nobody is claimed, told
\* or shown as reached without a row that _start made.
THEOREM CancelledIsNeverSentHolds == Spec => []CancelledIsNeverSent
<1>1. IInv /\ JInv => CancelledIsNeverSent
  BY DEF IInv, JInv, OneSender, UnbegunHasNoRows, CancelledIsNeverSent
<1>2. QED BY Spec_JInv, <1>1, PTL

\* Sent means settled, whichever run says so and whatever comes later.
THEOREM SentIsSettledHolds == Spec => []SentIsSettled
<1>1. JInv => SentIsSettled BY DEF JInv
<1>2. QED BY Spec_JInv, <1>1, PTL

\* Nobody is shown as reached to whom nothing left, through late, repeated and reordered reports.
THEOREM ReachedIsTrueHolds == Spec => []ReachedIsTrue
<1>1. JInv => ReachedIsTrue BY DEF JInv
<1>2. QED BY Spec_JInv, <1>1, PTL

-----------------------------------------------------------------------------
(* The detailed specification implements ClaimOnce *)

\* Every step either hands the message to one claimed person for the first time, or hands over nothing
\* and only adds to the claimed people.
LEMMA Step_Claims ==
  ASSUME IInv, [Next]_vars
  PROVE  \/ /\ handed' = handed
            /\ \A p \in People : row[p] \notin {"none", "waiting"} => row'[p] \notin {"none", "waiting"}
         \/ /\ row' = row
            /\ \E p \in People : /\ row[p] \notin {"none", "waiting"}
                                 /\ handed[p] = 0
                                 /\ handed' = [handed EXCEPT ![p] = 1]
<1> DEFINE Goal ==
      \/ /\ handed' = handed
         /\ \A p \in People : row[p] \notin {"none", "waiting"} => row'[p] \notin {"none", "waiting"}
      \/ /\ row' = row
         /\ \E p \in People : /\ row[p] \notin {"none", "waiting"}
                              /\ handed[p] = 0
                              /\ handed' = [handed EXCEPT ![p] = 1]
<1> USE DEF IInv, TypeOK
<1>1. CASE UNCHANGED vars BY <1>1 DEF vars
<1>2. CASE TimeComes \/ Cancel \/ TenMinutesPass
  BY <1>2 DEF TimeComes, Cancel, TenMinutesPass
<1>3. CASE RunDue BY <1>3 DEF RunDue
<1>4. ASSUME NEW r \in Runners, SendNow(r) \/ Stop(r) \/ Start(r) \/ BatchOver(r) \/ Finish(r) PROVE Goal
  BY <1>4 DEF SendNow, Stop, Start, BatchOver, Finish
<1>5. ASSUME NEW r \in Runners, Claim(r) PROVE Goal
  BY <1>5 DEF Claim, Waiting
<1>6. ASSUME NEW r \in Runners, NEW p \in People, HandElsewhere(r, p) \/ HandToWhatsApp(r, p) \/ Hold(r, p)
      PROVE  Goal
  <2>1. send[r][p] = "queued" /\ row' = row /\ handed' = [handed EXCEPT ![p] = @ + 1]
    BY <1>6 DEF HandElsewhere, HandToWhatsApp, Hold
  <2>2. handed[p] = 0 /\ row[p] \notin {"none", "waiting"}
    BY <2>1 DEF OneSender, InFlight
  <2>3. handed' = [handed EXCEPT ![p] = 1] BY <2>1, <2>2
  <2>4. QED BY <2>1, <2>2, <2>3
<1>7. ASSUME NEW r \in Runners, NEW p \in People,
             NotHanded(r, p) \/ Remember(r, p) \/ Write(r, p) \/ WriteFails(r, p)
      PROVE  Goal
  BY <1>7 DEF NotHanded, Remember, Write, WriteFails, Settled
<1>8. ASSUME NEW p \in People, TakeKept(p) \/ SendKept(p) \/ DeliveredLater(p) \/ LoseTaken(p) PROVE Goal
  BY <1>8 DEF TakeKept, SendKept, DeliveredLater, LoseTaken, sending
<1>9. ASSUME NEW p \in People, Reports(p) PROVE Goal
  BY <1>9 DEF Reports, Report, Move, ReportRefused, ReportOutside
<1>10. ASSUME NEW r \in NowRunners PROVE r \in Runners
  BY DEF Runners
<1>11. QED
  BY <1>1, <1>2, <1>3, <1>4, <1>5, <1>6, <1>7, <1>8, <1>9, <1>10 DEF Next, Run, SendOne

\* The announcement implements the abstract promise: taken first, done at most once, by nobody else.
THEOREM ImplementsClaimOnceHolds == Spec => ImplementsClaimOnce
<1>1. Init => Claims!Init
  BY DEF Init, Claims!Init
<1>2. IInv /\ [Next]_vars => [Claims!Next]_(Claims!vars)
  <2> SUFFICES ASSUME IInv, [Next]_vars PROVE [Claims!Next]_(Claims!vars)
    OBVIOUS
  <2> DEFINE Claimed == {p \in People : row[p] \notin {"none", "waiting"}}
  <2>1. CASE /\ handed' = handed
             /\ \A p \in People : row[p] \notin {"none", "waiting"} => row'[p] \notin {"none", "waiting"}
    <3> DEFINE New == Claimed' \ Claimed
    <3>1. New \in SUBSET People /\ New \cap Claimed = {} /\ Claimed' = Claimed \cup New
      BY <2>1
    <3>2. \E S \in SUBSET People : S \cap Claimed = {} /\ Claimed' = Claimed \cup S /\ UNCHANGED handed
      <4> HIDE DEF Claimed
      <4> QED BY <2>1, <3>1
    <3>3. QED BY <3>2 DEF Claims!Next, Claims!Take
  <2>2. CASE /\ row' = row
             /\ \E p \in People : /\ row[p] \notin {"none", "waiting"}
                                  /\ handed[p] = 0
                                  /\ handed' = [handed EXCEPT ![p] = 1]
    <3>1. PICK p \in People : /\ row[p] \notin {"none", "waiting"}
                              /\ handed[p] = 0
                              /\ handed' = [handed EXCEPT ![p] = 1]
      BY <2>2
    <3>2. Claims!Do(p) BY <2>2, <3>1 DEF Claims!Do
    <3>3. QED BY <3>2 DEF Claims!Next
  <2>3. QED BY <2>1, <2>2, Step_Claims
<1>3. QED BY <1>1, <1>2, Init_IInv, Next_IInv, PTL DEF Spec, ImplementsClaimOnce, Claims!Spec
=============================================================================
