-------------------------- MODULE GatedFlowsProofs --------------------------
(* What holds of every workflow with gates, whatever its versions, its people and its approval chain. *)
EXTENDS GatedFlows, WellFoundedInduction, TLAPS

\* The answers people deal with, and those they gave, are to rows that are there.
InRange ==
  /\ \A p \in People : tap[p] # None => tap[p].row \in 1..Len(rows)
  /\ \A a \in answers : a.row \in 1..Len(rows)

Types == TypeOK /\ InRange

\* What happens in the asker's chat.
Chats ==
  \/ Open \/ ConfirmAgain \/ LoseCard \/ Rehydrate \/ Confirm \/ EnterCode \/ Cancel \/ Raise
  \/ \E r \in Requests : ClaimRunsOut(r)

-----------------------------------------------------------------------------
(* The rows *)

\* A row that is added is the last, and the others stay.
LEMMA Appended ==
  ASSUME rows \in Seq(Rows), NEW row \in Rows, rows' = Append(rows, row)
  PROVE  /\ rows' \in Seq(Rows)
         /\ Len(rows') = Len(rows) + 1
         /\ \A i \in 1..Len(rows) : rows'[i] = rows[i]
         /\ rows'[Len(rows) + 1] = row
OBVIOUS

\* Everything of a row but its status.
Same(new, old) ==
  /\ new.req = old.req /\ new.mode = old.mode /\ new.level = old.level /\ new.at = old.at
  /\ new.role = old.role /\ new.told = old.told /\ new.said = old.said

\* A row that is decided changes its status and nothing else.
LEMMA Decided ==
  ASSUME rows \in Seq(Rows), NEW i \in 1..Len(rows), NEW word \in Words,
         rows' = [rows EXCEPT ![i].status = Status(word)]
  PROVE  /\ rows' \in Seq(Rows)
         /\ Len(rows') = Len(rows)
         /\ \A j \in 1..Len(rows) :
              Same(rows'[j], rows[j]) /\ rows'[j].status = IF j = i THEN Status(word) ELSE rows[j].status
<1> DEFINE row == [rows[i] EXCEPT !.status = Status(word)]
<1>1. rows[i] \in Rows
  OBVIOUS
<1>2. row \in Rows /\ Same(row, rows[i]) /\ row.status = Status(word)
  BY <1>1 DEF Rows, Status, Same
<1>3. rows' = [rows EXCEPT ![i] = row]
  OBVIOUS
<1> HIDE DEF row
<1>4. rows' \in Seq(Rows) /\ Len(rows') = Len(rows) /\ \A j \in 1..Len(rows) : rows'[j] = IF j = i THEN row ELSE rows[j]
  BY <1>2, <1>3
<1>5. \A j \in 1..Len(rows) : Same(rows[j], rows[j])
  BY DEF Same
<1> QED BY <1>2, <1>4, <1>5

\* The parts of a row are what they seem.
LEMMA RowParts ==
  ASSUME rows \in Seq(Rows), NEW i \in 1..Len(rows)
  PROVE  /\ rows[i] \in Rows
         /\ rows[i].req \in Requests /\ rows[i].level \in Nat /\ rows[i].at \in Nat
         /\ rows[i].told \subseteq People /\ rows[i].said \in Words \cup {None}
         /\ rows[i].mode \in {"gate", "answer"}
<1>1. rows[i] \in Rows
  OBVIOUS
<1> QED BY <1>1 DEF Rows

\* A row made from a run, or from another row, of the right parts.
LEMMA NewRowType ==
  ASSUME NEW t, t.req \in Requests, t.said \in Words \cup {None},
         NEW mode \in {"gate", "answer"}, NEW level \in Nat, NEW at \in Nat, NEW role \in Named, NEW told \in SUBSET People
  PROVE  NewRow(t, mode, level, at, role, told) \in Rows
BY DEF NewRow, Rows

\* The approver found is somebody, and somebody only.
LEMMA FoundIsOne ==
  ASSUME NEW role, NEW told \in Found(role)
  PROVE  told \in SUBSET People /\ \A p, q \in told : p = q
BY DEF Found

LEMMA NamedRoleType ==
  ASSUME NEW i \in 1..Len(Levels), NEW told \in SUBSET People
  PROVE  NamedRole(Levels[i].role, told) \in Named
<1>1. CASE told # {}
  <2>1. (CHOOSE p \in told : TRUE) \in told
    BY <1>1
  <2> QED BY <2>1 DEF NamedRole, Named
<1>2. CASE told = {}
  BY <1>2 DEF NamedRole, Named
<1> QED BY <1>1, <1>2

LEMMA AskedLevelsAreLevels ==
  ASSUME NEW r
  PROVE  AskedLevels(r) \subseteq 1..Len(Levels) /\ AskedLevels(r) \subseteq Nat
BY LevelsAreAChain DEF AskedLevels, RequiredLevels

-----------------------------------------------------------------------------
(* Types *)

LEMMA NewRunType ==
  ASSUME TypeOK, published # None, NEW r \in Requests, NEW at \in Nat, NEW approved \in BOOLEAN,
         NEW verified \in BOOLEAN, NEW said \in Words \cup {None}
  PROVE  NewRun(r, at, approved, verified, said) \in Runs
BY DEF TypeOK, NewRun, Runs

LEMMA RunParts ==
  ASSUME TypeOK, NEW p \in People, run[p] # None
  PROVE  /\ run[p] \in Runs
         /\ run[p].req \in Requests /\ run[p].at \in Nat /\ run[p].inner \in Nat
         /\ run[p].said \in Words \cup {None} /\ run[p].flow \in Flows
<1>1. run[p] \in Runs
  BY DEF TypeOK
<1> QED BY <1>1 DEF Runs

\* The next step is of the same run.
LEMMA PastType ==
  ASSUME NEW t \in Runs
  PROVE  /\ Past(t) \in Runs
         /\ Past(t).req = t.req /\ Past(t).flow = t.flow /\ Past(t).said = t.said
         /\ Past(t).verified = t.verified /\ Past(t).approved = t.approved
         /\ \/ Past(t).at = t.at /\ Past(t).inner > 0 /\ t.inner > 0
            \/ Past(t).at = t.at + 1 /\ Past(t).inner = 0
<1>1. t.inner \in Nat /\ t.at \in Nat
  BY DEF Runs
<1>2. CASE t.inner \in 1..(Len(Block) - 1)
  <2>1. Past(t) = [t EXCEPT !.inner = t.inner + 1]
    BY <1>2 DEF Past
  <2>2. t.inner + 1 \in Nat /\ t.inner > 0
    BY <1>1, <1>2
  <2> QED BY <2>1, <2>2, <1>1 DEF Runs
<1>3. CASE t.inner \notin 1..(Len(Block) - 1)
  <2> DEFINE u == [t EXCEPT !.inner = 0]
  <2>1. Past(t) = [u EXCEPT !.at = u.at + 1]
    BY <1>3 DEF Past
  <2>2. /\ u \in Runs /\ u.inner = 0 /\ u.at = t.at /\ u.req = t.req /\ u.flow = t.flow
        /\ u.said = t.said /\ u.verified = t.verified /\ u.approved = t.approved
    BY DEF Runs
  <2> HIDE DEF u
  <2>3. u.at + 1 \in Nat
    BY <2>2, <1>1
  <2> QED BY <2>1, <2>2, <2>3, <1>1 DEF Runs
<1> QED BY <1>2, <1>3

LEMMA Init_Types == Init => Types
<1> SUFFICES ASSUME Init PROVE Types
  OBVIOUS
<1>1. rows \in Seq(Rows)
  BY DEF Init
<1> QED BY <1>1 DEF Init, Types, TypeOK, InRange

\* A run that is left half-way is counted for its request.
LEMMA SticksType ==
  ASSUME TypeOK, NEW p \in People, Sticks(p)
  PROVE  stuck' \in [Requests -> Nat]
<1>1. CASE run[p] # None
  <2>1. run[p].req \in Requests
    BY <1>1, RunParts
  <2> QED BY <2>1 DEF Sticks, TypeOK
<1>2. CASE run[p] = None
  BY <1>2 DEF Sticks, TypeOK
<1> QED BY <1>1, <1>2

LEMMA CardParts ==
  ASSUME TypeOK, card # None
  PROVE  card \in Cards /\ card.req \in Requests /\ card.at \in Nat /\ card.stage \in Stages
BY DEF TypeOK, Cards

\* The run a yes or a code begins, unless the workflow is switched off.
LEMMA CarryOutType ==
  ASSUME TypeOK, card # None, NEW verified \in BOOLEAN, CarryOut(verified)
  PROVE  run' \in [People -> Runs \cup {None}] /\ card' \in Cards \cup {None}
<1>1. card \in Cards /\ card.req \in Requests /\ card.at \in Nat
  BY CardParts
<1>2. CASE published = None
  BY <1>2 DEF CarryOut, TypeOK
<1>3. CASE published # None
  <2>1. NewRun(card.req, card.at, FALSE, verified, None) \in Runs
    BY <1>1, <1>3, NewRunType
  <2> QED BY <1>1, <1>3, <2>1, AskerIsAPerson DEF CarryOut, TypeOK
<1> QED BY <1>2, <1>3

\* A card is shown again, from one that was there or from a draft row.
LEMMA Shown_Types ==
  ASSUME Types, ConfirmAgain \/ LoseCard \/ Rehydrate \/ \E r \in Requests : ClaimRunsOut(r)
  PROVE  Types'
<1> USE DEF Types, TypeOK, InRange, bounds, asks
<1>1. CASE ConfirmAgain
  <2>1. card \in Cards /\ card.req \in Requests /\ card.at \in Nat
    BY <1>1, CardParts DEF ConfirmAgain
  <2>2. PICK at \in {0, card.at} :
          /\ card' = [card EXCEPT !.stage = "awaiting_confirmation", !.at = at]
          /\ renewed' = IF at > 0 THEN renewed \cup {card.req} ELSE renewed
    BY <1>1 DEF ConfirmAgain
  <2>3. card' \in Cards
    <3>1. at \in Nat /\ "awaiting_confirmation" \in Stages
      BY <2>1 DEF Stages
    <3> QED BY <2>1, <2>2, <3>1 DEF Cards
  <2>4. renewed' \subseteq Requests /\ draft' \in Requests \cup {None} /\ claimed' \subseteq Requests
    BY <1>1, <2>1, <2>2 DEF ConfirmAgain, Stamped
  <2> QED BY <1>1, <2>3, <2>4 DEF ConfirmAgain
<1>2. CASE LoseCard
  BY <1>2 DEF LoseCard
<1>3. CASE Rehydrate
  <2>1. card' \in Cards
    BY <1>3 DEF Rehydrate, Cards, Stages
  <2> QED BY <1>3, <2>1 DEF Rehydrate, Stamped
<1>4. CASE \E r \in Requests : ClaimRunsOut(r)
  BY <1>4 DEF ClaimRunsOut
<1> QED BY <1>1, <1>2, <1>3, <1>4

\* The asker's chat.
LEMMA Chat_Types ==
  ASSUME Types, Chats
  PROVE  Types'
<1> USE DEF Types, TypeOK, InRange, bounds, asks
<1>1. CASE Open
  <2>1. card' \in Cards
    BY <1>1, RequestsAreNumbers DEF Open, Cards, Stages
  <2> QED BY <1>1, <2>1 DEF Open
<1>2. CASE Confirm
  <2>1. card.req \in Requests
    BY <1>2, CardParts DEF Confirm
  <2>2. run' \in [People -> Runs \cup {None}] /\ card' \in Cards \cup {None}
    BY <1>2, CarryOutType DEF Confirm
  <2>3. claimed' \subseteq Requests /\ yes' \in [Requests -> Nat]
    BY <1>2, <2>1 DEF Confirm
  <2> QED BY <1>2, <2>2, <2>3 DEF Confirm
<1>3. CASE EnterCode
  <2>1. card.req \in Requests
    BY <1>3, CardParts DEF EnterCode
  <2>2. run' \in [People -> Runs \cup {None}] /\ card' \in Cards \cup {None}
    BY <1>3, CarryOutType DEF EnterCode
  <2> QED BY <1>3, <2>1, <2>2 DEF EnterCode
<1>4. CASE Cancel
  <2>1. card.req \in Requests
    BY <1>4, CardParts DEF Cancel
  <2> QED BY <1>4, <2>1 DEF Cancel
<1>5. CASE Raise
  <2>1. stuck' \in [Requests -> Nat]
    BY <1>5, SticksType, AskerIsAPerson DEF Raise
  <2> QED BY <1>5, <2>1, AskerIsAPerson DEF Raise
<1> QED BY <1>1, <1>2, <1>3, <1>4, <1>5, Shown_Types DEF Chats

\* Steps that leave the rows alone.
LEMMA Step_Types ==
  ASSUME Types, NEW p \in People,
         Save(p) \/ Pass(p) \/ Fail(p) \/ Refuse(p) \/ Finish(p) \/ CodeGate(p) \/ Die(p)
  PROVE  Types'
<1> USE DEF Types, TypeOK, InRange, bounds, chat, asks, Closes, Ends
<1>1. CASE Save(p)
  <2>1. PICK s \in Saves : /\ At(p, s)
                           /\ saved' = [saved EXCEPT ![run[p].req][s] = @ + 1]
                           /\ run' = [run EXCEPT ![p] = Past(run[p])]
    BY <1>1 DEF Save
  <2>2. run[p] \in Runs /\ run[p].req \in Requests /\ Past(run[p]) \in Runs
    BY <2>1, RunParts, PastType DEF At
  <2>3. saved' \in [Requests -> [Saves -> Nat]]
    <3>1. saved \in [Requests -> [Saves -> Nat]] /\ saved[run[p].req] \in [Saves -> Nat]
      BY <2>2
    <3>2. saved[run[p].req][s] + 1 \in Nat
      BY <3>1
    <3>3. [saved[run[p].req] EXCEPT ![s] = @ + 1] \in [Saves -> Nat]
      BY <3>1, <3>2
    <3> QED BY <2>1, <2>2, <3>1, <3>3
  <2> QED BY <1>1, <2>1, <2>2, <2>3 DEF Save
<1>2. CASE Pass(p)
  <2>1. run[p] \in Runs /\ Past(run[p]) \in Runs
    BY <1>2, RunParts, PastType DEF Pass
  <2>2. [run[p] EXCEPT !.inner = 1] \in Runs
    BY <2>1 DEF Runs
  <2>3. run' = [run EXCEPT ![p] = Past(run[p])] \/ run' = [run EXCEPT ![p] = [run[p] EXCEPT !.inner = 1]]
    BY <1>2 DEF Pass
  <2> QED BY <1>2, <2>1, <2>2, <2>3 DEF Pass
<1>3. CASE Fail(p) BY <1>3 DEF Fail
<1>4. CASE Refuse(p) BY <1>4 DEF Refuse
<1>5. CASE Finish(p) BY <1>5 DEF Finish
<1>6. CASE CodeGate(p)
  <2>1. run[p].req \in Requests /\ run[p].at \in Nat
    BY <1>6, RunParts DEF CodeGate, At
  <2>2. [req |-> run[p].req, stage |-> "awaiting_otp", at |-> run[p].at + 1] \in Cards
    BY <2>1 DEF Cards, Stages
  <2> QED BY <1>6, <2>1, <2>2 DEF CodeGate, Halts
<1>7. CASE Die(p)
  <2>1. stuck' \in [Requests -> Nat]
    BY <1>7, SticksType DEF Die
  <2> QED BY <1>7, <2>1 DEF Die
<1> QED BY <1>1, <1>2, <1>3, <1>4, <1>5, <1>6, <1>7

\* The first level's row.
LEMMA GateRow ==
  ASSUME Types, NEW p \in People, ApprovalGate(p)
  PROVE  \E i \in Earliest(AskedLevels(run[p].req)), role \in Named, told \in SUBSET People :
           /\ \A q, r \in told : q = r
           /\ NewRow(run[p], "gate", i, run[p].at + 1, role, told) \in Rows
           /\ rows' = Append(rows, NewRow(run[p], "gate", i, run[p].at + 1, role, told))
<1>1. /\ run[p].req \in Requests /\ run[p].said \in Words \cup {None} /\ run[p].at + 1 \in Nat
  BY RunParts DEF ApprovalGate, At, Types
<1>2. PICK i \in Earliest(AskedLevels(run[p].req)) : \E told \in Found(Levels[i].role) :
        rows' = Append(rows, NewRow(run[p], "gate", i, run[p].at + 1, NamedRole(Levels[i].role, told), told))
  BY DEF ApprovalGate
<1>3. PICK told \in Found(Levels[i].role) :
        rows' = Append(rows, NewRow(run[p], "gate", i, run[p].at + 1, NamedRole(Levels[i].role, told), told))
  BY <1>2
<1>4. i \in 1..Len(Levels) /\ i \in Nat
  BY AskedLevelsAreLevels DEF Earliest
<1>5. told \in SUBSET People /\ \A q, r \in told : q = r
  BY FoundIsOne
<1>6. NamedRole(Levels[i].role, told) \in Named
  BY <1>4, <1>5, NamedRoleType
<1>7. NewRow(run[p], "gate", i, run[p].at + 1, NamedRole(Levels[i].role, told), told) \in Rows
  BY <1>1, <1>4, <1>5, <1>6, NewRowType
<1> QED BY <1>3, <1>5, <1>6, <1>7

\* The next level's row.
LEMMA NextRow ==
  ASSUME Types, NEW p \in People, Escalate(p)
  PROVE  \E i \in Earliest(LevelsAfter(rows[tap[p].row])), role \in Named, told \in SUBSET People :
           /\ \A q, r \in told : q = r
           /\ NewRow(rows[tap[p].row], "gate", i, rows[tap[p].row].at, role, told) \in Rows
           /\ rows' = Append(rows, NewRow(rows[tap[p].row], "gate", i, rows[tap[p].row].at, role, told))
<1> DEFINE row == rows[tap[p].row]
<1>1. tap[p].row \in 1..Len(rows)
  BY DEF Types, InRange, Escalate, Settled
<1>2. /\ row.req \in Requests /\ row.said \in Words \cup {None} /\ row.at \in Nat
  BY <1>1, RowParts DEF Types, TypeOK
<1>3. PICK i \in Earliest(LevelsAfter(row)) : \E told \in Found(Levels[i].role) :
        rows' = Append(rows, NewRow(row, "gate", i, row.at, Levels[i].role, told))
  BY DEF Escalate
<1>4. PICK told \in Found(Levels[i].role) : rows' = Append(rows, NewRow(row, "gate", i, row.at, Levels[i].role, told))
  BY <1>3
<1>5. i \in 1..Len(Levels) /\ i \in Nat
  BY AskedLevelsAreLevels DEF Earliest, LevelsAfter
<1>6. told \in SUBSET People /\ \A q, r \in told : q = r
  BY FoundIsOne
<1>7. Levels[i].role \in Named
  BY <1>5 DEF Named
<1>8. NewRow(row, "gate", i, row.at, Levels[i].role, told) \in Rows
  BY <1>2, <1>5, <1>6, <1>7, NewRowType
<1> QED BY <1>4, <1>6, <1>7, <1>8

\* The row of ask_approval.
LEMMA AskRow ==
  ASSUME Types, NEW p \in People, AskApproval(p)
  PROVE  /\ NewRow(run[p], "answer", 1, run[p].at + 1, Anyone, Asked \ {Asker}) \in Rows
         /\ rows' = Append(rows, NewRow(run[p], "answer", 1, run[p].at + 1, Anyone, Asked \ {Asker}))
<1>1. /\ run[p].req \in Requests /\ run[p].said \in Words \cup {None} /\ run[p].at + 1 \in Nat
  BY RunParts DEF AskApproval, At, Types
<1>2. Anyone \in Named /\ Asked \ {Asker} \in SUBSET People
  BY PeopleAreAsked DEF Named
<1> QED BY <1>1, <1>2, NewRowType DEF AskApproval

\* Steps that add a row.
LEMMA Row_Types ==
  ASSUME Types, NEW p \in People, ApprovalGate(p) \/ AskApproval(p) \/ Escalate(p)
  PROVE  Types'
<1>1. PICK row \in Rows : rows' = Append(rows, row)
  BY GateRow, AskRow, NextRow
<1>2. rows' \in Seq(Rows) /\ Len(rows') = Len(rows) + 1 /\ Len(rows) \in Nat
  BY <1>1, Appended DEF Types, TypeOK
<1>3. CASE ApprovalGate(p) \/ AskApproval(p)
  <2>1. run[p].req \in Requests /\ run[p].at \in Nat
    BY <1>3, RunParts DEF ApprovalGate, AskApproval, At, Types
  <2>2. [req |-> run[p].req, stage |-> "awaiting_approval", at |-> run[p].at + 1] \in Cards
    BY <2>1 DEF Cards, Stages
  <2>3. card' \in Cards \cup {None} /\ run' \in [People -> Runs \cup {None}] /\ draft' = draft
    BY <1>3, <2>2 DEF ApprovalGate, AskApproval, Halts, Ends, Types, TypeOK
  <2>4. UNCHANGED <<published, claimed, asks, code, tap, saved, answers, proven, bounds>>
    BY <1>3 DEF ApprovalGate, AskApproval
  <2> QED BY <1>2, <2>3, <2>4 DEF Types, TypeOK, InRange, bounds, asks
<1>4. CASE Escalate(p)
  <2>1. tap' = [tap EXCEPT ![p] = None] /\ UNCHANGED <<published, chat, code, run, saved, answers, proven, bounds>>
    BY <1>4 DEF Escalate
  <2> QED BY <1>2, <2>1 DEF Types, TypeOK, InRange, bounds, chat, asks
<1> QED BY <1>3, <1>4

\* What a decision does to the rows, and what is kept of it.
LEMMA DecidedRows ==
  ASSUME Types, NEW p \in People, tap[p] # None,
         rows' = [rows EXCEPT ![tap[p].row].status = Status(tap[p].word)], Records(p)
  PROVE  /\ tap[p].row \in 1..Len(rows) /\ tap[p].word \in Words
         /\ rows' \in Seq(Rows) /\ Len(rows') = Len(rows)
         /\ \A j \in 1..Len(rows) :
              Same(rows'[j], rows[j]) /\ rows'[j].status = IF j = tap[p].row THEN Status(tap[p].word) ELSE rows[j].status
         /\ answers' \subseteq [row : Nat, by : People, word : Words]
         /\ \A a \in answers' : a.row \in 1..Len(rows)
<1>1. tap[p].row \in 1..Len(rows) /\ tap[p].row \in Nat /\ tap[p].word \in Words
  BY DEF Types, TypeOK, InRange, Taps
<1>2. /\ rows' \in Seq(Rows) /\ Len(rows') = Len(rows)
      /\ \A j \in 1..Len(rows) :
           Same(rows'[j], rows[j]) /\ rows'[j].status = IF j = tap[p].row THEN Status(tap[p].word) ELSE rows[j].status
  BY <1>1, Decided DEF Types, TypeOK
<1>3. answers' = answers \cup {[row |-> tap[p].row, by |-> p, word |-> tap[p].word]}
  BY DEF Records
<1>4. [row |-> tap[p].row, by |-> p, word |-> tap[p].word] \in [row : Nat, by : People, word : Words]
  BY <1>1
<1>5. answers \subseteq [row : Nat, by : People, word : Words] /\ \A a \in answers : a.row \in 1..Len(rows)
  BY DEF Types, TypeOK, InRange
<1>6. answers' \subseteq [row : Nat, by : People, word : Words]
  BY <1>3, <1>4, <1>5
<1>7. \A a \in answers' : a.row \in 1..Len(rows)
  BY <1>1, <1>3, <1>5
<1> QED BY <1>1, <1>2, <1>6, <1>7

LEMMA SettledType ==
  ASSUME NEW t \in Taps
  PROVE  [t EXCEPT !.settled = TRUE] \in Taps
BY DEF Taps

\* Steps that deal with an answer.
LEMMA Deal_Types ==
  ASSUME Types, NEW p \in People, Decide(p) \/ Answer(p) \/ Resume(p)
  PROVE  Types'
<1>1. ASSUME Decide(p) \/ (Answer(p) /\ rows[tap[p].row].status = "pending")
      PROVE  Types'
  <2>1. tap[p] # None /\ rows' = [rows EXCEPT ![tap[p].row].status = Status(tap[p].word)] /\ Records(p)
    BY <1>1 DEF Decide, Answer
  <2> DEFINE done == [tap[p] EXCEPT !.settled = TRUE]
  <2>2. tap[p] \in Taps /\ done \in Taps /\ done.row = tap[p].row
    BY <2>1, SettledType DEF Types, TypeOK, Taps
  <2>3. tap' = [tap EXCEPT ![p] = done] \/ tap' = [tap EXCEPT ![p] = None]
    BY <1>1 DEF Decide, Answer
  <2> HIDE DEF done
  <2>4. UNCHANGED <<published, chat, code, run, saved, proven, bounds>>
    BY <1>1 DEF Decide, Answer
  <2>5. tap' \in [People -> Taps \cup {None}] /\ \A q \in People : tap'[q] # None => tap'[q].row \in 1..Len(rows)
    BY <2>1, <2>2, <2>3 DEF Types, TypeOK, InRange
  <2>6. rows' \in Seq(Rows) /\ Len(rows') = Len(rows) /\ answers' \subseteq [row : Nat, by : People, word : Words]
        /\ \A a \in answers' : a.row \in 1..Len(rows)
    BY <2>1, DecidedRows
  <2> QED BY <2>4, <2>5, <2>6 DEF Types, TypeOK, InRange, bounds, chat, asks
<1>2. CASE Answer(p) /\ rows[tap[p].row].status # "pending"
  BY <1>2 DEF Answer, Types, TypeOK, InRange, bounds, chat, asks
<1>3. CASE Resume(p)
  <2>1. tap[p] # None /\ tap[p].row \in 1..Len(rows) /\ tap[p].word \in Words
    BY <1>3 DEF Resume, Settled, Types, TypeOK, InRange, Taps
  <2> DEFINE row == rows[tap[p].row]
             said == IF row.mode = "answer" THEN tap[p].word ELSE row.said
  <2>2. row.req \in Requests /\ row.at \in Nat /\ said \in Words \cup {None}
    BY <2>1, RowParts DEF Types, TypeOK
  <2>3. published # None => NewRun(row.req, row.at, row.mode = "gate", FALSE, said) \in Runs
    BY <2>2, NewRunType DEF Types
  <2>4. run' = IF published = None THEN run
               ELSE [run EXCEPT ![p] = NewRun(row.req, row.at, row.mode = "gate", FALSE, said)]
    BY <1>3 DEF Resume
  <2> HIDE DEF row, said
  <2>5. run' \in [People -> Runs \cup {None}]
    BY <2>3, <2>4 DEF Types, TypeOK
  <2> QED BY <1>3, <2>5 DEF Resume, Types, TypeOK, InRange, bounds, chat, asks
<1> QED BY <1>1, <1>2, <1>3

LEMMA Rest_Types ==
  ASSUME Types,
         \/ \E p \in People, i \in 1..Len(rows), word \in Words : Tap(p, i, word)
         \/ \E f \in Flows \cup {None} : Publish(f)
         \/ UNCHANGED vars
  PROVE  Types'
<1> USE DEF Types, TypeOK, InRange, bounds, chat, asks
<1>1. CASE \E p \in People, i \in 1..Len(rows), word \in Words : Tap(p, i, word)
  <2>1. PICK p \in People, i \in 1..Len(rows), word \in Words : Tap(p, i, word)
    BY <1>1
  <2>2. [row |-> i, word |-> word, settled |-> FALSE] \in Taps
    BY DEF Taps
  <2> QED BY <2>1, <2>2 DEF Tap
<1>2. CASE \E f \in Flows \cup {None} : Publish(f)
  BY <1>2 DEF Publish
<1>3. CASE UNCHANGED vars
  BY <1>3 DEF vars
<1> QED BY <1>1, <1>2, <1>3

LEMMA Next_Types ==
  ASSUME Types, [Next]_vars
  PROVE  Types'
BY Chat_Types, Step_Types, Row_Types, Deal_Types, Rest_Types DEF Next, Chats, RunStep, Deal

LEMMA Spec_Types == Spec => []Types
BY Init_Types, Next_Types, PTL DEF Spec

\* Every reachable state has the types of its variables.
THEOREM TypeCorrect == Spec => []TypeOK
<1>1. Types => TypeOK
  BY DEF Types
<1> QED BY <1>1, Spec_Types, PTL

-----------------------------------------------------------------------------
(* One answer decides *)

\* One person at most is asked for a level, and who deals with an answer was asked.
OneAsked ==
  /\ \A i \in 1..Len(rows) : rows[i].mode = "gate" => \A p, q \in rows[i].told : p = q
  /\ \A p \in People : tap[p] # None => p \in rows[tap[p].row].told

\* A level is not decided while somebody is deciding it: the update asks for nothing but the row's id.
StillPending ==
  \A p \in People : tap[p] # None /\ ~tap[p].settled /\ rows[tap[p].row].mode = "gate" =>
    rows[tap[p].row].status = "pending"

AInv == Types /\ OneAsked /\ StillPending /\ OneAnswerDecides

LEMMA Init_AInv == Init => AInv
<1> SUFFICES ASSUME Init PROVE AInv
  OBVIOUS
<1>1. Types
  BY Init_Types
<1>2. Len(rows) = 0
  BY DEF Init
<1> QED BY <1>1, <1>2 DEF Init, AInv, OneAsked, StillPending, OneAnswerDecides

\* A row that is added is nobody's yet.
LEMMA Row_AInv ==
  ASSUME AInv, NEW p \in People, ApprovalGate(p) \/ AskApproval(p) \/ Escalate(p)
  PROVE  AInv'
<1>1. PICK row \in Rows : /\ rows' = Append(rows, row)
                          /\ row.mode = "gate" => \A q, r \in row.told : q = r
  BY GateRow, AskRow, NextRow DEF AInv, NewRow
<1>2. /\ rows' \in Seq(Rows) /\ Len(rows') = Len(rows) + 1 /\ Len(rows) \in Nat
      /\ \A i \in 1..Len(rows) : rows'[i] = rows[i]
      /\ rows'[Len(rows) + 1] = row
  BY <1>1, Appended DEF AInv, Types, TypeOK
<1>3. answers' = answers /\ (tap' = tap \/ tap' = [tap EXCEPT ![p] = None])
  BY DEF ApprovalGate, AskApproval, Escalate
<1>4. Types'
  BY Row_Types DEF AInv
<1>5. \A q \in People : tap'[q] # None => tap'[q] = tap[q] /\ tap[q].row \in 1..Len(rows) /\ rows'[tap[q].row] = rows[tap[q].row]
  BY <1>2, <1>3 DEF AInv, Types, TypeOK, InRange
<1>6. OneAsked'
  <2>1. \A i \in 1..Len(rows') : i \in 1..Len(rows) \/ i = Len(rows) + 1
    BY <1>2
  <2> QED BY <1>1, <1>2, <1>5, <2>1 DEF AInv, OneAsked
<1>7. StillPending'
  BY <1>5 DEF AInv, StillPending
<1>8. OneAnswerDecides'
  <2>1. \A a \in answers : rows'[a.row] = rows[a.row]
    BY <1>2 DEF AInv, Types, InRange
  <2> QED BY <1>3, <2>1 DEF AInv, OneAnswerDecides
<1> QED BY <1>4, <1>6, <1>7, <1>8 DEF AInv

\* Only the one who is asked decides a level, and the others find an answered row answered.
LEMMA Decision_AInv ==
  ASSUME AInv, NEW p \in People, Decide(p) \/ (Answer(p) /\ rows[tap[p].row].status = "pending")
  PROVE  AInv'
<1> DEFINE i == tap[p].row
           answer == [row |-> i, by |-> p, word |-> tap[p].word]
<1>1. tap[p] # None /\ ~tap[p].settled /\ rows' = [rows EXCEPT ![i].status = Status(tap[p].word)] /\ Records(p)
  BY DEF Decide, Answer
<1>2. /\ i \in 1..Len(rows) /\ tap[p].word \in Words
      /\ Len(rows') = Len(rows)
      /\ \A j \in 1..Len(rows) :
           Same(rows'[j], rows[j]) /\ rows'[j].status = IF j = i THEN Status(tap[p].word) ELSE rows[j].status
  BY <1>1, DecidedRows DEF AInv
<1>3. \A j \in 1..Len(rows) :
        /\ rows'[j].mode = rows[j].mode /\ rows'[j].told = rows[j].told
        /\ rows'[j].status = IF j = i THEN Status(tap[p].word) ELSE rows[j].status
  BY <1>2 DEF Same
<1>4. Types'
  BY Deal_Types DEF AInv
<1>5. \A q \in People : tap'[q] # None =>
        /\ tap[q] # None /\ tap'[q].row = tap[q].row /\ tap[q].row \in 1..Len(rows)
        /\ q = p => tap'[q].settled
        /\ q # p => tap'[q] = tap[q]
  <2>1. tap[p] \in Taps /\ tap \in [People -> Taps \cup {None}]
    BY <1>1 DEF AInv, Types, TypeOK
  <2>2. tap' = [tap EXCEPT ![p] = [tap[p] EXCEPT !.settled = TRUE]] \/ tap' = [tap EXCEPT ![p] = None]
    BY DEF Decide, Answer
  <2>3. [tap[p] EXCEPT !.settled = TRUE].settled /\ [tap[p] EXCEPT !.settled = TRUE].row = tap[p].row
    BY <2>1 DEF Taps
  <2>4. \A q \in People : tap[q] # None => tap[q].row \in 1..Len(rows)
    BY DEF AInv, Types, InRange
  <2>5. \A q \in People \ {p} : tap'[q] = tap[q]
    BY <2>1, <2>2
  <2>6. tap'[p] # None => tap'[p] = [tap[p] EXCEPT !.settled = TRUE]
    BY <2>1, <2>2
  <2> QED BY <1>1, <2>3, <2>4, <2>5, <2>6
<1>6. OneAsked'
  BY <1>2, <1>3, <1>5 DEF AInv, OneAsked
<1>7. rows[i].status = "pending"
  BY <1>1 DEF Decide, Answer, AInv, StillPending
<1>8. StillPending'
  <2> SUFFICES ASSUME NEW q \in People, tap'[q] # None, ~tap'[q].settled, rows'[tap'[q].row].mode = "gate"
               PROVE  rows'[tap'[q].row].status = "pending"
    BY DEF StillPending
  <2>1. q # p /\ tap'[q] = tap[q] /\ tap[q] # None /\ tap[q].row \in 1..Len(rows)
    BY <1>5
  <2>2. tap[q].row # i
    BY <1>1, <1>3, <2>1 DEF AInv, OneAsked
  <2> QED BY <1>3, <2>1, <2>2 DEF AInv, StillPending
<1>9. OneAnswerDecides'
  <2>1. answers' = answers \cup {answer}
    BY <1>1 DEF Records
  <2>2. \A a \in answers : a.row # i /\ a.row \in 1..Len(rows)
    BY <1>7 DEF AInv, OneAnswerDecides, Status, Types, InRange
  <2>3. \A a \in answers : rows'[a.row].status = Status(a.word)
    BY <1>3, <2>2 DEF AInv, OneAnswerDecides
  <2>4. answer.row = i /\ rows'[answer.row].status = Status(answer.word)
    BY <1>2, <1>3
  <2> HIDE DEF answer, i
  <2> QED BY <2>1, <2>2, <2>3, <2>4 DEF AInv, OneAnswerDecides
<1> QED BY <1>4, <1>6, <1>8, <1>9 DEF AInv

\* A tap reads a row that is waiting.
LEMMA Tap_AInv ==
  ASSUME AInv, NEW p \in People, NEW i \in 1..Len(rows), NEW word \in Words, Tap(p, i, word)
  PROVE  AInv'
<1>1. Types'
  BY Rest_Types DEF AInv
<1>2. tap' = [tap EXCEPT ![p] = [row |-> i, word |-> word, settled |-> FALSE]] /\ rows' = rows /\ answers' = answers
      /\ p \in rows[i].told /\ rows[i].status = "pending"
  BY DEF Tap
<1>3. \A q \in People : IF q = p THEN tap'[q].row = i ELSE tap'[q] = tap[q]
  BY <1>2 DEF AInv, Types, TypeOK
<1> QED BY <1>1, <1>2, <1>3 DEF AInv, OneAsked, StillPending, OneAnswerDecides

\* Steps that leave the rows and the answers alone, and begin to deal with none.
LEMMA Idle_AInv ==
  ASSUME AInv, Types', rows' = rows, answers' = answers,
         tap' = tap \/ \E p \in People : tap' = [tap EXCEPT ![p] = None]
  PROVE  AInv'
<1>1. \A q \in People : tap'[q] # None => tap'[q] = tap[q]
  BY DEF AInv, Types, TypeOK
<1> QED BY <1>1 DEF AInv, OneAsked, StillPending, OneAnswerDecides

LEMMA Next_AInv ==
  ASSUME AInv, [Next]_vars
  PROVE  AInv'
<1>1. Types'
  BY Next_Types DEF AInv
<1>2. CASE Chats
  <2>1. rows' = rows /\ answers' = answers /\ tap' = tap
    BY <1>2 DEF Chats, Open, ConfirmAgain, LoseCard, Rehydrate, Confirm, EnterCode, Cancel, Raise, ClaimRunsOut
  <2> QED BY <1>1, <2>1, Idle_AInv
<1>3. ASSUME NEW p \in People,
             Save(p) \/ Pass(p) \/ Fail(p) \/ Refuse(p) \/ Finish(p) \/ CodeGate(p)
      PROVE  AInv'
  <2>1. rows' = rows /\ answers' = answers /\ tap' = tap
    BY <1>3 DEF Save, Pass, Fail, Refuse, Finish, CodeGate
  <2> QED BY <1>1, <2>1, Idle_AInv
<1>4. ASSUME NEW p \in People,
             Resume(p) \/ Die(p) \/ (Answer(p) /\ rows[tap[p].row].status # "pending")
      PROVE  AInv'
  <2>1. rows' = rows /\ answers' = answers /\ tap' = [tap EXCEPT ![p] = None]
    BY <1>4 DEF Resume, Die, Answer
  <2> QED BY <1>1, <2>1, Idle_AInv
<1>5. CASE \E f \in Flows \cup {None} : Publish(f)
  <2>1. rows' = rows /\ answers' = answers /\ tap' = tap
    BY <1>5 DEF Publish
  <2> QED BY <1>1, <2>1, Idle_AInv
<1>6. CASE UNCHANGED vars
  BY <1>1, <1>6, Idle_AInv DEF vars
<1> QED BY <1>2, <1>3, <1>4, <1>5, <1>6, Row_AInv, Decision_AInv, Tap_AInv DEF Next, Chats, RunStep, Deal

\* Of two answers to one question the first is the one that counts, and the row shows it: two approvers who
\* answer at once, and one who taps twice, do not start the rest of the workflow on different words.
THEOREM OneAnswerDecidesHolds == Spec => []OneAnswerDecides
<1>1. AInv => OneAnswerDecides
  BY DEF AInv
<1> QED BY <1>1, Init_AInv, Next_AInv, PTL DEF Spec

-----------------------------------------------------------------------------
(* Nothing runs before its gates *)

\* Begun before an edit, or shown again with the step it was halted at.
Excused == edited \cup renewed

\* A request goes on after a gate only: all the steps before the gate have been cleared.
ThroughGate(r, at, said, op) ==
  r \notin Excused =>
    /\ at \in Nat /\ at \in 1..Len(published) /\ published[at] = op
    /\ Cleared(r, published, at - 1, said)

\* Nobody has said what no answer says.
Answered(r, said) ==
  said \in Words => \E a \in answers : rows[a.row].req = r /\ rows[a.row].mode = "answer" /\ a.word = said

RowStands(row) ==
  /\ row.req <= opened
  /\ Answered(row.req, row.said)
  /\ row.mode = "gate" =>
       /\ row.level \in AskedLevels(row.req)
       /\ \A j \in AskedLevels(row.req) : j < row.level => j \in ApprovedLevels(row.req)
  /\ row.mode = "answer" => Asker \notin row.told
  /\ ThroughGate(row.req, row.at, row.said, IF row.mode = "gate" THEN "approval_gate" ELSE "ask_approval")

TapStands(p, t) ==
  /\ rows[t.row].mode = "gate" => MayDecide(p, rows[t.row]) /\ (t.settled => t.word = "Approve")
  /\ t.settled => [row |-> t.row, by |-> p, word |-> t.word] \in answers

RunStands(t) ==
  /\ t.req <= opened
  /\ Answered(t.req, t.said)
  /\ t.verified => t.req \in proven
  /\ t.approved => ApprovedLevels(t.req) = AskedLevels(t.req)
  /\ t.inner > 0 => ~Over(t) /\ t.flow[t.at + 1] = "run_workflow"
  /\ t.req \notin Excused => t.flow = published /\ Cleared(t.req, t.flow, t.at, t.said)

\* Of the cards only those that a yes or a code sets off matter, and their runs begin with nothing said.
CardStands(c) ==
  /\ c.req <= opened
  /\ c.stage = "awaiting_confirmation" => c.at = 0 \/ c.req \in Excused
  /\ c.stage = "awaiting_otp" => ThroughGate(c.req, c.at, None, "otp_gate")

\* The asker answers nobody, so the asker's own runs are never those behind an answer.
AskersOwn == tap[Asker] = None /\ (run[Asker] # None => run[Asker].said = None)

GInv ==
  /\ Types
  /\ \A i \in 1..Len(rows) : RowStands(rows[i])
  /\ \A p \in People : tap[p] # None => TapStands(p, tap[p])
  /\ \A p \in People : run[p] # None => RunStands(run[p])
  /\ card # None => CardStands(card)
  /\ draft # None => draft <= opened
  /\ AskersOwn

\* What no step takes away.
Kept ==
  /\ \A i \in 1..Len(rows) : i \in 1..Len(rows') /\ Same(rows'[i], rows[i])
  /\ answers \subseteq answers' /\ (\A a \in answers' : a.row \in 1..Len(rows))
  /\ proven \subseteq proven' /\ opened <= opened'
  /\ Excused \subseteq Excused' /\ (published' = published \/ \A r \in Requests : r <= opened => r \in Excused')

LEMMA Still_Kept ==
  ASSUME Types, rows' = rows, answers' = answers, proven \subseteq proven', opened <= opened',
         Excused \subseteq Excused', published' = published
  PROVE  Kept
BY DEF Types, InRange, Kept, Same

LEMMA Next_Kept ==
  ASSUME Types, [Next]_vars
  PROVE  Kept
<1>1. opened \in Nat /\ opened <= opened
  BY DEF Types, TypeOK
<1>2. CASE Chats
  <2>1. rows' = rows /\ answers' = answers /\ proven \subseteq proven' /\ published' = published
    BY <1>2 DEF Chats, Open, ConfirmAgain, LoseCard, Rehydrate, Confirm, EnterCode, Cancel, Raise, ClaimRunsOut
  <2>2. opened' = opened \/ opened' = opened + 1
    BY <1>2 DEF Chats, Open, ConfirmAgain, LoseCard, Rehydrate, Confirm, EnterCode, Cancel, Raise, ClaimRunsOut, asks
  <2>3. edited' = edited /\ renewed \subseteq renewed'
    BY <1>2 DEF Chats, Open, ConfirmAgain, LoseCard, Rehydrate, Confirm, EnterCode, Cancel, Raise, ClaimRunsOut, asks,
                bounds
  <2>4. opened <= opened' /\ Excused \subseteq Excused'
    BY <1>1, <2>2, <2>3 DEF Excused
  <2> QED BY <2>1, <2>4, Still_Kept
<1>3. ASSUME NEW p \in People,
             \/ Save(p) \/ Pass(p) \/ Fail(p) \/ Refuse(p) \/ Finish(p) \/ CodeGate(p) \/ Resume(p) \/ Die(p)
             \/ Answer(p) /\ rows[tap[p].row].status # "pending"
      PROVE  Kept
  <2>1. UNCHANGED <<rows, answers, proven, opened, edited, renewed, published>>
    BY <1>3 DEF Save, Pass, Fail, Refuse, Finish, CodeGate, Resume, Die, Answer, bounds, chat, asks
  <2> QED BY <1>1, <2>1, Still_Kept DEF Excused
<1>4. ASSUME NEW p \in People, ApprovalGate(p) \/ AskApproval(p) \/ Escalate(p)
      PROVE  Kept
  <2>1. PICK row \in Rows : rows' = Append(rows, row)
    BY <1>4, GateRow, AskRow, NextRow
  <2>2. Len(rows') = Len(rows) + 1 /\ Len(rows) \in Nat /\ \A i \in 1..Len(rows) : rows'[i] = rows[i]
    BY <2>1, Appended DEF Types, TypeOK
  <2>3. \A i \in 1..Len(rows) : i \in 1..Len(rows') /\ Same(rows'[i], rows[i])
    BY <2>2 DEF Same
  <2>4. UNCHANGED <<answers, proven, opened, edited, renewed, published>>
    BY <1>4 DEF ApprovalGate, AskApproval, Escalate, bounds, chat, asks
  <2> QED BY <1>1, <2>3, <2>4 DEF Kept, Types, InRange, Excused
<1>5. ASSUME NEW p \in People, Decide(p) \/ (Answer(p) /\ rows[tap[p].row].status = "pending")
      PROVE  Kept
  <2>1. tap[p] # None /\ rows' = [rows EXCEPT ![tap[p].row].status = Status(tap[p].word)] /\ Records(p)
    BY <1>5 DEF Decide, Answer
  <2>2. /\ Len(rows') = Len(rows) /\ (\A j \in 1..Len(rows) : Same(rows'[j], rows[j]))
        /\ \A a \in answers' : a.row \in 1..Len(rows)
    BY <2>1, DecidedRows
  <2>3. answers \subseteq answers'
    BY <2>1 DEF Records
  <2>4. UNCHANGED <<proven, opened, edited, renewed, published>>
    BY <1>5 DEF Decide, Answer, bounds, chat, asks
  <2> QED BY <1>1, <2>2, <2>3, <2>4 DEF Kept, Excused
<1>6. CASE \E p \in People, i \in 1..Len(rows), word \in Words : Tap(p, i, word)
  <2>1. UNCHANGED <<rows, answers, proven, opened, edited, renewed, published>>
    BY <1>6 DEF Tap, bounds, chat, asks
  <2> QED BY <1>1, <2>1, Still_Kept DEF Excused
<1>7. CASE \E f \in Flows \cup {None} : Publish(f)
  <2>1. /\ UNCHANGED <<rows, answers, proven, opened, renewed>>
        /\ edited' = edited \cup {r \in Requests : r <= opened}
    BY <1>7 DEF Publish, chat, asks
  <2>2. \A i \in 1..Len(rows) : Same(rows[i], rows[i])
    BY DEF Same
  <2> QED BY <1>1, <2>1, <2>2 DEF Kept, Types, InRange, Excused
<1>8. CASE UNCHANGED vars
  BY <1>1, <1>8, Still_Kept DEF vars, bounds, chat, asks, Excused
<1> QED BY <1>2, <1>3, <1>4, <1>5, <1>6, <1>7, <1>8 DEF Next, Chats, RunStep, Deal

\* A level that is approved stays approved, and only levels that are asked are.
LEMMA LevelsGrow ==
  ASSUME GInv, Types', Kept, NEW r
  PROVE  ApprovedLevels(r) \subseteq ApprovedLevels(r)' /\ ApprovedLevels(r)' \subseteq AskedLevels(r)
<1>1. \A a \in answers : a \in answers' /\ a.row \in 1..Len(rows) /\ Same(rows'[a.row], rows[a.row])
  BY DEF GInv, Types, InRange, Kept
<1>2. \A a \in answers' : a.row \in 1..Len(rows) /\ Same(rows'[a.row], rows[a.row])
  BY DEF Kept
<1>3. ApprovedLevels(r) \subseteq ApprovedLevels(r)'
  <2> SUFFICES ASSUME NEW level \in ApprovedLevels(r)
               PROVE  level \in ApprovedLevels(r)'
    OBVIOUS
  <2>1. PICK a \in answers : /\ level = rows[a.row].level /\ a.word = "Approve" /\ rows[a.row].req = r
                             /\ rows[a.row].mode = "gate" /\ MayDecide(a.by, rows[a.row])
    BY DEF ApprovedLevels
  <2>2. /\ a \in answers' /\ level = rows'[a.row].level /\ rows'[a.row].req = r
        /\ rows'[a.row].mode = "gate" /\ MayDecide(a.by, rows'[a.row])
    BY <1>1, <2>1 DEF Same, MayDecide
  <2> QED BY <2>1, <2>2 DEF ApprovedLevels, MayDecide
<1>4. ApprovedLevels(r)' \subseteq AskedLevels(r)
  <2> SUFFICES ASSUME NEW level \in ApprovedLevels(r)'
               PROVE  level \in AskedLevels(r)
    OBVIOUS
  <2>1. PICK a \in answers' : level = rows'[a.row].level /\ rows'[a.row].req = r /\ rows'[a.row].mode = "gate"
    BY DEF ApprovedLevels
  <2>2. /\ a.row \in 1..Len(rows)
        /\ rows[a.row].req = r /\ rows[a.row].mode = "gate" /\ rows[a.row].level = level
    BY <1>2, <2>1 DEF Same
  <2>3. RowStands(rows[a.row])
    BY <2>2 DEF GInv
  <2> QED BY <2>2, <2>3 DEF RowStands
<1> QED BY <1>3, <1>4

\* What was cleared stays so.
LEMMA ClearedStays ==
  ASSUME GInv, Types', Kept, NEW r, NEW flow, NEW at, NEW said, Cleared(r, flow, at, said)
  PROVE  Cleared(r, flow, at, said)'
<1> DEFINE Behind(op) == \E k \in 1..at : k <= Len(flow) /\ flow[k] = op
<1>1. ASSUME Behind("approval_gate")
      PROVE  ApprovedLevels(r)' = AskedLevels(r)
  <2>1. ApprovedLevels(r) = AskedLevels(r)
    BY <1>1 DEF Cleared
  <2> QED BY <2>1, LevelsGrow
<1>2. ASSUME Behind("otp_gate")
      PROVE  r \in proven'
  BY <1>2 DEF Cleared, Kept
<1>3. ASSUME Behind("ask_approval")
      PROVE  \E a \in answers' : rows'[a.row].req = r /\ rows'[a.row].mode = "answer" /\ a.word = said
  <2>1. PICK a \in answers : rows[a.row].req = r /\ rows[a.row].mode = "answer" /\ a.word = said
    BY <1>3 DEF Cleared
  <2>2. a \in answers' /\ Same(rows'[a.row], rows[a.row])
    BY DEF GInv, Types, InRange, Kept
  <2> QED BY <2>1, <2>2 DEF Same
<1> QED BY <1>1, <1>2, <1>3 DEF Cleared

LEMMA AnsweredStays ==
  ASSUME Types, Kept, NEW r, NEW said, Answered(r, said)
  PROVE  Answered(r, said)'
<1>1. \A a \in answers : a \in answers' /\ Same(rows'[a.row], rows[a.row])
  BY DEF Types, InRange, Kept
<1> QED BY <1>1 DEF Answered, Same

\* A request that is not excused after the step is carried out in the version it was.
LEMMA SameVersion ==
  ASSUME Kept, NEW r \in Requests, r <= opened, r \notin Excused'
  PROVE  r \notin Excused /\ published' = published
BY DEF Kept

LEMMA ThroughStays ==
  ASSUME GInv, Types', Kept, NEW r \in Requests, NEW at, NEW said, NEW op, r <= opened, ThroughGate(r, at, said, op)
  PROVE  ThroughGate(r, at, said, op)'
<1> SUFFICES ASSUME r \notin Excused'
             PROVE  ThroughGate(r, at, said, op)'
  BY DEF ThroughGate
<1>1. r \notin Excused /\ published' = published
  BY SameVersion
<1>2. at \in Nat /\ at \in 1..Len(published) /\ published[at] = op /\ Cleared(r, published, at - 1, said)
  BY <1>1 DEF ThroughGate
<1>3. Cleared(r, published, at - 1, said)'
  <2>1. \A flow : Cleared(r, flow, at - 1, said) => Cleared(r, flow, at - 1, said)'
    BY ClearedStays
  <2> QED BY <1>1, <1>2, <2>1
<1> QED BY <1>1, <1>2, <1>3 DEF ThroughGate

LEMMA OpenedStays ==
  ASSUME Types, Types', Kept, NEW r \in Requests, r <= opened
  PROVE  r <= opened'
BY RequestsAreNumbers DEF Kept, Types, TypeOK

LEMMA RunStays ==
  ASSUME GInv, Types', Kept, NEW t \in Runs, RunStands(t)
  PROVE  RunStands(t)'
<1>1. t.req \in Requests
  BY DEF Runs
<1>2. (t.req <= opened)'
  BY <1>1, OpenedStays DEF RunStands, GInv
<1>3. t.verified => t.req \in proven'
  BY DEF RunStands, Kept
<1>4. t.approved => ApprovedLevels(t.req)' = AskedLevels(t.req)
  <2>1. ApprovedLevels(t.req) \subseteq ApprovedLevels(t.req)' /\ ApprovedLevels(t.req)' \subseteq AskedLevels(t.req)
    BY LevelsGrow
  <2>2. t.approved => ApprovedLevels(t.req) = AskedLevels(t.req)
    BY DEF RunStands
  <2> QED BY <2>1, <2>2
<1>5. ASSUME t.req \notin Excused'
      PROVE  t.flow = published' /\ Cleared(t.req, t.flow, t.at, t.said)'
  <2>1. t.req \notin Excused /\ published' = published
    BY <1>1, <1>5, SameVersion DEF RunStands
  <2>2. t.flow = published /\ Cleared(t.req, t.flow, t.at, t.said)
    BY <2>1 DEF RunStands
  <2> QED BY <2>1, <2>2, ClearedStays
<1>6. Answered(t.req, t.said)'
  BY AnsweredStays DEF RunStands, GInv
<1> QED BY <1>2, <1>3, <1>4, <1>5, <1>6 DEF RunStands

LEMMA RowStays ==
  ASSUME GInv, Types', Kept, NEW row \in Rows, RowStands(row)
  PROVE  RowStands(row)'
<1> DEFINE op == IF row.mode = "gate" THEN "approval_gate" ELSE "ask_approval"
<1>1. row.req \in Requests /\ row.req <= opened /\ ThroughGate(row.req, row.at, row.said, op)
  BY DEF RowStands, Rows
<1>2. (row.req <= opened)'
  BY <1>1, OpenedStays DEF GInv
<1>3. ThroughGate(row.req, row.at, row.said, op)'
  BY <1>1, ThroughStays
<1>4. row.mode = "gate" =>
        /\ row.level \in AskedLevels(row.req)
        /\ \A j \in AskedLevels(row.req) : j < row.level => j \in ApprovedLevels(row.req)'
  <2>1. ApprovedLevels(row.req) \subseteq ApprovedLevels(row.req)'
    BY LevelsGrow
  <2> QED BY <2>1 DEF RowStands
<1>5. Answered(row.req, row.said)'
  BY AnsweredStays DEF RowStands, GInv
<1> QED BY <1>2, <1>3, <1>4, <1>5 DEF RowStands

\* Nothing depends on the status of a row.
LEMMA SameStands ==
  ASSUME NEW row, NEW old, Same(row, old), RowStands(old)'
  PROVE  RowStands(row)'
BY DEF Same, RowStands

LEMMA RowsStay ==
  ASSUME GInv, Types', Kept, NEW i \in 1..Len(rows)
  PROVE  RowStands(rows[i])'
<1>1. PICK old \in Rows : old = rows[i]
  BY RowParts DEF GInv, Types, TypeOK
<1>2. RowStands(old)
  BY <1>1 DEF GInv
<1>3. RowStands(old)'
  BY <1>2, RowStays
<1>4. PICK row : row = rows'[i]
  OBVIOUS
<1>5. RowStands(row)'
  BY <1>1, <1>3, <1>4, SameStands DEF Kept
<1> QED BY <1>4, <1>5

LEMMA TapStays ==
  ASSUME Types, Kept, NEW p, NEW t, t.row \in 1..Len(rows), TapStands(p, t)
  PROVE  TapStands(p, t)'
<1>1. Same(rows'[t.row], rows[t.row]) /\ answers \subseteq answers'
  BY DEF Kept
<1> QED BY <1>1 DEF TapStands, Same, MayDecide

LEMMA CardStays ==
  ASSUME GInv, Types', Kept, NEW c \in Cards, CardStands(c)
  PROVE  CardStands(c)'
<1>1. c.req \in Requests /\ c.req <= opened
  BY DEF CardStands, Cards
<1>2. (c.req <= opened)'
  BY <1>1, OpenedStays DEF GInv
<1>3. c.stage = "awaiting_otp" => ThroughGate(c.req, c.at, None, "otp_gate")'
  BY <1>1, ThroughStays DEF CardStands
<1>4. c.stage = "awaiting_confirmation" => c.at = 0 \/ c.req \in Excused'
  BY DEF CardStands, Kept
<1> QED BY <1>2, <1>3, <1>4 DEF CardStands

-----------------------------------------------------------------------------
(* What is new stands *)

\* One step more is cleared if it is no gate, or what it asks for is there.
LEMMA ClearedNext ==
  ASSUME NEW r, NEW flow, NEW at \in Nat, NEW said, Cleared(r, flow, at, said),
         flow[at + 1] = "approval_gate" => ApprovedLevels(r) = AskedLevels(r),
         flow[at + 1] = "otp_gate" => r \in proven,
         flow[at + 1] = "ask_approval" =>
           \E a \in answers : rows[a.row].req = r /\ rows[a.row].mode = "answer" /\ a.word = said
  PROVE  Cleared(r, flow, at + 1, said)
<1>1. \A k \in 1..(at + 1) : k \in 1..at \/ k = at + 1
  OBVIOUS
<1> QED BY <1>1 DEF Cleared

LEMMA FlowParts ==
  ASSUME NEW t \in Runs, ~Over(t)
  PROVE  t.at \in Nat /\ t.at + 1 \in 1..Len(t.flow) /\ t.req \in Requests
<1>1. t.at \in Nat /\ t.flow \in Seq(STRING) /\ t.req \in Requests
  BY FlowsAreSequences DEF Runs
<1>2. Len(t.flow) \in Nat
  BY <1>1
<1> QED BY <1>1, <1>2 DEF Over

\* A run goes past a step that is no gate, or whose gate is open to it.
LEMMA PastStands ==
  ASSUME NEW t \in Runs, RunStands(t), ~Over(t),
         t.inner = 0 =>
           /\ t.flow[t.at + 1] = "approval_gate" => ApprovedLevels(t.req) = AskedLevels(t.req)
           /\ t.flow[t.at + 1] = "otp_gate" => t.req \in proven
           /\ t.flow[t.at + 1] = "ask_approval" => t.said \in Words
  PROVE  RunStands(Past(t))
<1>1. /\ Past(t).req = t.req /\ Past(t).flow = t.flow /\ Past(t).said = t.said
      /\ Past(t).verified = t.verified /\ Past(t).approved = t.approved
  BY PastType
<1>2. t.at \in Nat /\ t.inner \in Nat
  BY DEF Runs
<1>3. CASE Past(t).at = t.at /\ Past(t).inner > 0 /\ t.inner > 0
  BY <1>1, <1>3 DEF RunStands, Over
<1>4. CASE Past(t).at = t.at + 1 /\ Past(t).inner = 0
  <2>1. t.inner > 0 => t.flow[t.at + 1] = "run_workflow"
    BY DEF RunStands
  <2>2. ASSUME t.req \notin Excused
        PROVE  t.flow = published /\ Cleared(t.req, t.flow, t.at + 1, t.said)
    <3>1. t.flow = published /\ Cleared(t.req, t.flow, t.at, t.said)
      BY <2>2 DEF RunStands
    <3>2. /\ t.flow[t.at + 1] = "approval_gate" => ApprovedLevels(t.req) = AskedLevels(t.req)
          /\ t.flow[t.at + 1] = "otp_gate" => t.req \in proven
          /\ t.flow[t.at + 1] = "ask_approval" =>
               \E a \in answers : rows[a.row].req = t.req /\ rows[a.row].mode = "answer" /\ a.word = t.said
      BY <1>2, <2>1 DEF RunStands, Answered
    <3> QED BY <1>2, <3>1, <3>2, ClearedNext
  <2>3. ~(Past(t).inner > 0)
    BY <1>4
  <2> QED BY <1>1, <1>4, <2>2, <2>3 DEF RunStands
<1> QED BY <1>3, <1>4, PastType

LEMMA ApprovedAreAsked ==
  ASSUME GInv, NEW r
  PROVE  ApprovedLevels(r) \subseteq AskedLevels(r)
<1> SUFFICES ASSUME NEW level \in ApprovedLevels(r)
             PROVE  level \in AskedLevels(r)
  OBVIOUS
<1>1. PICK a \in answers : level = rows[a.row].level /\ rows[a.row].req = r /\ rows[a.row].mode = "gate"
  BY DEF ApprovedLevels
<1>2. RowStands(rows[a.row])
  BY DEF GInv, Types, InRange
<1> QED BY <1>1, <1>2 DEF RowStands

\* The levels up to one that is being approved are approved.
LEMMA LevelApproved ==
  ASSUME GInv, NEW p \in People, Settled(p, "gate"),
         NEW j \in AskedLevels(rows[tap[p].row].req), j <= rows[tap[p].row].level
  PROVE  j \in ApprovedLevels(rows[tap[p].row].req)
<1> DEFINE row == rows[tap[p].row]
<1>1. tap[p] # None /\ tap[p].settled /\ row.mode = "gate" /\ tap[p].row \in 1..Len(rows)
  BY DEF Settled, GInv, Types, InRange
<1>2. row.level \in Nat /\ j \in Nat
  BY <1>1, RowParts, AskedLevelsAreLevels DEF GInv, Types, TypeOK
<1>3. CASE j < row.level
  BY <1>1, <1>3 DEF GInv, RowStands
<1>4. CASE j = row.level
  <2>1. /\ MayDecide(p, row) /\ tap[p].word = "Approve"
        /\ [row |-> tap[p].row, by |-> p, word |-> tap[p].word] \in answers
    BY <1>1 DEF GInv, TapStands
  <2>2. PICK a \in answers : a.row = tap[p].row /\ a.by = p /\ a.word = "Approve"
    BY <2>1
  <2>3. rows[a.row].req = row.req /\ rows[a.row].mode = "gate" /\ MayDecide(a.by, rows[a.row]) /\ rows[a.row].level = j
    BY <1>1, <1>4, <2>1, <2>2
  <2> QED BY <2>2, <2>3 DEF ApprovedLevels
<1> QED BY <1>2, <1>3, <1>4

LEMMA NewRowParts ==
  ASSUME NEW t, NEW mode, NEW level, NEW at, NEW role, NEW told
  PROVE  LET row == NewRow(t, mode, level, at, role, told)
         IN  row.req = t.req /\ row.mode = mode /\ row.level = level /\ row.at = at /\ row.told = told /\ row.said = t.said
BY DEF NewRow

\* A run halts at a gate: everything before the gate is cleared.
LEMMA HaltsThrough ==
  ASSUME GInv, NEW p \in People, NEW op, At(p, op), run[p].inner = 0
  PROVE  /\ run[p].req \in Requests /\ run[p].req <= opened /\ run[p].at \in Nat
         /\ ThroughGate(run[p].req, run[p].at + 1, run[p].said, op)
<1>1. run[p] # None /\ ~Over(run[p]) /\ run[p].flow[run[p].at + 1] = op
  BY DEF At, Op
<1>2. run[p] \in Runs /\ RunStands(run[p])
  BY <1>1, RunParts DEF GInv, Types
<1>3. run[p].at \in Nat /\ run[p].at + 1 \in 1..Len(run[p].flow) /\ run[p].req \in Requests
  BY <1>1, <1>2, FlowParts
<1>4. (run[p].at + 1) - 1 = run[p].at /\ run[p].at + 1 \in Nat
  BY <1>3
<1> QED BY <1>1, <1>2, <1>3, <1>4 DEF RunStands, ThroughGate

\* The runs a step begins, or takes one step further.
LEMMA PassStands ==
  ASSUME GInv, NEW p \in People, Save(p) \/ Pass(p)
  PROVE  \E t \in Runs : RunStands(t) /\ run' = [run EXCEPT ![p] = t] /\ t.said = run[p].said
<1>1. run[p] # None /\ ~Over(run[p])
  BY DEF Save, Pass, At
<1>2. run[p] \in Runs /\ RunStands(run[p]) /\ Past(run[p]) \in Runs /\ Past(run[p]).said = run[p].said
  BY <1>1, RunParts, PastType DEF GInv, Types
<1>3. run[p].inner = 0 => Op(run[p]) = run[p].flow[run[p].at + 1]
  BY DEF Op
<1>4. ASSUME run' = [run EXCEPT ![p] = Past(run[p])],
             run[p].inner = 0 =>
               /\ run[p].flow[run[p].at + 1] = "approval_gate" => ApprovedLevels(run[p].req) = AskedLevels(run[p].req)
               /\ run[p].flow[run[p].at + 1] = "otp_gate" => run[p].req \in proven
               /\ run[p].flow[run[p].at + 1] = "ask_approval" => run[p].said \in Words
      PROVE  \E t \in Runs : RunStands(t) /\ run' = [run EXCEPT ![p] = t] /\ t.said = run[p].said
  BY <1>1, <1>2, <1>4, PastStands
<1>5. ASSUME NEW s \in Saves, At(p, s), run' = [run EXCEPT ![p] = Past(run[p])]
      PROVE  \E t \in Runs : RunStands(t) /\ run' = [run EXCEPT ![p] = t] /\ t.said = run[p].said
  <2>1. run[p].inner = 0 => run[p].flow[run[p].at + 1] \notin {"approval_gate", "otp_gate", "ask_approval"}
    BY <1>3, <1>5, SavesAreNoGates DEF At
  <2> QED BY <1>4, <1>5, <2>1
<1>6. CASE Save(p)
  BY <1>5, <1>6 DEF Save
<1>7. CASE At(p, "run_workflow") /\ run[p].inner = 0 /\ run' = [run EXCEPT ![p].inner = 1]
  <2> DEFINE t == [run[p] EXCEPT !.inner = 1]
  <2>1. /\ t \in Runs /\ t.inner = 1 /\ t.at = run[p].at /\ t.req = run[p].req /\ t.flow = run[p].flow
        /\ t.said = run[p].said /\ t.verified = run[p].verified /\ t.approved = run[p].approved
    BY <1>2 DEF Runs
  <2>2. run' = [run EXCEPT ![p] = t]
    BY <1>7
  <2>3. run[p].flow[run[p].at + 1] = "run_workflow"
    BY <1>3, <1>7 DEF At
  <2> HIDE DEF t
  <2>4. RunStands(t)
    BY <1>1, <1>2, <2>1, <2>3 DEF RunStands, Over
  <2> QED BY <2>1, <2>2, <2>4
<1>8. CASE At(p, "notify") /\ run' = [run EXCEPT ![p] = Past(run[p])]
  <2>1. run[p].inner = 0 => run[p].flow[run[p].at + 1] = "notify"
    BY <1>3, <1>8 DEF At
  <2> QED BY <1>4, <1>8, <2>1
<1>9. CASE At(p, "otp_gate") /\ run[p].verified /\ run[p].inner = 0 /\ run' = [run EXCEPT ![p] = Past(run[p])]
  <2>1. run[p].flow[run[p].at + 1] = "otp_gate" /\ run[p].req \in proven
    BY <1>2, <1>3, <1>9 DEF At, RunStands
  <2> QED BY <1>4, <1>9, <2>1
<1>10. CASE /\ At(p, "approval_gate") /\ (run[p].approved \/ AskedLevels(run[p].req) = {})
            /\ run[p].inner = 0 /\ run' = [run EXCEPT ![p] = Past(run[p])]
  <2>1. run[p].flow[run[p].at + 1] = "approval_gate"
    BY <1>3, <1>10 DEF At
  <2>2. ApprovedLevels(run[p].req) \subseteq AskedLevels(run[p].req)
    BY ApprovedAreAsked
  <2>3. ApprovedLevels(run[p].req) = AskedLevels(run[p].req)
    BY <1>2, <1>10, <2>2 DEF RunStands
  <2> QED BY <1>4, <1>10, <2>1, <2>3
<1>11. CASE At(p, "ask_approval") /\ run[p].said \in Words /\ run' = [run EXCEPT ![p] = Past(run[p])]
  <2>1. run[p].inner = 0 => run[p].flow[run[p].at + 1] = "ask_approval"
    BY <1>3, <1>11 DEF At
  <2> QED BY <1>4, <1>11, <2>1
<1>12. CASE \E s \in Saves : At(p, s) /\ Waits(s, run[p]) /\ run' = [run EXCEPT ![p] = Past(run[p])]
  BY <1>5, <1>12
<1> QED BY <1>6, <1>7, <1>8, <1>9, <1>10, <1>11, <1>12 DEF Pass

LEMMA ResumeStands ==
  ASSUME GInv, NEW p \in People, Resume(p), published # None
  PROVE  \E t \in Runs : RunStands(t) /\ run' = [run EXCEPT ![p] = t] /\ p # Asker
<1> DEFINE row == rows[tap[p].row]
           said == IF row.mode = "answer" THEN tap[p].word ELSE row.said
           t == NewRun(row.req, row.at, row.mode = "gate", FALSE, said)
<1>1. /\ tap[p] # None /\ tap[p].settled /\ tap[p].row \in 1..Len(rows) /\ tap[p].word \in Words
      /\ tap[p] \in Taps
  BY DEF Resume, Settled, GInv, Types, TypeOK, InRange, Taps
<1>2. /\ row.req \in Requests /\ row.at \in Nat /\ row.said \in Words \cup {None} /\ row.mode \in {"gate", "answer"}
      /\ RowStands(row) /\ row.level \in Nat
  BY <1>1, RowParts DEF GInv, Types, TypeOK
<1>3. run' = [run EXCEPT ![p] = t]
  BY DEF Resume
<1>4. t \in Runs
  BY <1>1, <1>2, NewRunType DEF GInv, Types
<1>5. t.req = row.req /\ t.flow = published /\ t.at = row.at /\ t.inner = 0 /\ t.approved = (row.mode = "gate")
      /\ t.verified = FALSE /\ t.said = said
  BY DEF NewRun
<1>6. ASSUME row.mode = "answer"
      PROVE  \E a \in answers : rows[a.row].req = row.req /\ rows[a.row].mode = "answer" /\ a.word = said
  <2>1. [row |-> tap[p].row, by |-> p, word |-> tap[p].word] \in answers
    BY <1>1 DEF GInv, TapStands
  <2>2. PICK a \in answers : a.row = tap[p].row /\ a.word = tap[p].word
    BY <2>1
  <2> QED BY <1>6, <2>2
<1>7. Answered(row.req, said)
  BY <1>2, <1>6 DEF RowStands, Answered
<1>8. ASSUME row.mode = "gate"
      PROVE  ApprovedLevels(row.req) = AskedLevels(row.req)
  <2>1. Settled(p, "gate") /\ LevelsAfter(row) = {}
    BY <1>8 DEF Resume, Settled
  <2>2. \A j \in AskedLevels(row.req) : j \in Nat /\ j <= row.level
    BY <1>2, <2>1, AskedLevelsAreLevels DEF LevelsAfter
  <2>3. \A j \in AskedLevels(row.req) : j \in ApprovedLevels(row.req)
    BY <2>1, <2>2, LevelApproved
  <2> QED BY <2>3, ApprovedAreAsked
<1>9. ASSUME row.req \notin Excused
      PROVE  Cleared(row.req, published, row.at, said)
  <2> DEFINE op == IF row.mode = "gate" THEN "approval_gate" ELSE "ask_approval"
             at == row.at - 1
  <2>1. row.at \in 1..Len(published) /\ published[row.at] = op /\ Cleared(row.req, published, at, row.said)
    BY <1>2, <1>9 DEF RowStands, ThroughGate
  <2>2. at \in Nat /\ at + 1 = row.at
    BY <1>2, <2>1
  <2>3. Cleared(row.req, published, at, said)
    BY <1>6, <2>1 DEF Cleared
  <2> HIDE DEF at, said, row
  <2>4. Cleared(row.req, published, at + 1, said)
    BY <1>2, <1>6, <1>8, <2>1, <2>2, <2>3, ClearedNext
  <2> QED BY <2>2, <2>4
<1>10. RunStands(t)
  <2> HIDE DEF t, said, row
  <2>1. t.req <= opened /\ Answered(t.req, t.said) /\ ~t.verified /\ ~(t.inner > 0)
    BY <1>2, <1>5, <1>7 DEF RowStands
  <2>2. t.approved => ApprovedLevels(t.req) = AskedLevels(t.req)
    BY <1>5, <1>8
  <2>3. t.req \notin Excused => t.flow = published /\ Cleared(t.req, t.flow, t.at, t.said)
    BY <1>5, <1>9
  <2> QED BY <2>1, <2>2, <2>3 DEF RunStands
<1>11. p # Asker
  BY <1>1 DEF GInv, AskersOwn
<1> QED BY <1>3, <1>4, <1>10, <1>11

-----------------------------------------------------------------------------
(* The parts of the invariant, step by step *)

RunsStand == \A p \in People : run[p] # None => RunStands(run[p])

AllRowsStand == \A i \in 1..Len(rows) : RowStands(rows[i])

TapsStand == \A p \in People : tap[p] # None => TapStands(p, tap[p])

LEMMA RunsStay ==
  ASSUME GInv, Types', Kept, NEW p \in People, run'[p] = run[p], run[p] # None
  PROVE  RunStands(run[p])'
<1>1. PICK t \in Runs : t = run[p]
  BY DEF GInv, Types, TypeOK
<1>2. RunStands(t)
  BY <1>1 DEF GInv
<1> QED BY <1>1, <1>2, RunStays

LEMMA RunsGoOn ==
  ASSUME GInv, Types', Kept, NEW p \in People,
         \/ run' = run
         \/ run' = [run EXCEPT ![p] = None]
         \/ \E t \in Runs : run' = [run EXCEPT ![p] = t] /\ (RunStands(t) \/ RunStands(t)')
  PROVE  RunsStand'
<1>1. run \in [People -> Runs \cup {None}]
  BY DEF GInv, Types, TypeOK
<1>2. \A q \in People \ {p} : run'[q] = run[q]
  BY <1>1
<1>3. \A q \in People : run'[q] = run[q] /\ run'[q] # None => RunStands(run[q])'
  BY RunsStay
<1>4. run'[p] = run[p] \/ run'[p] = None \/ RunStands(run[p])'
  <2>1. ASSUME NEW t \in Runs, run' = [run EXCEPT ![p] = t], RunStands(t) \/ RunStands(t)'
        PROVE  RunStands(run[p])'
    <3>1. run'[p] = t
      BY <1>1, <2>1
    <3>2. RunStands(t)'
      BY <2>1, RunStays
    <3> QED BY <3>1, <3>2
  <2> QED BY <1>1, <2>1
<1> QED BY <1>2, <1>3, <1>4 DEF RunsStand

\* A yes or a code after which nothing runs, as the workflow is switched off.
LEMMA NoRun ==
  ASSUME GInv, Types', Kept, tap' = tap, run' = run
  PROVE  RunsStand' /\ AskersOwn'
<1>1. RunsStand'
  BY AskerIsAPerson, RunsGoOn
<1>2. AskersOwn'
  BY DEF AskersOwn, GInv
<1> QED BY <1>1, <1>2

LEMMA Confirm_Runs ==
  ASSUME GInv, Types', Kept, Confirm
  PROVE  RunsStand' /\ AskersOwn'
<1>1. CASE published = None
  <2>1. tap' = tap /\ run' = run
    BY <1>1 DEF Confirm, CarryOut
  <2> QED BY <2>1, NoRun
<1>2. CASE published # None
  <2>1. /\ card \in Cards /\ card.req \in Requests /\ card.at \in Nat /\ card.req <= opened
        /\ card.at = 0 \/ card.req \in Excused
    BY CardParts DEF Confirm, GInv, Types, CardStands
  <2>2. PICK t \in Runs : t = NewRun(card.req, card.at, FALSE, FALSE, None)
    BY <1>2, <2>1, NewRunType DEF GInv, Types
  <2>3. run' = [run EXCEPT ![Asker] = t] /\ tap' = tap
    BY <1>2, <2>2 DEF Confirm, CarryOut
  <2>4. /\ t.req = card.req /\ t.flow = published /\ t.at = card.at /\ t.inner = 0 /\ ~t.approved /\ ~t.verified
        /\ t.said = None
    BY <2>2 DEF NewRun
  <2>5. t.at = 0 => Cleared(t.req, t.flow, t.at, t.said)
    BY DEF Cleared
  <2>6. Answered(t.req, t.said)
    BY <2>4, NoneIsApart DEF Answered, Words
  <2>7. RunStands(t)
    BY <2>1, <2>4, <2>5, <2>6 DEF RunStands
  <2>8. RunsStand'
    BY <2>3, <2>7, AskerIsAPerson, RunsGoOn
  <2>9. AskersOwn'
    BY <2>3, <2>4, AskerIsAPerson DEF AskersOwn, GInv, Types, TypeOK
  <2> QED BY <2>8, <2>9
<1> QED BY <1>1, <1>2

\* The code that is given clears the gate that asked for it.
LEMMA CodeClears ==
  ASSUME NEW r, NEW flow, NEW at \in Nat, NEW said, Cleared(r, flow, at - 1, said), flow[at] = "otp_gate",
         rows' = rows, answers' = answers, r \in proven'
  PROVE  Cleared(r, flow, at, said)'
<1>1. ApprovedLevels(r)' = ApprovedLevels(r)
  BY DEF ApprovedLevels, MayDecide
<1>2. \A k \in 1..at : k \in 1..(at - 1) \/ k = at
  OBVIOUS
<1> QED BY <1>1, <1>2 DEF Cleared

LEMMA EnterCode_Runs ==
  ASSUME GInv, Types', Kept, EnterCode
  PROVE  RunsStand' /\ AskersOwn'
<1>1. CASE published = None
  <2>1. tap' = tap /\ run' = run
    BY <1>1 DEF EnterCode, CarryOut
  <2> QED BY <2>1, NoRun
<1>2. CASE published # None
  <2>1. card \in Cards /\ card.req \in Requests /\ card.at \in Nat /\ card.req <= opened
        /\ ThroughGate(card.req, card.at, None, "otp_gate")
    BY CardParts DEF EnterCode, GInv, Types, CardStands
  <2>2. PICK t \in Runs : t = NewRun(card.req, card.at, FALSE, TRUE, None)
    BY <1>2, <2>1, NewRunType DEF GInv, Types
  <2>3. t.req = card.req /\ t.flow = published /\ t.at = card.at /\ t.inner = 0 /\ ~t.approved /\ t.verified /\ t.said = None
    BY <2>2 DEF NewRun
  <2>4. /\ published' = published /\ edited' = edited /\ renewed' = renewed /\ rows' = rows /\ answers' = answers
        /\ opened' = opened /\ tap' = tap
    BY DEF EnterCode, bounds, asks
  <2>5. t.req \in proven' /\ run' = [run EXCEPT ![Asker] = t]
    BY <1>2, <2>2, <2>3 DEF EnterCode, CarryOut
  <2>6. ASSUME t.req \notin Excused
        PROVE  Cleared(t.req, t.flow, t.at, t.said)'
    <3>1. t.flow[t.at] = "otp_gate" /\ Cleared(t.req, t.flow, t.at - 1, t.said)
      BY <2>1, <2>3, <2>6 DEF ThroughGate
    <3> QED BY <2>1, <2>3, <2>4, <2>5, <3>1, CodeClears
  <2>7. Answered(t.req, t.said)'
    BY <2>3, NoneIsApart DEF Answered, Words
  <2>8. RunStands(t)'
    BY <2>1, <2>3, <2>4, <2>5, <2>6, <2>7 DEF RunStands, Excused
  <2>9. RunsStand'
    BY <2>5, <2>8, AskerIsAPerson, RunsGoOn
  <2>10. AskersOwn'
    BY <2>3, <2>4, <2>5, AskerIsAPerson DEF AskersOwn, GInv, Types, TypeOK
  <2> QED BY <2>9, <2>10
<1> QED BY <1>1, <1>2

LEMMA Next_Runs ==
  ASSUME GInv, Types', Kept, [Next]_vars
  PROVE  RunsStand' /\ AskersOwn'
<1>1. CASE Confirm
  BY <1>1, Confirm_Runs
<1>2. CASE EnterCode
  BY <1>2, EnterCode_Runs
<1>3. ASSUME tap' = tap \/ \E p \in People : tap' = [tap EXCEPT ![p] = None],
             run' = run \/ \E p \in People : run' = [run EXCEPT ![p] = None]
      PROVE  RunsStand' /\ AskersOwn'
  <2>1. RunsStand'
    BY <1>3, AskerIsAPerson, RunsGoOn
  <2>2. AskersOwn'
    BY <1>3, AskerIsAPerson DEF AskersOwn, GInv, Types, TypeOK
  <2> QED BY <2>1, <2>2
<1>4. CASE Chats /\ ~Confirm /\ ~EnterCode
  <2>1. tap' = tap /\ (run' = run \/ \E p \in People : run' = [run EXCEPT ![p] = None])
    BY <1>4, AskerIsAPerson DEF Chats, Open, ConfirmAgain, LoseCard, Rehydrate, Cancel, Raise, ClaimRunsOut
  <2> QED BY <1>3, <2>1
<1>5. ASSUME NEW p \in People, Save(p) \/ Pass(p)
      PROVE  RunsStand' /\ AskersOwn'
  <2>1. PICK t \in Runs : RunStands(t) /\ run' = [run EXCEPT ![p] = t] /\ t.said = run[p].said
    BY <1>5, PassStands
  <2>2. run[p] # None /\ tap' = tap
    BY <1>5 DEF Save, Pass, At
  <2>3. RunsStand'
    BY <2>1, RunsGoOn
  <2>4. AskersOwn'
    BY <2>1, <2>2, AskerIsAPerson DEF AskersOwn, GInv, Types, TypeOK
  <2> QED BY <2>3, <2>4
<1>6. ASSUME NEW p \in People, Fail(p) \/ Refuse(p) \/ Finish(p) \/ CodeGate(p) \/ ApprovalGate(p) \/ AskApproval(p)
      PROVE  RunsStand' /\ AskersOwn'
  <2>1. tap' = tap /\ run' = [run EXCEPT ![p] = None]
    BY <1>6 DEF Fail, Refuse, Finish, CodeGate, ApprovalGate, AskApproval, Closes, Halts, Ends
  <2> QED BY <1>3, <2>1
<1>7. ASSUME NEW p \in People, Escalate(p) \/ Die(p)
      PROVE  RunsStand' /\ AskersOwn'
  <2>1. tap' = [tap EXCEPT ![p] = None] /\ (run' = run \/ run' = [run EXCEPT ![p] = None])
    BY <1>7 DEF Escalate, Die
  <2> QED BY <1>3, <2>1
<1>8. ASSUME NEW p \in People, Resume(p)
      PROVE  RunsStand' /\ AskersOwn'
  <2>1. tap' = [tap EXCEPT ![p] = None] /\ (published = None => run' = run)
    BY <1>8 DEF Resume
  <2>2. CASE published = None
    BY <1>3, <2>1, <2>2
  <2>3. CASE published # None
    <3>1. PICK t \in Runs : RunStands(t) /\ run' = [run EXCEPT ![p] = t] /\ p # Asker
      BY <1>8, <2>3, ResumeStands
    <3>2. RunsStand'
      BY <3>1, RunsGoOn
    <3>3. AskersOwn'
      BY <2>1, <3>1, AskerIsAPerson DEF AskersOwn, GInv, Types, TypeOK
    <3> QED BY <3>2, <3>3
  <2> QED BY <2>2, <2>3
<1>9. ASSUME NEW p \in People, Decide(p) \/ Answer(p)
      PROVE  RunsStand' /\ AskersOwn'
  <2>1. tap[p] # None /\ run' = run
    BY <1>9 DEF Decide, Answer
  <2>2. p # Asker
    BY <2>1 DEF GInv, AskersOwn
  <2>3. tap'[Asker] = tap[Asker]
    BY <1>9, <2>2, AskerIsAPerson DEF Decide, Answer, GInv, Types, TypeOK
  <2>4. AskersOwn'
    BY <2>1, <2>3 DEF AskersOwn, GInv
  <2> QED BY <2>1, <2>4, AskerIsAPerson, RunsGoOn
<1>10. ASSUME NEW p \in People, NEW i \in 1..Len(rows), NEW word \in Words, Tap(p, i, word)
       PROVE  RunsStand' /\ AskersOwn'
  <2>1. RowStands(rows[i]) /\ rows[i].mode \in {"gate", "answer"}
    BY RowParts DEF GInv, Types, TypeOK
  <2>2. p # Asker
    BY <1>10, <2>1 DEF Tap, RowStands, MayDecide
  <2>3. tap'[Asker] = tap[Asker] /\ run' = run
    BY <1>10, <2>2, AskerIsAPerson DEF Tap, GInv, Types, TypeOK
  <2>4. AskersOwn'
    BY <2>3 DEF AskersOwn, GInv
  <2> QED BY <2>3, <2>4, AskerIsAPerson, RunsGoOn
<1>11. CASE (\E f \in Flows \cup {None} : Publish(f)) \/ UNCHANGED vars
  <2>1. tap' = tap /\ run' = run
    BY <1>11 DEF Publish, vars
  <2> QED BY <1>3, <2>1
<1> QED BY <1>1, <1>2, <1>4, <1>5, <1>6, <1>7, <1>8, <1>9, <1>10, <1>11 DEF Next, Chats, RunStep, Deal

\* Rows that stay, and at most one that is new.
LEMMA RowsGoOn ==
  ASSUME GInv, Types', Kept,
         Len(rows') = Len(rows) \/ \E row \in Rows : rows' = Append(rows, row) /\ RowStands(row)
  PROVE  AllRowsStand'
<1>1. \A i \in 1..Len(rows) : RowStands(rows[i])'
  BY RowsStay
<1>2. ASSUME NEW row \in Rows, rows' = Append(rows, row), RowStands(row)
      PROVE  AllRowsStand'
  <2>1. Len(rows') = Len(rows) + 1 /\ rows'[Len(rows) + 1] = row /\ Len(rows) \in Nat
    BY <1>2, Appended DEF GInv, Types, TypeOK
  <2>2. RowStands(row)'
    BY <1>2, RowStays
  <2>3. \A i \in 1..Len(rows') : i \in 1..Len(rows) \/ rows'[i] = row
    BY <2>1
  <2> QED BY <1>1, <2>2, <2>3 DEF AllRowsStand
<1> QED BY <1>1, <1>2 DEF AllRowsStand

LEMMA Gate_Rows ==
  ASSUME GInv, Types', Kept, NEW p \in People, ApprovalGate(p)
  PROVE  AllRowsStand'
<1>1. PICK i \in Earliest(AskedLevels(run[p].req)), role \in Named, told \in SUBSET People :
        /\ NewRow(run[p], "gate", i, run[p].at + 1, role, told) \in Rows
        /\ rows' = Append(rows, NewRow(run[p], "gate", i, run[p].at + 1, role, told))
  BY GateRow DEF GInv
<1>2. PICK row \in Rows : row = NewRow(run[p], "gate", i, run[p].at + 1, role, told)
  BY <1>1
<1>3. row.req = run[p].req /\ row.mode = "gate" /\ row.level = i /\ row.at = run[p].at + 1 /\ row.said = run[p].said
  BY <1>2, NewRowParts
<1>4. /\ run[p].req <= opened /\ ThroughGate(run[p].req, run[p].at + 1, run[p].said, "approval_gate")
  BY HaltsThrough DEF ApprovalGate
<1>5. Answered(run[p].req, run[p].said)
  BY DEF ApprovalGate, At, GInv, RunStands
<1>6. i \in AskedLevels(run[p].req) /\ \A j \in AskedLevels(run[p].req) : j \in Nat /\ i <= j /\ i \in Nat
  BY <1>1, AskedLevelsAreLevels DEF Earliest
<1>7. RowStands(row)
  BY <1>3, <1>4, <1>5, <1>6 DEF RowStands
<1> QED BY <1>1, <1>2, <1>7, RowsGoOn

LEMMA Ask_Rows ==
  ASSUME GInv, Types', Kept, NEW p \in People, AskApproval(p)
  PROVE  AllRowsStand'
<1>1. PICK row \in Rows : /\ row = NewRow(run[p], "answer", 1, run[p].at + 1, Anyone, Asked \ {Asker})
                          /\ rows' = Append(rows, row)
  BY AskRow DEF GInv
<1>2. /\ row.req = run[p].req /\ row.mode = "answer" /\ row.at = run[p].at + 1 /\ row.said = run[p].said
      /\ Asker \notin row.told
  BY <1>1, NewRowParts
<1>3. /\ run[p].req <= opened /\ ThroughGate(run[p].req, run[p].at + 1, run[p].said, "ask_approval")
  BY HaltsThrough DEF AskApproval
<1>4. Answered(run[p].req, run[p].said)
  BY DEF AskApproval, At, GInv, RunStands
<1>5. RowStands(row)
  BY <1>2, <1>3, <1>4 DEF RowStands
<1> QED BY <1>1, <1>5, RowsGoOn

LEMMA Escalate_Rows ==
  ASSUME GInv, Types', Kept, NEW p \in People, Escalate(p)
  PROVE  AllRowsStand'
<1> DEFINE old == rows[tap[p].row]
<1>1. PICK i \in Earliest(LevelsAfter(old)), role \in Named, told \in SUBSET People :
        /\ NewRow(old, "gate", i, old.at, role, told) \in Rows
        /\ rows' = Append(rows, NewRow(old, "gate", i, old.at, role, told))
  BY NextRow DEF GInv
<1>2. PICK row \in Rows : row = NewRow(old, "gate", i, old.at, role, told)
  BY <1>1
<1>3. row.req = old.req /\ row.mode = "gate" /\ row.level = i /\ row.at = old.at /\ row.said = old.said
  BY <1>2, NewRowParts
<1>4. Settled(p, "gate") /\ old.mode = "gate" /\ tap[p].row \in 1..Len(rows)
  BY DEF Escalate, Settled, GInv, Types, InRange
<1>5. RowStands(old) /\ old.level \in Nat
  BY <1>4, RowParts DEF GInv, Types, TypeOK
<1>6. i \in AskedLevels(old.req) /\ \A j \in AskedLevels(old.req) : j \in Nat /\ (j < i => j <= old.level)
  BY <1>1, <1>5, AskedLevelsAreLevels DEF Earliest, LevelsAfter
<1>7. \A j \in AskedLevels(old.req) : j < i => j \in ApprovedLevels(old.req)
  BY <1>4, <1>6, LevelApproved
<1>8. RowStands(row)
  <2> HIDE DEF old
  <2> QED BY <1>3, <1>4, <1>5, <1>6, <1>7 DEF RowStands
<1> QED BY <1>1, <1>2, <1>8, RowsGoOn

LEMMA Next_Rows ==
  ASSUME GInv, Types', Kept, [Next]_vars
  PROVE  AllRowsStand'
<1>1. CASE Chats
  <2>1. rows' = rows
    BY <1>1 DEF Chats, Open, ConfirmAgain, LoseCard, Rehydrate, Confirm, EnterCode, Cancel, Raise, ClaimRunsOut
  <2> QED BY <2>1, RowsGoOn
<1>2. ASSUME NEW p \in People,
             \/ Save(p) \/ Pass(p) \/ Fail(p) \/ Refuse(p) \/ Finish(p) \/ CodeGate(p) \/ Resume(p) \/ Die(p)
             \/ Answer(p) /\ rows[tap[p].row].status # "pending"
      PROVE  AllRowsStand'
  <2>1. rows' = rows
    BY <1>2 DEF Save, Pass, Fail, Refuse, Finish, CodeGate, Resume, Die, Answer
  <2> QED BY <2>1, RowsGoOn
<1>3. ASSUME NEW p \in People, Decide(p) \/ (Answer(p) /\ rows[tap[p].row].status = "pending")
      PROVE  AllRowsStand'
  <2>1. tap[p] # None /\ rows' = [rows EXCEPT ![tap[p].row].status = Status(tap[p].word)] /\ Records(p)
    BY <1>3 DEF Decide, Answer
  <2>2. Len(rows') = Len(rows)
    BY <2>1, DecidedRows DEF GInv
  <2> QED BY <2>2, RowsGoOn
<1>4. CASE \E p \in People, i \in 1..Len(rows), word \in Words : Tap(p, i, word)
  <2>1. rows' = rows
    BY <1>4 DEF Tap
  <2> QED BY <2>1, RowsGoOn
<1>5. CASE (\E f \in Flows \cup {None} : Publish(f)) \/ UNCHANGED vars
  <2>1. rows' = rows
    BY <1>5 DEF Publish, vars
  <2> QED BY <2>1, RowsGoOn
<1> QED BY <1>1, <1>2, <1>3, <1>4, <1>5, Gate_Rows, Ask_Rows, Escalate_Rows DEF Next, Chats, RunStep, Deal

LEMMA TapsStay ==
  ASSUME GInv, Types', Kept, NEW p \in People, tap'[p] = tap[p], tap[p] # None
  PROVE  TapStands(p, tap[p])'
<1>1. PICK t : t = tap[p]
  OBVIOUS
<1>2. t.row \in 1..Len(rows) /\ TapStands(p, t)
  BY <1>1 DEF GInv, Types, InRange
<1>3. TapStands(p, t)'
  BY <1>2, TapStays DEF GInv
<1> QED BY <1>1, <1>3

LEMMA TapsGoOn ==
  ASSUME GInv, Types', Kept, NEW p \in People,
         tap' = tap \/ (\E t : tap' = [tap EXCEPT ![p] = t] /\ (t # None => TapStands(p, t)'))
  PROVE  TapsStand'
<1>1. tap \in [People -> Taps \cup {None}]
  BY DEF GInv, Types, TypeOK
<1>2. CASE tap' = tap
  BY <1>2, TapsStay DEF TapsStand
<1>3. ASSUME NEW t, tap' = [tap EXCEPT ![p] = t], t # None => TapStands(p, t)'
      PROVE  TapsStand'
  <2>1. tap'[p] = t /\ \A q \in People \ {p} : tap'[q] = tap[q]
    BY <1>1, <1>3
  <2>2. tap'[p] # None => TapStands(p, tap[p])'
    BY <1>3, <2>1
  <2> QED BY <2>1, <2>2, TapsStay DEF TapsStand
<1> QED BY <1>2, <1>3

LEMMA Decision_Taps ==
  ASSUME GInv, Types', Kept, NEW p \in People, Decide(p) \/ Answer(p)
  PROVE  TapsStand'
<1>1. tap[p] # None /\ tap[p] \in Taps /\ tap[p].row \in 1..Len(rows) /\ TapStands(p, tap[p])
  BY DEF Decide, Answer, GInv, Types, TypeOK, InRange
<1>2. PICK t \in Taps : t = [tap[p] EXCEPT !.settled = TRUE]
  BY <1>1, SettledType
<1>3. t.row = tap[p].row /\ t.word = tap[p].word
  BY <1>1, <1>2 DEF Taps
<1>4. tap' = [tap EXCEPT ![p] = None] \/ (tap' = [tap EXCEPT ![p] = t] /\ Records(p))
  BY <1>2 DEF Decide, Answer
<1>5. CASE tap' = [tap EXCEPT ![p] = None]
  BY <1>5, TapsGoOn
<1>6. CASE tap' = [tap EXCEPT ![p] = t] /\ Records(p) /\ t # None
  <2>1. [row |-> t.row, by |-> p, word |-> t.word] \in answers'
    BY <1>3, <1>6 DEF Records
  <2>2. tap'[p] = t
    BY <1>1, <1>6 DEF GInv, Types, TypeOK
  <2>3. rows[t.row].mode = "gate" => MayDecide(p, rows[t.row]) /\ t.word = "Approve"
    <3>1. ASSUME rows[t.row].mode = "gate"
          PROVE  t.word = "Approve"
      <4>1. Decide(p)
        BY <1>3, <3>1 DEF Answer
      <4>2. tap'[p] = None \/ tap[p].word = "Approve"
        BY <4>1 DEF Decide, GInv, Types, TypeOK
      <4> QED BY <1>3, <1>6, <2>2, <4>2
    <3> QED BY <1>1, <1>3, <3>1 DEF TapStands
  <2>4. Same(rows'[t.row], rows[t.row])
    BY <1>1, <1>3 DEF Kept
  <2>5. TapStands(p, t)'
    BY <2>1, <2>3, <2>4 DEF TapStands, MayDecide, Same
  <2> QED BY <1>6, <2>5, TapsGoOn
<1> QED BY <1>4, <1>5, <1>6

LEMMA Next_Taps ==
  ASSUME GInv, Types', Kept, [Next]_vars
  PROVE  TapsStand'
<1>1. ASSUME tap' = tap \/ \E p \in People : tap' = [tap EXCEPT ![p] = None]
      PROVE  TapsStand'
  BY <1>1, AskerIsAPerson, TapsGoOn
<1>2. CASE Chats
  BY <1>1, <1>2 DEF Chats, Open, ConfirmAgain, LoseCard, Rehydrate, Confirm, EnterCode, Cancel, Raise, ClaimRunsOut
<1>3. ASSUME NEW p \in People, RunStep(p) \/ Escalate(p) \/ Resume(p) \/ Die(p)
      PROVE  TapsStand'
  <2>1. tap' = tap \/ tap' = [tap EXCEPT ![p] = None]
    BY <1>3 DEF RunStep, Save, Pass, Fail, Refuse, Finish, CodeGate, ApprovalGate, AskApproval, Escalate, Resume, Die
  <2> QED BY <1>1, <2>1
<1>4. ASSUME NEW p \in People, NEW i \in 1..Len(rows), NEW word \in Words, Tap(p, i, word)
      PROVE  TapsStand'
  <2>1. PICK t : t = [row |-> i, word |-> word, settled |-> FALSE]
    OBVIOUS
  <2>2. tap' = [tap EXCEPT ![p] = t] /\ rows' = rows /\ (rows[i].mode = "answer" \/ MayDecide(p, rows[i]))
    BY <1>4, <2>1 DEF Tap
  <2>3. t.row = i /\ ~t.settled
    BY <2>1
  <2>4. TapStands(p, t)'
    BY <2>2, <2>3 DEF TapStands, MayDecide
  <2> QED BY <2>2, <2>4, TapsGoOn
<1>5. CASE (\E f \in Flows \cup {None} : Publish(f)) \/ UNCHANGED vars
  BY <1>1, <1>5 DEF Publish, vars
<1> QED BY <1>2, <1>3, <1>4, <1>5, Decision_Taps DEF Next, Chats, Deal

LEMMA CardGoesOn ==
  ASSUME GInv, Types', Kept, card' = card \/ card' = None \/ (card' \in Cards /\ \A c \in Cards : c = card' => CardStands(c)')
  PROVE  card' # None => CardStands(card)'
<1>1. card' \in Cards \cup {None}
  BY DEF Types, TypeOK
<1>2. ASSUME card' # None
      PROVE  CardStands(card)'
  <2>1. PICK c \in Cards : c = card'
    BY <1>1, <1>2
  <2>2. card' = card => CardStands(c)
    BY <1>2, <2>1 DEF GInv
  <2>3. CardStands(c)'
    BY <1>2, <2>1, <2>2, CardStays
  <2> QED BY <2>1, <2>3
<1> QED BY <1>2

\* A run that halts leaves a card that stands.
LEMMA Halts_Card ==
  ASSUME GInv, Types', Kept, NEW p \in People, CodeGate(p) \/ ApprovalGate(p) \/ AskApproval(p)
  PROVE  card' # None => CardStands(card)'
<1>1. CASE p # Asker
  <2>1. card' = card
    BY <1>1 DEF CodeGate, ApprovalGate, AskApproval, Halts, Ends
  <2> QED BY <2>1, CardGoesOn
<1>2. CASE p = Asker /\ card' # None
  <2>1. PICK stage \in Stages : /\ card' = [req |-> run[p].req, stage |-> stage, at |-> run[p].at + 1]
                                /\ stage = "awaiting_approval" \/ (stage = "awaiting_otp" /\ CodeGate(p))
    <3>1. (CodeGate(p) /\ Halts(p, "awaiting_otp")) \/ Halts(p, "awaiting_approval")
      BY DEF CodeGate, ApprovalGate, AskApproval
    <3>2. \A stage : Halts(p, stage) => card' = [req |-> run[p].req, stage |-> stage, at |-> run[p].at + 1]
      BY <1>2 DEF Halts, Ends
    <3> QED BY <3>1, <3>2 DEF Stages
  <2>2. card' \in Cards
    BY <1>2 DEF Types, TypeOK
  <2>3. PICK c \in Cards : c = card'
    BY <2>2
  <2>4. run[p] # None /\ run[p].said = None
    BY <1>2, AskerIsAPerson DEF CodeGate, ApprovalGate, AskApproval, At, GInv, AskersOwn
  <2>5. run[p].req <= opened
    BY <2>4 DEF GInv, RunStands
  <2>6. stage = "awaiting_otp" => ThroughGate(run[p].req, run[p].at + 1, None, "otp_gate")
    BY <2>1, <2>4, HaltsThrough DEF CodeGate
  <2>7. c.req = run[p].req /\ c.stage = stage /\ c.at = run[p].at + 1
    BY <2>1, <2>3
  <2>8. CardStands(c)
    BY <2>1, <2>5, <2>6, <2>7 DEF CardStands
  <2>9. CardStands(c)'
    BY <2>8, CardStays
  <2> QED BY <2>3, <2>9
<1> QED BY <1>1, <1>2

LEMMA Next_Card ==
  ASSUME GInv, Types', Kept, [Next]_vars
  PROVE  card' # None => CardStands(card)'
<1>1. ASSUME card' = card \/ card' = None
      PROVE  card' # None => CardStands(card)'
  BY <1>1, CardGoesOn
<1>2. CASE Open
  <2>1. card' = [req |-> opened + 1, stage |-> "awaiting_confirmation", at |-> 0] /\ opened' = opened + 1 /\ opened \in Nat
    BY <1>2 DEF Open, GInv, Types, TypeOK
  <2>2. card'.req <= opened' /\ card'.at = 0 /\ card'.stage = "awaiting_confirmation"
    BY <2>1
  <2> QED BY <2>2 DEF CardStands
<1>3. CASE Chats /\ ~Open /\ ~ConfirmAgain /\ ~Rehydrate
  <2>1. card' = card \/ card' = None
    BY <1>3 DEF Chats, LoseCard, Confirm, CarryOut, EnterCode, Cancel, Raise, ClaimRunsOut
  <2> QED BY <1>1, <2>1
<1>7. CASE ConfirmAgain
  <2>1. card \in Cards /\ card.req \in Requests /\ card.at \in Nat /\ card.req <= opened
    BY <1>7, CardParts DEF ConfirmAgain, GInv, Types, CardStands
  <2>2. PICK at \in {0, card.at} :
          /\ card' = [card EXCEPT !.stage = "awaiting_confirmation", !.at = at]
          /\ renewed' = IF at > 0 THEN renewed \cup {card.req} ELSE renewed
    BY <1>7 DEF ConfirmAgain
  <2>3. card'.req = card.req /\ card'.stage = "awaiting_confirmation" /\ card'.at = at /\ at \in Nat
    BY <2>1, <2>2 DEF Cards
  <2>4. at = 0 \/ card.req \in Excused'
    BY <2>2, <2>3 DEF Excused
  <2>5. opened' = opened
    BY <1>7 DEF ConfirmAgain
  <2> QED BY <2>1, <2>3, <2>4, <2>5 DEF CardStands
<1>8. CASE Rehydrate
  <2>1. card' = [req |-> draft, stage |-> "awaiting_confirmation", at |-> 0] /\ opened' = opened /\ draft <= opened
    BY <1>8 DEF Rehydrate, GInv, asks
  <2>2. card'.req <= opened' /\ card'.at = 0 /\ card'.stage = "awaiting_confirmation"
    BY <2>1
  <2> QED BY <2>2 DEF CardStands
<1>4. ASSUME NEW p \in People,
             Save(p) \/ Pass(p) \/ Fail(p) \/ Refuse(p) \/ Finish(p) \/ Deal(p) \/ Die(p)
      PROVE  card' # None => CardStands(card)'
  <2>1. card' = card \/ card' = None
    BY <1>4 DEF Save, Pass, Fail, Refuse, Finish, Closes, Ends, Deal, Decide, Answer, Escalate, Resume, Die, chat, asks
  <2> QED BY <1>1, <2>1
<1>5. CASE \E p \in People, i \in 1..Len(rows), word \in Words : Tap(p, i, word)
  BY <1>1, <1>5 DEF Tap, chat, asks
<1>6. CASE (\E f \in Flows \cup {None} : Publish(f)) \/ UNCHANGED vars
  BY <1>1, <1>6 DEF Publish, vars, chat, asks
<1> QED BY <1>2, <1>3, <1>4, <1>5, <1>6, <1>7, <1>8, Halts_Card DEF Next, Chats, RunStep

\* The draft row is of a request that was made.
LEMMA Next_Draft ==
  ASSUME GInv, Types', Kept, [Next]_vars
  PROVE  draft' # None => draft' <= opened'
<1>1. card # None => card.req <= opened
  BY DEF GInv, CardStands
<1>2. draft' = draft \/ draft' = None \/ (card # None /\ draft' = card.req) \/ (draft' = opened + 1 /\ opened' = opened + 1)
  <2>1. CASE Chats
    BY <2>1 DEF Chats, Open, ConfirmAgain, LoseCard, Rehydrate, Confirm, EnterCode, Cancel, Raise, ClaimRunsOut
  <2>2. ASSUME NEW p \in People, RunStep(p) \/ Deal(p) \/ Die(p)
        PROVE  draft' = draft \/ draft' = None
    BY <2>2 DEF RunStep, Save, Pass, Fail, Refuse, Finish, CodeGate, ApprovalGate, AskApproval, Closes, Halts, Deal,
                Decide, Answer, Escalate, Resume, Die, chat
  <2>3. CASE \E p \in People, i \in 1..Len(rows), word \in Words : Tap(p, i, word)
    BY <2>3 DEF Tap, chat
  <2>4. CASE (\E f \in Flows \cup {None} : Publish(f)) \/ UNCHANGED vars
    BY <2>4 DEF Publish, vars, chat
  <2> QED BY <2>1, <2>2, <2>3, <2>4 DEF Next, Chats
<1>3. opened \in Nat /\ opened' \in Nat /\ opened <= opened'
  BY DEF GInv, Types, TypeOK, Kept
<1>4. draft' # None => draft' \in Nat /\ draft' \in Requests
  BY RequestsAreNumbers DEF Types, TypeOK
<1>5. draft # None => draft <= opened
  BY DEF GInv
<1> QED BY <1>1, <1>2, <1>3, <1>4, <1>5

LEMMA Init_GInv == Init => GInv
<1> SUFFICES ASSUME Init PROVE GInv
  OBVIOUS
<1>1. Types
  BY Init_Types
<1>2. Len(rows) = 0 /\ card = None /\ draft = None /\ (\A p \in People : tap[p] = None /\ run[p] = None)
  BY DEF Init
<1> QED BY <1>1, <1>2, AskerIsAPerson DEF GInv, AskersOwn

LEMMA Next_GInv ==
  ASSUME GInv, [Next]_vars
  PROVE  GInv'
<1>1. Types' /\ Kept
  BY Next_Types, Next_Kept DEF GInv
<1>2. RunsStand' /\ AskersOwn'
  BY <1>1, Next_Runs
<1>3. AllRowsStand'
  BY <1>1, Next_Rows
<1>4. TapsStand'
  BY <1>1, Next_Taps
<1>5. card' # None => CardStands(card)'
  BY <1>1, Next_Card
<1>6. draft' # None => draft' <= opened'
  BY <1>1, Next_Draft
<1> QED BY <1>1, <1>2, <1>3, <1>4, <1>5, <1>6 DEF GInv, RunsStand, AllRowsStand, TapsStand

-----------------------------------------------------------------------------
(* The levels that are required *)

LEMMA LeastNumber ==
  ASSUME NEW T \in SUBSET Nat, T # {}
  PROVE  \E x \in T : \A y \in T : x <= y
<1>1. IsWellFoundedOn(OpToRel(<, Nat), Nat)
  BY NatLessThanWellFounded
<1>2. PICK x \in T : \A y \in T : ~(<<y, x>> \in OpToRel(<, Nat))
  BY <1>1, WFMin
<1>3. \A y \in T : ~(y < x)
  BY <1>2 DEF OpToRel
<1>4. \A y \in T : y \in Nat
  OBVIOUS
<1> QED BY <1>3, <1>4

\* The levels an amount asks for reach up to the first whose ceiling covers it, or the last.
LEMMA RequiredCover ==
  ASSUME NEW r \in Requests
  PROVE  \E i \in RequiredLevels(Amount[r]) :
           i = Len(Levels) \/ Levels[i].max = NoLimit \/ Amount[r] <= Levels[i].max
<1> DEFINE Covers == {i \in 1..Len(Levels) :
                        i = Len(Levels) \/ Levels[i].max = NoLimit \/ Amount[r] <= Levels[i].max}
<1>1. Covers \in SUBSET Nat /\ Covers # {}
  BY LevelsAreAChain
<1> HIDE DEF Covers
<1>2. PICK i \in Covers : \A j \in Covers : i <= j
  BY <1>1, LeastNumber
<1> USE DEF Covers
<1>3. ASSUME NEW j \in 1..(i - 1)
      PROVE  Levels[j].max # NoLimit /\ Amount[r] > Levels[j].max
  <2>1. j \in 1..Len(Levels) /\ j < i /\ j # Len(Levels)
    BY <1>1, <1>2, LevelsAreAChain
  <2>2. j \notin Covers
    BY <1>2, <2>1
  <2> QED BY <2>1, <2>2, LevelsAreAChain
<1>4. i \in RequiredLevels(Amount[r])
  BY <1>2, <1>3 DEF RequiredLevels
<1> QED BY <1>2, <1>4

LEMMA Covered == CoveredByCeiling
<1> SUFFICES ASSUME NEW r \in Requests, ApprovedLevels(r) = AskedLevels(r)
             PROVE  \E i \in 1..Len(Levels) :
                      /\ i = Len(Levels) \/ Levels[i].max = NoLimit \/ Amount[r] <= Levels[i].max
                      /\ Levels[i].role = Role[Asker] \/ i \in ApprovedLevels(r)
  BY DEF CoveredByCeiling
<1>1. PICK i \in RequiredLevels(Amount[r]) :
        i = Len(Levels) \/ Levels[i].max = NoLimit \/ Amount[r] <= Levels[i].max
  BY RequiredCover
<1>2. i \in 1..Len(Levels) /\ (Levels[i].role = Role[Asker] \/ i \in ApprovedLevels(r))
  BY DEF RequiredLevels, AskedLevels
<1> QED BY <1>1, <1>2

\* No step of a workflow runs before its gates: the whole approval chain for the amount, up to a level whose
\* ceiling covers it, the mailed code, the first answer, for any chain, people, versions and faults, with claims that
\* run out and cards that are lost and brought back.  Two kinds of request are excused: those begun before another
\* version was published, and those whose card was shown again with the step that a gate had halted it at.
THEOREM GatedHolds == Spec => []Gated
<1>1. GInv => Gated
  BY Covered DEF GInv, RunStands, Excused, BehindTheGates, GatesHold, Gated
<1> QED BY <1>1, Init_GInv, Next_GInv, PTL DEF Spec
=============================================================================
