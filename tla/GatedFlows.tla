----------------------------- MODULE GatedFlows -----------------------------
(***************************************************************************)
(* Carrying out a request whose workflow waits for people: the step runner *)
(* of services/step_interpreter.py with its code gate, approval gate,      *)
(* ask_approval and building blocks, execute_pending_action of             *)
(* services/action_executor.py, and the answers of executor/               *)
(* workflow_executor.py.                                                   *)
(*                                                                         *)
(* One person asks; the others approve.  A person's messages are handled   *)
(* one at a time (Conversation), so each person has at most one answer and *)
(* one run of steps in progress; those of different people interleave, and *)
(* every statement that reaches the database is a step of its own.  A      *)
(* resumed run belongs to the approver's turn and acts for the asker.      *)
(***************************************************************************)
EXTENDS Naturals, Sequences, FiniteSets

CONSTANTS
  Requests,   \* 1..n, in the order they are made
  People,     \* who uses the chat
  Asker,      \* the person whose requests these are
  Role,       \* Role[p]: the role of a person
  Approvers,  \* people whose role is_approver
  Permitted,  \* people with the permission "approve"
  Anyone,     \* a level that names no role
  Levels,     \* the approval chain of the workflow, in order: [role, max]
  NoLimit,    \* a level without max_amount
  Amount,     \* Amount[r]: what the request is about
  Asked,      \* whom ask_approval asks
  Flows,      \* the versions of the workflow that may be published
  Block,      \* the steps of the building block it runs
  Saves,      \* the steps that write
  IfApproved, \* those whose guard wants the answer Approve
  None,
  MaxYes,     \* bound: how often the asker says yes to one request
  MaxEdits,   \* bound: how often another version is published
  MaxFaults   \* bound: steps that fail, turns that raise or die, lost look-ups

ASSUME AskerIsAPerson == Asker \in People
ASSUME RequestsAreNumbers == Requests \subseteq Nat \ {0}
ASSUME FlowsAreSequences == Flows # {} /\ \A f \in Flows : f \in Seq(STRING)
ASSUME SavesAreNoGates == {"run_workflow", "otp_gate", "approval_gate", "ask_approval"} \cap Saves = {}
ASSUME LevelsAreAChain ==
  /\ Len(Levels) \in Nat \ {0}
  /\ \A i \in 1..Len(Levels) : Levels[i].max \in Nat \cup {NoLimit}
  /\ \A r \in Requests : Amount[r] \in Nat
ASSUME PeopleAreAsked == Asked \subseteq People
ASSUME SavesHaveOnePlace ==   \* a place is a step, or a step of the block at one
  \A f \in Flows, s \in Saves :
    Cardinality({i \in (1..Len(f)) \X (0..Len(Block)) :
      IF i[2] = 0 THEN f[i[1]] = s ELSE f[i[1]] = "run_workflow" /\ Block[i[2]] = s}) <= 1
ASSUME NoneIsApart == None \notin Requests /\ None \notin Flows /\ None \notin {"Approve", "Reject"}

Words == {"Approve", "Reject"}
Stages == {"awaiting_confirmation", "awaiting_otp", "awaiting_approval"}

VARIABLES
  published,  \* the active version of the workflow, or None when it is switched off
  card,       \* the asker's pending action in the session
  draft,      \* the request of the asker's active row in user_drafts, or None
  opened,     \* how many requests were made
  claimed,    \* requests whose card cannot be claimed by a yes now
  code,       \* the request the newest code was mailed for, while it is unused
  rows,       \* pending_approvals, in the order of their ids
  tap,        \* tap[p]: the answer p's turn is dealing with
  run,        \* run[p]: the run of steps in p's turn
  saved,      \* saved[r][s]: how often step s of request r was written
  answers,    \* the answers that decided a row: [row, by, word]
  yes,        \* yes[r]: how often a yes to r was claimed
  stuck,      \* stuck[r]: how often a run after the code for r left its card waiting for a code
  renewed,    \* requests whose card was shown again with the step a gate had halted it at
  proven,     \* requests a code was given for
  cancelled,  \* requests cancelled by the asker
  edited,     \* requests begun before another version was published
  edits,
  faults

vars == <<published, card, draft, opened, claimed, yes, stuck, renewed, cancelled, code, rows, tap, run,
          saved, answers, proven, edited, edits, faults>>
asks == <<opened, yes, stuck, renewed, cancelled>>
chat == <<card, draft, claimed, asks>>
bounds == <<edited, edits, faults>>

Cards == [req : Requests, stage : Stages, at : Nat]

Named == {Role[p] : p \in People} \cup {Levels[i].role : i \in 1..Len(Levels)} \cup {Anyone}

Rows == [req : Requests, mode : {"gate", "answer"}, level : Nat, at : Nat, role : Named,
         told : SUBSET People, said : Words \cup {None}, status : {"pending", "approved", "rejected"}]

Taps == [row : Nat, word : Words, settled : BOOLEAN]

Runs == [req : Requests, flow : Flows, at : Nat, inner : Nat, approved : BOOLEAN,
         verified : BOOLEAN, said : Words \cup {None}]

TypeOK ==
  /\ published \in Flows \cup {None}
  /\ card \in Cards \cup {None} /\ draft \in Requests \cup {None}
  /\ opened \in Nat
  /\ claimed \subseteq Requests /\ renewed \subseteq Requests
  /\ yes \in [Requests -> Nat] /\ stuck \in [Requests -> Nat]
  /\ code \in Requests \cup {None}
  /\ rows \in Seq(Rows)
  /\ tap \in [People -> Taps \cup {None}]
  /\ run \in [People -> Runs \cup {None}]
  /\ saved \in [Requests -> [Saves -> Nat]]
  /\ answers \subseteq [row : Nat, by : People, word : Words]
  /\ proven \subseteq Requests /\ cancelled \subseteq Requests /\ edited \subseteq Requests
  /\ edits \in Nat /\ faults \in Nat

Init ==
  /\ published \in Flows
  /\ card = None /\ draft = None /\ opened = 0
  /\ claimed = {} /\ renewed = {} /\ code = None /\ rows = <<>>
  /\ yes = [r \in Requests |-> 0] /\ stuck = [r \in Requests |-> 0]
  /\ tap = [p \in People |-> None]
  /\ run = [p \in People |-> None]
  /\ saved = [r \in Requests |-> [s \in Saves |-> 0]]
  /\ answers = {} /\ proven = {} /\ cancelled = {} /\ edited = {}
  /\ edits = 0 /\ faults = 0

-----------------------------------------------------------------------------
(* Who has to approve *)

\* _required_levels_for_gate: level 1, and every level whose predecessors cannot clear the amount.
RequiredLevels(amount) ==
  {i \in 1..Len(Levels) :
     \A j \in 1..(i - 1) : Levels[j].max # NoLimit /\ amount > Levels[j].max}

\* required_queue of _op_approval_gate, by the levels' numbers: without those the asker's role covers.
AskedLevels(r) == {i \in RequiredLevels(Amount[r]) : Levels[i].role # Role[Asker]}

\* The front of the queue.
Earliest(numbers) == {i \in numbers : \A j \in numbers : i <= j}

\* _find_approver: somebody of the role, or of any approving role; LIMIT 1 names no order.
Found(role) ==
  LET able == {p \in People : IF role = Anyone THEN p \in Approvers ELSE Role[p] = role}
  IN IF able = {} THEN {{}} ELSE {{p} : p \in able}

\* The role check of handle_approval_response, and its refusal of a person's own request.
MayDecide(p, row) == (Role[p] = row.role \/ p \in Permitted) /\ p # Asker

-----------------------------------------------------------------------------
(* The asker's chat *)

Free(p) == tap[p] = None /\ run[p] = None

NewRun(r, at, approved, verified, said) ==
  [req |-> r, flow |-> published, at |-> at, inner |-> 0, approved |-> approved,
   verified |-> verified, said |-> said]

\* The agent fills in another request and shows its card; the draft row is the new request's.
Open ==
  /\ Free(Asker) /\ published # None
  /\ (card # None => card.stage # "awaiting_otp")
  /\ opened + 1 \in Requests
  /\ opened' = opened + 1
  /\ card' = [req |-> opened + 1, stage |-> "awaiting_confirmation", at |-> 0]
  /\ draft' = opened + 1
  /\ UNCHANGED <<published, claimed, yes, stuck, renewed, cancelled, code, rows, tap, run, saved, answers, proven,
     bounds>>

\* A card may be claimed again if it has another stamp than the one that was claimed.
Stamped(r) == claimed' \in {claimed, claimed \ {r}}

\* A message about the card goes to the agent, also while the card waits for an approval, and confirm_action
\* shows it again: the same dict, with the step it halted at, unless update_draft put another in its place.
ConfirmAgain ==
  /\ Free(Asker)
  /\ card # None /\ card.stage # "awaiting_otp"
  /\ \E at \in {0, card.at} :
       /\ card' = [card EXCEPT !.stage = "awaiting_confirmation", !.at = at]
       /\ renewed' = IF at > 0 THEN renewed \cup {card.req} ELSE renewed
  /\ draft' = IF published = None THEN draft ELSE card.req
  /\ Stamped(card.req)
  /\ UNCHANGED <<published, opened, yes, stuck, cancelled, code, rows, tap, run, saved, answers, proven, bounds>>

\* The card is gone from the session, not always the draft row: a retry word at the code, a session whose time is
\* over or that Redis lost, a card that is too old.
LoseCard ==
  /\ Free(Asker) /\ card # None
  /\ card' = None
  /\ draft' \in {draft, None}
  /\ UNCHANGED <<published, claimed, asks, code, rows, tap, run, saved, answers, proven, bounds>>

\* The next message finds no card but an active draft row, which no halt has changed: a card from the first step on.
Rehydrate ==
  /\ Free(Asker) /\ card = None /\ draft # None
  /\ card' = [req |-> draft, stage |-> "awaiting_confirmation", at |-> 0]
  /\ Stamped(draft)
  /\ UNCHANGED <<published, draft, asks, code, rows, tap, run, saved, answers, proven, bounds>>

\* execute_pending_action in the asker's turn: of a workflow that is switched off only the card is dropped.
CarryOut(verified) ==
  IF published = None THEN card' = None /\ run' = run
  ELSE card' = card /\ run' = [run EXCEPT ![Asker] = NewRun(card.req, card.at, FALSE, verified, None)]

\* A yes to the card: claimed, then the steps run from the first, or from the one the card was halted at.
Confirm ==
  /\ Free(Asker)
  /\ card # None /\ card.stage = "awaiting_confirmation"
  /\ card.req \notin claimed /\ yes[card.req] < MaxYes
  /\ claimed' = claimed \cup {card.req}
  /\ yes' = [yes EXCEPT ![card.req] = @ + 1]
  /\ CarryOut(FALSE)
  /\ UNCHANGED <<published, draft, opened, stuck, renewed, cancelled, code, rows, tap, saved, answers, proven,
     bounds>>

\* A claim lasts confirm_stale_minutes.
ClaimRunsOut(r) ==
  /\ r \in claimed
  /\ claimed' = claimed \ {r}
  /\ UNCHANGED <<published, card, draft, asks, code, rows, tap, run, saved, answers, proven, bounds>>

\* The right code (verify_otp knows the person, not the request): the steps run on after the gate.
EnterCode ==
  /\ Free(Asker)
  /\ card # None /\ card.stage = "awaiting_otp" /\ code # None
  /\ code' = None
  /\ proven' = proven \cup {card.req}
  /\ CarryOut(TRUE)
  /\ UNCHANGED <<published, draft, claimed, asks, rows, tap, saved, answers, bounds>>

\* The cancel gate: the draft row and the session are cleared, at every stage.
Cancel ==
  /\ Free(Asker)
  /\ card # None
  /\ cancelled' = cancelled \cup {card.req}
  /\ card' = None /\ draft' = None
  /\ UNCHANGED <<published, opened, claimed, yes, stuck, renewed, code, rows, tap, run, saved, answers, proven,
     bounds>>

-----------------------------------------------------------------------------
(* The step runner *)

Op(t) == IF t.inner > 0 THEN Block[t.inner] ELSE t.flow[t.at + 1]

Over(t) == t.at >= Len(t.flow)

\* The step after this one; a block is one step of the workflow that runs it.
Past(t) ==
  IF t.inner \in 1..(Len(Block) - 1) THEN [t EXCEPT !.inner = @ + 1]
  ELSE [t EXCEPT !.inner = 0, !.at = @ + 1]

At(p, op) == run[p] # None /\ ~Over(run[p]) /\ Op(run[p]) = op

Waits(s, t) == s \in IfApproved /\ t.said # "Approve"

\* The run is over: what it leaves in the asker's chat is a card, if it ran in the asker's own turn.
Ends(p, left) ==
  /\ run' = [run EXCEPT ![p] = None]
  /\ card' = IF p = Asker THEN left ELSE card

\* status "done" or "error": nothing is left to confirm, and close_draft closes the active row, whose ever run it was.
Closes(p) == Ends(p, None) /\ draft' = None

\* A step that writes; it is committed at once.
Save(p) ==
  \E s \in Saves :
    /\ At(p, s) /\ ~Waits(s, run[p])
    /\ saved' = [saved EXCEPT ![run[p].req][s] = @ + 1]
    /\ run' = [run EXCEPT ![p] = Past(run[p])]
    /\ UNCHANGED <<published, chat, code, rows, tap, answers, proven, bounds>>

\* Steps that change nothing here: one whose guard is false, a message that is sent, the way into a block.
Pass(p) ==
  /\ run[p] # None /\ ~Over(run[p])
  /\ \/ \E s \in Saves : At(p, s) /\ Waits(s, run[p]) /\ run' = [run EXCEPT ![p] = Past(run[p])]
     \/ At(p, "notify") /\ run' = [run EXCEPT ![p] = Past(run[p])]
     \/ At(p, "run_workflow") /\ run[p].inner = 0 /\ run' = [run EXCEPT ![p].inner = 1]
     \/ /\ run[p].inner = 0
        /\ \/ At(p, "otp_gate") /\ run[p].verified
           \/ At(p, "approval_gate") /\ (run[p].approved \/ AskedLevels(run[p].req) = {})
        /\ run' = [run EXCEPT ![p] = Past(run[p])]
     \/ At(p, "ask_approval") /\ run[p].said \in Words /\ run' = [run EXCEPT ![p] = Past(run[p])]
  /\ UNCHANGED <<published, chat, code, rows, tap, saved, answers, proven, bounds>>

\* A step fails (a code asked for too soon or not mailed is one way): what was written stays.  A message
\* that cannot be sent after something was written in this run counts as done, and the rest is left out.  After
\* a look-up that finds more than one ("ambiguous") the draft row stays.
Fail(p) ==
  /\ faults < MaxFaults
  /\ run[p] # None /\ ~Over(run[p])
  /\ faults' = faults + 1
  /\ Ends(p, None) /\ draft' \in {draft, None}
  /\ UNCHANGED <<published, claimed, asks, code, rows, tap, saved, answers, proven, edited, edits>>

\* Nobody could resume a block half way, so it has no gates; ask_approval needs somebody to ask.
Refuse(p) ==
  /\ \/ run[p] # None /\ run[p].inner > 0 /\ (At(p, "otp_gate") \/ At(p, "approval_gate"))
     \/ At(p, "ask_approval") /\ run[p].said \notin Words /\ (run[p].inner > 0 \/ Asked \ {Asker} = {})
  /\ Closes(p)
  /\ UNCHANGED <<published, claimed, asks, code, rows, tap, saved, answers, proven, bounds>>

\* The last step is done, or flow.stop ended the run.
Finish(p) ==
  /\ run[p] # None
  /\ Over(run[p]) \/ At(p, "flow.stop")
  /\ Closes(p)
  /\ UNCHANGED <<published, claimed, asks, code, rows, tap, saved, answers, proven, bounds>>

\* The run halts with resume_step: only the asker's own turn keeps that in the session.
Halts(p, stage) ==
  Ends(p, [req |-> run[p].req, stage |-> stage, at |-> run[p].at + 1]) /\ draft' = draft

\* _op_otp_gate: earlier codes are dead, a new one is mailed.
CodeGate(p) ==
  /\ At(p, "otp_gate") /\ run[p].inner = 0 /\ ~run[p].verified
  /\ code' = run[p].req
  /\ Halts(p, "awaiting_otp")
  /\ UNCHANGED <<published, claimed, asks, rows, tap, saved, answers, proven, bounds>>

NewRow(t, mode, level, at, role, told) ==
  [req |-> t.req, mode |-> mode, level |-> level, at |-> at, role |-> role, told |-> told,
   said |-> t.said, status |-> "pending"]

\* The role the row names: that of the level, or of the approver found for a level that names none.
NamedRole(role, told) == IF role = Anyone /\ told # {} THEN Role[CHOOSE p \in told : TRUE] ELSE role

\* Mutant: the run is to go on at the gate itself.
ApprovalGateAgain(p) ==
  /\ At(p, "approval_gate") /\ run[p].inner = 0 /\ ~run[p].approved
  /\ \E i \in Earliest(AskedLevels(run[p].req)) : \E told \in Found(Levels[i].role) :
       rows' = Append(rows, NewRow(run[p], "gate", i, 0, NamedRole(Levels[i].role, told), told))
  /\ Halts(p, "awaiting_approval")
  /\ UNCHANGED <<published, claimed, asks, code, tap, saved, answers, proven, bounds>>

\* _op_approval_gate: a row for the first level, and its approver, if there is one, is asked.
ApprovalGate(p) ==
  /\ At(p, "approval_gate") /\ run[p].inner = 0 /\ ~run[p].approved
  /\ \E i \in Earliest(AskedLevels(run[p].req)) : \E told \in Found(Levels[i].role) :
       rows' = Append(rows, NewRow(run[p], "gate", i, run[p].at + 1, NamedRole(Levels[i].role, told), told))
  /\ Halts(p, "awaiting_approval")
  /\ UNCHANGED <<published, claimed, asks, code, tap, saved, answers, proven, bounds>>

\* _op_ask_approval: a row, and everybody asked gets the buttons.
AskApproval(p) ==
  /\ At(p, "ask_approval") /\ run[p].inner = 0 /\ run[p].said \notin Words
  /\ Asked \ {Asker} # {}
  /\ rows' = Append(rows, NewRow(run[p], "answer", 1, run[p].at + 1, Anyone, Asked \ {Asker}))
  /\ Halts(p, "awaiting_approval")
  /\ UNCHANGED <<published, claimed, asks, code, tap, saved, answers, proven, bounds>>

-----------------------------------------------------------------------------
(* The answers: handle_approval_response and _handle_answer *)

\* A tap on a button, as often as the person likes: the row is read as pending, and the person may decide it.
Tap(p, i, word) ==
  /\ Free(p)
  /\ p \in rows[i].told /\ rows[i].status = "pending"
  /\ rows[i].mode = "answer" \/ MayDecide(p, rows[i])
  /\ tap' = [tap EXCEPT ![p] = [row |-> i, word |-> word, settled |-> FALSE]]
  /\ UNCHANGED <<published, chat, code, rows, run, saved, answers, proven, bounds>>

Status(word) == IF word = "Approve" THEN "approved" ELSE "rejected"

Records(p) == answers' = answers \cup {[row |-> tap[p].row, by |-> p, word |-> tap[p].word]}

\* An approval gate's row is updated by its id alone; a Reject ends the matter.
Decide(p) ==
  /\ tap[p] # None /\ ~tap[p].settled /\ rows[tap[p].row].mode = "gate"
  /\ rows' = [rows EXCEPT ![tap[p].row].status = Status(tap[p].word)]
  /\ Records(p)
  /\ tap' = [tap EXCEPT ![p] = IF @.word = "Approve" THEN [@ EXCEPT !.settled = TRUE] ELSE None]
  /\ UNCHANGED <<published, chat, code, run, saved, proven, bounds>>

\* Mutant: the answer is written without asking whether the row is still pending.
AnswerAnyway(p) ==
  /\ tap[p] # None /\ ~tap[p].settled /\ rows[tap[p].row].mode = "answer"
  /\ rows' = [rows EXCEPT ![tap[p].row].status = Status(tap[p].word)]
  /\ Records(p)
  /\ tap' = [tap EXCEPT ![p].settled = TRUE]
  /\ UNCHANGED <<published, chat, code, run, saved, proven, bounds>>

\* The first answer decides; another one finds the row handled.
Answer(p) ==
  /\ tap[p] # None /\ ~tap[p].settled /\ rows[tap[p].row].mode = "answer"
  /\ IF rows[tap[p].row].status = "pending"
     THEN /\ rows' = [rows EXCEPT ![tap[p].row].status = Status(tap[p].word)]
          /\ Records(p)
          /\ tap' = [tap EXCEPT ![p].settled = TRUE]
     ELSE tap' = [tap EXCEPT ![p] = None] /\ UNCHANGED <<rows, answers>>
  /\ UNCHANGED <<published, chat, code, run, saved, proven, bounds>>

Settled(p, mode) == tap[p] # None /\ tap[p].settled /\ rows[tap[p].row].mode = mode

\* Mutant: the last level of the chain is left out.
LevelsAfterButOne(row) == {i \in AskedLevels(row.req) : i > row.level /\ \E j \in AskedLevels(row.req) : j > i}

\* What of the queue is left behind queue_index.
LevelsAfter(row) == {i \in AskedLevels(row.req) : i > row.level}

\* The next level gets a row of its own; if nobody has its role, it waits with nobody asked.
Escalate(p) ==
  /\ Settled(p, "gate")
  /\ LET row == rows[tap[p].row]
     IN \E i \in Earliest(LevelsAfter(row)) : \E told \in Found(Levels[i].role) :
          rows' = Append(rows, NewRow(row, "gate", i, row.at, Levels[i].role, told))
  /\ tap' = [tap EXCEPT ![p] = None]
  /\ UNCHANGED <<published, chat, code, run, saved, answers, proven, bounds>>

\* The workflow as it is now runs on from the stored step; switched off, nothing runs.
Resume(p) ==
  /\ \/ Settled(p, "gate") /\ LevelsAfter(rows[tap[p].row]) = {}
     \/ Settled(p, "answer")
  /\ LET row == rows[tap[p].row]
         said == IF row.mode = "answer" THEN tap[p].word ELSE row.said
     IN run' = IF published = None THEN run
               ELSE [run EXCEPT ![p] = NewRun(row.req, row.at, row.mode = "gate", FALSE, said)]
  /\ tap' = [tap EXCEPT ![p] = None]
  /\ UNCHANGED <<published, chat, code, rows, saved, answers, proven, bounds>>

-----------------------------------------------------------------------------
(* What happens around it *)

\* Another version is published, or the workflow is switched off or on.
Publish(f) ==
  /\ edits < MaxEdits /\ f # published
  /\ published' = f
  /\ edits' = edits + 1
  /\ edited' = edited \cup {r \in Requests : r <= opened}
  /\ UNCHANGED <<chat, code, rows, tap, run, saved, answers, proven, faults>>

\* A run after a code that is left half-way: its card waits for a code still, and the next one runs it again.
Sticks(p) ==
  stuck' = IF p = Asker /\ run[p] # None /\ card # None /\ card.stage = "awaiting_otp"
           THEN [stuck EXCEPT ![run[p].req] = @ + 1] ELSE stuck

\* A run of the asker's ends in an exception (the database is gone when the draft is to be closed, or the last
\* message cannot be sent): the card stays, and the claim on a yes is given back.
Raise ==
  /\ faults < MaxFaults /\ run[Asker] # None
  /\ faults' = faults + 1
  /\ run' = [run EXCEPT ![Asker] = None]
  /\ claimed' = IF card # None /\ card.stage = "awaiting_confirmation" THEN claimed \ {run[Asker].req} ELSE claimed
  /\ Sticks(Asker)
  /\ UNCHANGED <<published, card, draft, opened, yes, renewed, cancelled, code, rows, tap, saved, answers, proven,
                 edited, edits>>

\* A turn dies half-way, or the person who asked cannot be found when an answer comes: nothing more happens in it.
\* After the last step the draft row may be closed already.
Die(p) ==
  /\ faults < MaxFaults /\ ~Free(p)
  /\ faults' = faults + 1
  /\ tap' = [tap EXCEPT ![p] = None]
  /\ run' = [run EXCEPT ![p] = None]
  /\ draft' = draft \/ (run[p] # None /\ Over(run[p]) /\ draft' = None)
  /\ Sticks(p)
  /\ UNCHANGED <<published, card, claimed, opened, yes, renewed, cancelled, code, rows, saved, answers, proven,
                 edited, edits>>

RunStep(p) ==
  Save(p) \/ Pass(p) \/ Fail(p) \/ Refuse(p) \/ Finish(p) \/ CodeGate(p) \/ ApprovalGate(p) \/ AskApproval(p)

Deal(p) == Decide(p) \/ Answer(p) \/ Escalate(p) \/ Resume(p)

Next ==
  \/ Open \/ ConfirmAgain \/ LoseCard \/ Rehydrate \/ Confirm \/ EnterCode \/ Cancel \/ Raise
  \/ \E r \in Requests : ClaimRunsOut(r)
  \/ \E p \in People : RunStep(p) \/ Deal(p) \/ Die(p)
  \/ \E p \in People, i \in 1..Len(rows), word \in Words : Tap(p, i, word)
  \/ \E f \in Flows \cup {None} : Publish(f)

Spec == Init /\ [][Next]_vars

-----------------------------------------------------------------------------
(* What must hold *)

\* The levels of a request that somebody other than the asker, with the right to, has approved.
ApprovedLevels(r) ==
  {rows[a.row].level : a \in {b \in answers :
     /\ b.word = "Approve" /\ rows[b.row].req = r /\ rows[b.row].mode = "gate"
     /\ MayDecide(b.by, rows[b.row])}}

\* What the steps up to this one have asked of people is there.
Cleared(r, flow, at, said) ==
  LET Behind(op) == \E k \in 1..at : k <= Len(flow) /\ flow[k] = op IN
  /\ Behind("approval_gate") => ApprovedLevels(r) = AskedLevels(r)
  /\ Behind("otp_gate") => r \in proven
  /\ Behind("ask_approval") => \E a \in answers : rows[a.row].req = r /\ rows[a.row].mode = "answer" /\ a.word = said

GatesHold(excused) ==
  \A p \in People : run[p] # None /\ run[p].req \notin excused =>
    Cleared(run[p].req, run[p].flow, run[p].at, run[p].said)

\* No step behind a gate runs before everybody the gate asks has answered: every level of the approval
\* chain, the mailed code, the first answer to ask_approval.  The answers come in other people's turns,
\* through rows and stored step numbers, so a lost level or a wrong resume_step would let a step through.
\* (Not promised of a request begun before another version was published, which is resumed in that version, nor
\* of one whose card was confirmed anew while it waited, with the step number kept: see the README.)
BehindTheGates == GatesHold(edited \cup renewed)

\* "resume_step always lands AFTER this step once the whole chain clears" (step_interpreter.py): the same without
\* the second exception, which does not hold.
BehindTheGatesAlways == GatesHold(edited)

\* An amount is only waved through by a level whose ceiling covers it, or the asker has that role.
CoveredByCeiling ==
  \A r \in Requests : ApprovedLevels(r) = AskedLevels(r) =>
    \E i \in 1..Len(Levels) :
      /\ i = Len(Levels) \/ Levels[i].max = NoLimit \/ Amount[r] <= Levels[i].max
      /\ Levels[i].role = Role[Asker] \/ i \in ApprovedLevels(r)

\* No step runs before its gates, and an approval is of the levels the amount asks for.
Gated == BehindTheGates /\ CoveredByCeiling

\* One answer decides a row: of two approvers, or two taps of one, the second changes nothing, and the
\* flow goes on with the answer that the row shows.
OneAnswerDecides ==
  /\ \A a, b \in answers : a.row = b.row => a = b
  /\ \A a \in answers : rows[a.row].status = Status(a.word)

\* A step that writes is carried out once for each claimed yes, and for each code's run that was left half-way,
\* at most: through halts in several people's turns, taps repeated, cards shown again and rows brought back,
\* turns that die and cards given back, unless the workflow was edited meanwhile.
EveryStepOnce == \A r \in Requests \ edited : \A s \in Saves : saved[r][s] <= yes[r] + stuck[r]

\* "nothing was saved: the person may say yes again" (webhook.py): an exception that gives a claim back comes
\* from a run that wrote nothing.
GivenBackUnsaved ==
  [][Raise => \A s \in Saves : saved[run[Asker].req][s] = 0]_vars

\* The cancel gate "works at EVERY stage" (webhook.py): what the asker cancelled is not carried out.
CancelledIsNotCarriedOut ==
  [][\A r \in cancelled : saved'[r] = saved[r]]_vars

=============================================================================
