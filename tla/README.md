# OrchestrAI: a verification project

OrchestrAI is a chat bot (WhatsApp, Telegram) with an admin panel for housing societies and small
businesses. People describe a request, a language model fills in a draft, the person confirms a card
and a workflow is carried out. Around that run every-minute jobs: announcements to many people,
reminder plans on tickets, scheduled reports, flows that start by themselves. Several copies of the
app may run at once over one Postgres and one Redis.

The code has many tests of single functions. What they hardly reach is what happens *between* the
steps of two turns, two jobs or two copies, and after a crash in the middle. That is what these
modules are for.

## 1. Inventory

| Component | Code | State it keeps | Operations | How it meets the others |
|---|---|---|---|---|
| Announcements | `services/announcements.py`, `admin_panel/announcements.py`, `housing-0017` | `announcements.status, send_at`; one `announcement_recipients` row per person; `ann:{wamid}` in Redis | create, edit, cancel, send now (panel); `run_due` every minute; `run_one`, `send_one`; `on_reports`, `on_got_it`, `delivered_later` | sends through reach; woken by the job, by the panel and by Meta's webhook |
| Reach | `services/reach.py` | kept messages per phone (`wait:`), last inbound time, `sent:{wamid}` | `deliver_text`, `hold`, `deliver_waiting`, `handle_failed_reports` | used by every sender; woken by the person writing and by reports |
| Chat turns | `routers/webhook.py` | `turn_lock:{phone}`, the session, `confirm_claim:*`, held photos | `handle_message` and everything in it | calls agent, executor, draft store, reach |
| Drafts | `services/draft_store.py` | the active row of `user_drafts` | `upsert_draft`, `close_draft`, `get_active_draft` | written by agent, webhook, executor |
| Execution | `services/action_executor.py` | none | `execute_pending_action` | runs the workflow engine, closes the draft |
| Agent | `services/agent.py` | the turn's patch of the session | tools `update_draft`, `confirm_action`, `cancel_draft`, ...; the same by code | writes the draft at once, the session at the end of the turn |
| Reminder plans | `services/reminder_plans.py`, `housing-0013` | `case_reminder_log`; the ticket's clock columns | `run_org`, `due_steps`, `fire`, `_hand_over` | reads and reassigns tickets people work on; sends through reach |
| Job lock | `scheduler/locks.py`, `_tick` | a Postgres advisory lock per job | `run_if_free` | wraps every job |
| Scheduled reports, case reminders | `scheduler/jobs.py` | `scheduled_reports.next_run_at`; sent columns of tickets, failures in memory | `compute_next_run`, `run_scheduled_reports`, `run_case_reminders` | the query engine, reach |
| Flow schedules, after-flows | `services/flow_triggers.py`, `admin_panel/triggers.py` | `flow_schedules`, `flow_chains` | `next_run`, `run_due_schedules`, `chain_problem`, `after_done`; saving and removing in the panel | the workflow engine, whose end starts further flows |
| Workflow engine | `services/step_interpreter.py` | none of its own; a run's context | `run_workflow_steps`, one function per step type | run by the executor, by answers of approvers and by the timers |
| Approvals | `executor/workflow_executor.py` | `approvals` rows with the request's fields and step number | ask, answer, next level, resume | two people's chats and the engine |
| Flows in the panel | `admin_panel/studio.py`, `build.py`, `workflows.py`, `roles.py`, `services/workflow_publisher.py` | `workflows`, `workflow_versions`, `workflow_roles`, permissions of roles | make, save, restore, switch, delete, tick roles | every run reads the flow and the roles they leave |
| One-time codes, identity | `services/otp_service.py`, `services/identity.py`, `routers/webhook.py` | `otp_tokens`, `users`, sessions of unknown chats | mail, check; link, sign up, set an address | the front of every chat; a gate of flows |
| Tickets and their people | `services/case_ops.py`, `godrej_002/003/007`, `admin_panel/case_buttons.py` | `cases.case_number, assigned_to_id`; `case_parties` with its trigger | `file_a_complaint`, `case_pass_on` (chat, dashboard), `notify.parties` | steps of the workflow engine; reminder plans hand tickets over too |
| Migration tool | `tools/migrate.py` | `schema_migrations` of every database, its advisory lock | plan, apply | other people's runs of the tool over the same databases |
| Forms, clients, photos, queries, documents, settings, retention, the panel's other pages | see `PROJECT.json` | | | |

The hard behaviours: turns, jobs and panel requests that overlap; two copies of one request (session
and draft) that must agree; locks with a lease; claims taken before work that may die; reports that
overtake the write they report on; a condition checked before a change made later.

What makes each component correct:

* announcements: each person gets it once at most; a cancelled one is never sent; "sent" means every
  row is settled; nothing shown as reached was left out; what began is finished.
* chat: one turn at a time; no turn erases what another wrote; a card is carried out once, but for turns that die
  or fail right after it; a request that was closed stays closed; a crash blocks nobody for ever.
* reminder plans: a step acts once per cycle; only the furthest step speaks; the row tells no less
  than what happened; a hand-over that is due happens; nobody who acted loses the ticket.
* scheduled reports and flow schedules: each slot once, and always the right next slot; flows that follow
  each other come to an end.
* case reminders: told once, marked for a reason, marked in the end, whatever fails on the way.
* approvals and gates: nothing behind a gate before everybody it asks has said yes; one answer decides;
  each step once for a yes of the asker, through halts in other people's turns.
* codes and linking: a chat gets an account only by a code mailed for it; guesses are counted.
* reach: what cannot be sent is kept or mailed, and nobody gets it twice unless a send raised after it left.
* flows in the panel: no version and no edit is lost; who may use a flow may do its own steps; the blocks it
  runs are there.
* tickets: who handled one stays on it and hears who has it now; numbers differ.
* migrations: what is recorded was done, once and in order; exit code 0 means all was.

`PROJECT.json` lists every hazard at its line with the properties that answer it.

## 2. Modules

| Module | Models |
|---|---|
| `ClaimOnce` | the abstract promise shared by all "take it first, then do it" mechanisms: work is taken by one, done at most once, and only after it was taken |
| `Announcements` | one announcement from planned to sent, with the runs that send it, reach's kept messages and WhatsApp's reports; implements `ClaimOnce` |
| `AnnouncementsProofs` | types, one sender, at most once, the refinement; cancelled is never sent, sent is settled, reached is true |
| `Conversation` | one person's chat: the turn lock, the session and the draft, the confirmation claim, executing, the agent's writes, photos after the turn |
| `ConversationProofs` | types, one turn, one runner, nothing erased, run once, closed stays closed |
| `ReminderPlans` | one ticket under a plan, the job in several copies, the people working on the ticket, the clock trigger; implements `ClaimOnce` |
| `ScheduledReports` | `compute_next_run` over a calendar, the job that runs reports in several copies, people changing their reports |
| `ScheduledReportsProofs` | types, once per due time, nothing left out |
| `GatedFlows` | carrying out a request through its gates: the step runner, the approval rows, answers, resumed runs, an edit of the flow in between |
| `GatedFlowsProofs` | types, one answer decides, nothing before its gates |
| `FrontDoor` | chats that are not linked yet, accounts without an address, and the one-time codes |
| `Chat` | `Conversation` and `FrontDoor` side by side |
| `FrontDoorProofs` | types, bound by a code only, guesses are counted |
| `FlowSchedules` | `next_run` over working days and months, the job that runs due flows in several copies, the panel beside it |
| `FlowChains` | the flows that start after others: choosing, the loop check, the runs with their depth limit |
| `Timers` | `ReminderPlans`, `FlowSchedules` and `FlowChains` side by side |
| `TimersProofs` | of `ReminderPlans`: types, once per cycle, honest rows, the refinement, in order; of the other two: types, each moment once, chains end |
| `CaseReminders` | the job that reminds of open cases, organisation after organisation |
| `InTheEnd` | `Conversation` and `CaseReminders` side by side |
| `CaseRemindersProofs` | types, marked for a reason, told only once |
| `Reach` | one person's 24-hour door: sending, keeping, mailing, the turn that takes the kept list, refusals that come later |
| `FlowEditing` | the panel's requests on flows and on the roles that may use them |
| `Tickets` | the people of a ticket: filing it, passing it on, a plan's hand-over, who is told whom it is with |
| `Workflows` | `GatedFlows`, `FlowEditing` and `Tickets` side by side |
| `FlowsProofs` | of `Tickets`: types, nobody drops out, numbers differ, the last word is true; of `FlowEditing`: types, nothing replaced is lost, no edit is overwritten, what flows need is met |
| `Migrations` | several people's runs of the migration tool over the control and the client databases |
| `MC*` | values of the constants for TLC, and how the modules that stand side by side take turns |

Components of one subsystem stand side by side in a module: `Timers`, `Chat`, `InTheEnd` and `Workflows` declare
the constants and variables of all of them, take those that do not come by EXTENDS as instances (`Timed`, `Chained`,
`Door`, `Case`, `Edit`, `Ticket`), assume of their constants what those components need (`TimedGiven` and so on), and state
their properties. The properties are theorems of the instances' specifications for any constants, and the runs
check the same definitions: `MCChat`, `MCTimers` (which adds `Reach`), `MCInTheEnd`, `MCFlows`, and `MCUpkeep`
(`ReminderPlans` with its fairness beside `Migrations`). The components share no state, so in a run a behaviour is a
behaviour of one of them: the variable `part` says of which, and the others keep their first values.
That is a sum, not an interleaving: nothing is gained or lost by it but a run.

Each definition's comment says what it is in the code; `PROJECT.json` "map" gives its lines.
Definitions marked `Mutant` are wrong variants of the definition below them. No action uses them:
they stand for a plausible mistake in that code, and putting one in the place of the right definition
makes the property named in `PROJECT.json` fail.

### Announcements

A *runner* is one call of `run_one`: the job's (one at most, thanks to the job lock) or one started
by "Send now". `row` is `announcement_recipients.status` ("none": no row); `send[r][p]` is where the
task `send_one` of runner `r` for person `p` is, with the result it is about to write. `handed`
counts how often the message left: it is history, no code reads it. Each database statement or
transaction, each Redis command and each call out is a step of its own, except that

* `_start` and the read of the status after it are one step (the status only moves on after it);
* noting the id and updating the row in `delivered_later` are one step;
* a send and reach's note of it (`sent:{wamid}`) are one step.

`held` and `late` are what reach keeps for a person and what `deliver_waiting` has taken. `tracked`
is the set of fates of the person's messages whose ids are noted; it never shrinks, so a report may
come late, again and in any order without an action of its own.

Assumed: STUCK_MINUTES (ten) are longer than any send in flight (the clients' timeouts are 10 to 60
seconds), so that no result is written over a row already counted as stuck: that hazard
(`announcements.py:512`) is assumed away here, and no property answers it; Redis answers; reach is switched on; a kept message delivered late is not refused a second
time for the 24 hours, as the person has just written.

### Conversation

`session` is `session["pending_action"]` in Redis, `draft` the active row of `user_drafts`; both are
cards: request, stage, and the `created_at` (a *stamp*) by which a confirmation card is recognised.
`copy[m]` is the session as turn `m` holds it in memory: `set_session` writes the whole of it, which
is how one turn can erase another. `mine[m]` is the card the agent or the photo part works on. `pc[m]`
walks through `handle_message`; it stops at each await that another turn can see. `claims` are the
`confirm_claim` keys. The stages after the lock is given back ("photos" to "mark") are
`_attach_held_photos`, which runs in the `finally`.

The agent is any sequence of tool effects (`Fill`, `Confirm`, `Drop`) followed by a reply or an
error, so everything the language model may choose is included. What a message says is not modelled:
any branch that the stage allows may be taken. The cancel gate, the cancel words on a card and the
reprompt cap do the same to the state and are one action, `Cancel`.

Left out: paths without Redis (the code says it goes on unprotected), forms, approval buttons (`GatedFlows`), the
text history, messages that are only a photo, and what a workflow that failed half-way has already
written. A workflow's verdict is any of done, error, refusal, exception or a gate. After "done" `close_draft` may
raise (`CloseRaises`): the claim of the yes is given back and both copies stay, although all was saved. `cut`
counts those turns and the ones that died at that place, and `RunOnce` allows one more run for each. After a
refusal (`webhook.py:1879`) the session is popped and the draft row stays, so the request is not counted as told
closed: the next message may bring it back.

### ReminderPlans

`ticket` is the row of `cases` with its clock; the clock counts in units of the plan, so a share is a
number of units. `since` counts hand-overs and stands for `assigned_at`; `acted` says under which
hand-over each person last did something. `log` is `case_reminder_log` by key (step, cycle, repeat).
`snap`, `todo`, `skip`, `doing` are what one pass holds in memory. `jobLock` is the advisory lock;
`LoseLock` is its connection being lost while the pass goes on over other connections.

Left out: `raise_priority`, `plan_for` (which plan applies), who exactly is told, edits of the due
date, and reopening straight into a status that pauses. The backup that gets the ticket is any of
them (the code takes the one added first). In quiet hours message-only steps wait; the model lets any
pass fall into quiet hours.

### ScheduledReports

An instant is a minute in India's time (which has no summer time), counted from the start of a
calendar whose months begin on given days (`Starts`); December to January is a change of month like any other. `plan` is
the schedule of a report, which nothing changes; `state` and `next` are `is_active` and
`next_run_at`. `asOf[c]` is the job's `now`, from which it computes the next run even when somebody
resumed the report since. `Run` is `run_agent` and the delivery, which do not touch the row; both may
raise. `Write` is the UPDATE, once after the delivery (`Save`) and once in the handler
(`Reschedule`). `last` and `again` are history. The clock moves once during a pass at most, as
`_tick` cuts a pass off after 50 seconds. Left out: seconds, the channel, a database of an
organisation that cannot be read, and a weekday nobody could have created.

### GatedFlows

A request `r` is what the asker is shown a card of. `card` is the asker's pending action in the session, with its
stage and `resume_step` (`at`), `draft` the request of the active row in `user_drafts`, which no halt changes;
`claimed` are the requests whose card cannot be claimed now. `rows` are the approval rows with the step number they
stopped at, `run[p]` the run of steps going on in the turn of person `p` (the asker's own, or an approver's who acts
for the asker), `tap[p]` an answer between its read of the row and its end. A step of the workflow is a string; those
that write count in `saved`. Every statement is a step of its own, in the order of the code: the row is read as
pending, updated by id alone, then the next level's row is made or the flow resumed **in the version that is
published by then**.

A card is confirmed more than once in three ways, and all are in the model. Its claim runs out (`ClaimRunsOut`) or is
given back after an exception (`Raise`). It is lost from the session and brought back from the row as a card from
the first step on (`LoseCard`, `Rehydrate`). Or it waits for an approval, a message about it goes to the agent, and
`confirm_action` shows the same dict again, with its `resume_step` (`ConfirmAgain`). So steps **are** carried out
again in the code; `EveryStepOnce` says how often at most: once per claimed yes (`yes`), and once per run after a
code that was left half-way (`stuck`), after which the card still waits for a code. `renewed` are the requests whose
card was shown again with a step number: a yes to it runs on behind the gate with nobody's answer, so `Gated` exempts
them (see 4), as it does `edited`, the requests that met another version. `yes`, `stuck`, `renewed`, `proven`, `edited`
and `answers` are history.

Left out: what a step computes, who is told and how; the draft that is still being filled in; a Redis that is down,
with which every yes is claimed. Approval rows that no approver was found for are made as the code does and stay.

### FrontDoor

`account` is the `users` table, `tokens` `otp_tokens`, `link`, `setup` and `auth` the three things Redis
remembers of a chat (a linking session, an address set-up, a valid session), `turn` the message in
progress. Of a code only what it was mailed for and whether the chat read it in a mailbox of its own counts.
`recent` are the accounts whose newest code is younger than the cooldown, for
which no other is made. `entered[c]` is history: the codes accepted in chat `c`. A code is read and marked as used in
two statements, so two chats of one account may both have it accepted: `KnownByCode` asks that it was mailed for that
account and that the guesses are counted, not that it is used once.

### FlowSchedules, FlowChains

An instant is a part of a day in the organisation's zone. `next_run` is modelled day by day as it searches;
the properties compare it with moments found on their own. `pass[c]` is a run of the job in copy `c`, which
moves the slot on in a compare-and-set and then starts the flow. In `FlowChains` `stack[s]` is a run with
the runs it started nested in it; `panel[a]` is a request between the check and the save.

### CaseReminders

One pass takes the organisations and the two kinds of message in order; `failures[c]` is the dict in the
memory of a copy, lost when that copy restarts. Telling is a step per person, marking another.

### Reach

`waiting` is the Redis list of one phone, each item with the report it is a copy of and when it was kept;
`keep`, `hand` and `about` are calls of `_keep`, the list taken by the person's turn and reports in
progress, each with what it has read. A send that raises may have left all the same: a message whose answer was lost,
or the first parts of a long text (`messaging.py:73-80` sends 4000 characters at a time). `SendFails` and
`TakenNotSent` then keep all of it for another time, `SendRepeats` and `TakenRepeated` are the plain text that
`_send_with_got_it` sends after the button raised. `raised[m]` counts how often `m` left in such a send, and
`ReachedOnce` allows one more copy for each.

### FlowEditing

`row` and `kept` are `workflows` and `workflow_versions`, `permissions` what roles hold: permissions and
flows ticked. `page[a]` is an editor somebody has open with the version it was opened at (`base`), the version its
words started from (`from`) and the one it shows as live (`live`). `draft[f]` is `settings.plain_draft`, by the version
its words started from: it is kept a moment after each change with no check of a version (`KeepDraft`), and shown to
whoever opens the flow in plain words next, with the version that the flow has by then (`OpenPlain`). `late` are the
flows whose draft was kept by a page that showed an earlier version. The save locks the
row and is one step; what follows it (`sync_role_grants`) is read, worked out and written statement by
statement. `create_workflow` looks for a free key in the transaction that inserts the row (`FreeKeys`); the
insert of the later of two that found the same key fails (`CreateFails`). "Build with AI" makes a new flow, reads
which version it has by now (`ReadBase`), and saves it once more with its plain words and without its steps. A key
is used for one flow only: of a flow that was deleted the model keeps the history. `made` and `raced` are history:
how each version came about, and whether two requests were under way at once.

### Tickets

`tickets` are rows of `cases`, `on` the rows of `case_parties` that have not ended; the trigger on `cases` moves
the assignee's row with the handler, in the same statement. `run[p]` is a flow of person `p` between two of its
steps: each step is a statement of its own and stays done when a later one fails (`BreakOff`). `plan[t]` is the
hand-over of a reminder plan between its read of the tickets and its messages. `seen` and `old` are the handler
somebody read before: **that** one is kept on the ticket, whoever has it by then. `heard`, `word`, `been`,
`raced` and `crowded` are history: whom each person last heard the ticket is with, whether its last change of
handler has been made known by one alone (`word` is "mixed" when two change it at once, one breaks off, a
message does not arrive, or somebody is put on the ticket whom nobody tells), who ever had it, whether a handler was replaced by somebody who had
read another, whether two records were saved at once. `unique` says whether the table has a unique rule on its
number, as `cases` has and a table made in the panel has not.

### Migrations

`text[f]` is what a file says on disk, 0 while it is not written; `run[r].files` is what the checkout of a run
said when it started. `recorded` is `schema_migrations`, `effect` the statements that took effect, in order.
A batch of files that run together is one step, as it is one transaction; a file that runs alone takes a step
per statement and one for its row. `lock` is the advisory lock of a session, so it goes with the connection; a
lost connection may have committed or not. Left out: how a file is read and checked, the refusal of hosts that
are not local, the tool's `--status`.

## 3. Runs

| Run | Question | Bounds |
|---|---|---|
| `announcements` | safety of sending, refinement of `ClaimOnce`, is what began finished? | 2 people, the job and one "Send now", batches of 1, one stop |
| `announcements_undone` | **violated**: a report that overtakes `send_one`'s write is undone | 1 person, no stop |
| `conversation` | turns, cards, both copies of a request; linking and codes | 3 messages, 2 requests, 3 stamps, one crash; 2 chats, 2 accounts, 2 addresses, 2 codes, one fault (with the second table only) |
| `in_the_end` | overlong turns, the lock always comes back; case reminders | 2 messages, 1 request, a crash **or** an overlong turn (`OneFault`), a photo; 2 organisations, 2 kinds, 2 tries, one fault |
| `conversation_photos` | **violated**: a photo brings a closed request back | 2 messages, no crash |
| `conversation_retry` | **violated**: a retry word clears one copy only | 3 messages, no crash |
| `reminder_plans` | once per cycle, order, honest rows, refinement of `ClaimOnce`; flow schedules; chains; reach | 2 copies, 2 people, 2 share steps and a repeating one, 2 units, one fault; schedules: 2 copies, 2 cadences, 5 parts of days, 2 requests, one fault; chains: 3 flows, 2 admins, one run; reach: 3 messages, 2 reports, 2 hours, one fault |
| `upkeep` | is a due hand-over logged? migrations: recorded, done, in order | 1 copy, one fault, one reopening, one assignment; 2 runs over 2 databases, 5 files of which one runs alone in two statements, an edit **or** a fault |
| `reminder_plans_taken` | **violated**: the ticket is taken from someone who acted | 1 copy, no fault, one assignment |
| `scheduled_reports` | once per due time, the right next time, a due report moves on | 2 copies, a report of each of five kinds, 20 minutes of a small calendar, one fault, one change |
| `scheduled_reports_month_end` | **violated**: a monthly report of a day the next month lacks | one report, no fault, no change |
| `gated_flows` | gates, levels, answers, each step once per yes; editing flows; tickets | 2 requests, 2 approvers, 2 levels, and beside one request a fault or an edit; 2 yes to one request with 3 approval rows; 3 flows, 2 admins, 3 requests one at a time of which one dies, or 2 at once; 2 complaints at once, or one with two hand-overs, or one and a fault |

Why the bounds are enough to be worth running: two runs with batches of one have sends in flight at
the same time; a stop between any two steps is followed by another run; three messages are a yes, a
second yes and whatever comes between or after; two requests let one be closed while the other opens;
three stamps allow a card, its correction and a new card. Two copies and one lost lock are two passes
over the same snapshot; two share steps are "furthest" and "skipped"; two units let the ticket move
between them. The small calendar (days of three hours of two minutes, weeks of three days, months of
three, two, three and three days) has every border of the real one within reach: the end of an hour, a
day, a week, a long and a short month. Two approvers and two requests are
the smallest in which an answer can meet another's row; two chats and two accounts the smallest in which a
code may be given in the wrong chat; a list of one kept message is full at once; three flows let a block be
used by one and deleted beside another. A second yes is what it
takes to see a claim that ran out, a card brought back and a card shown again (`MaxYes`). The conjuncts called `Few`,
`Quiet` and `Sparse` in `MCTimers`, `MCFlows`, `MCUpkeep` and `MCGatedFlows` cut pairs of rare events (a third message
*and* a fault, a double report *and* a fault, a second request *and* a lost card) and say so at their definition.
`MaxCrashes` of `Conversation` bounds the turns that die and those whose `close_draft` raises together.
Systems may really stop (all is sent, all messages are over), so deadlock is not checked.

**Fairness.** `Announcements`: the job comes back each minute, each call out has a timeout, time
passes; nothing is assumed of the panel, the person or WhatsApp. `Conversation`: a waiting message
polls until its wait is over, the calls of a turn have timeouts and the agent's rounds a limit, and
Redis expires a lease. `ReminderPlans` and `ScheduledReports`: each copy's
scheduler ticks and a pass makes progress; the clock need not move. `CaseReminders`: the same of its job. In
`in_the_end` the fairness is of each part's actions, with `part` in their guard, so it says nothing of the
other. Crashes and lost locks are never fair, and bounded.

## 4. What the violated runs show

1. `NeverUndone`: `_move` says a status only goes forward; `send_one` writes `sent` unconditionally
   after it noted the id, so a quick "read" is overwritten.
2. `ClosedStaysClosed` with photos: the photo part runs after the lock was given back and may upsert a
   draft another turn has just closed.
3. `ClearedStaysCleared`: a retry word at the code prompt clears the session only; the row brings the
   request back, which is what the docstring of `_clear_stuck_draft` warns of.
4. `TakenFromIdle`: the condition "nobody has acted" is asked once, the hand-over is unconditional.
5. `OncePerSlot` at the month's end: the next run cannot be computed once the report is out, so it is
   due again in each pass until the month is over. A test of the repository names this as a known bug.

Disagreements of the same kind that have no run of their own; where a definition is named it stands in the
module, is not checked by any run, and TLC refutes it when it is:

* midnight as the hour of a report is taken for no hour (8 or 9 o'clock), `jobs.py:52`;
* a monthly report of the 31st that ran on the 28th of February is due on the 28th of March too (`jobs.py:86` keeps the
  shortened day), so it runs twice in that month. `NothingLeftOutHolds` assumes days that every month has;
* `_one_turn_at_a_time` says "in the order they arrived" (`webhook.py:726`); waiting messages poll, so any of
  them may be next. The properties hold in any order;
* `FlowSchedules!FirstMoment`: `next_run` says "the first moment after" (`flow_triggers.py:180`); a monthly
  flow moved off a holiday may pass over one (the search starts at the named day, not at the moved one);
* `FlowChains!NeedsNobody`: a flow that starts by itself "has nobody to ask" (`flow_triggers.py:18`), but
  `_HALTING_STEPS` (line 50) lacks `ask_approval`;
* `GatedFlows!CancelledIsNotCarriedOut`: the cancel gate works "at EVERY stage" (`webhook.py:1609`); an
  approval row outlives the cancelled request and its answer carries it out;
* `GatedFlows!GivenBackUnsaved`: after an exception "nothing was saved" (`webhook.py:1821`); earlier steps are. The
  exception may even come from `close_draft` after the last step (`action_executor.py:88-95`; `CloseRaises` in
  `Conversation`), and the next yes then carries the whole request out a second time;
* `GatedFlows!BehindTheGatesAlways`: "resume_step always lands AFTER this step once the whole chain clears"
  (`step_interpreter.py:914-916`). The halt writes it to the session at once (`webhook.py:1867-1874`), the agent's
  `confirm_action` shows that same dict again as a card (`agent.py:3764-3768, 3883-3885`), and when the claim of the
  first yes has run out, a yes to it runs on behind the gate while nobody has answered. `Gated` exempts such requests
  (`renewed`);
* a card that is brought back from the draft row (`webhook.py:1682-1708`) has no `resume_step`: after a halt or a turn
  that died its next yes carries out again what was saved before. `EveryStepOnce` therefore counts by yes;
* a request that waits for an answer is resumed at its step number in a flow that was edited since: a gate or a
  step may be skipped or done again. That is why `Gated` and `EveryStepOnce` exempt `edited` too;
* `CaseReminders!DueIsMarkedWhateverOthers`: a bad table "skips just this org's pass" (`jobs.py:402`);
  settings that raise end the whole run;
* `FlowEditing!SharedStays`: unticking a flow must not break another that shares its permission
  (`workflow_publisher.py:155`); with two requests at once it does, as the read and the write are apart;
* switching a flow on again "restores" its roles (`workflow_publisher.py:273`) from the last kept version,
  which does not know of roles ticked since (290-299);
* `FlowEditing!DraftsBuildOnTheLast`: a save of a page that is no longer the flow's is refused, "Someone saved it while
  you were editing" (`studio.py:492-497`), but the draft of such a page is kept without a look at the version
  (`build.py:264-281`, `ui/js_build.py:105-115`). The next page shows it with the flow's version (`build.py:224-226`,
  `ui/js_build.py:64-65`), and making it live puts the words of before over the other person's edit, with requests one
  at a time. The version that is lost is kept among the old ones. `EditsBuildOnTheLast` exempts those flows (`late`);
* `FlowEditing!UsesEndToEnd`: "ticking a role on here means this role can actually use this workflow end to end"
  (`workflow_publisher.py:154-156`), but only a flow's own steps are looked through (50-76): what the steps of a block
  that it runs ask for is given to nobody, and is a warning at most (`step_catalog.py:1147-1151`). `NeedsAreMet` speaks
  of a flow's own steps;
* two admins who choose at once how a flow starts pass both checks, and leave it with two ways to start or a circle of
  flows (`flow_triggers.py:261-300` is read before the save). `OneWayToStart`, a part of `ChainsEnd`, exempts such flows
  (`raced`); that a chain is cut all the same, `ChainIsCut`, exempts nothing;
* `reach.py:673-676` says of kept messages that could not be sent "keep them for the next time": a long text goes out
  in parts, and when a later part raises, those that left are kept and sent again with the rest (`raised`);
* between the commit of a save and `_forget_plain` (`studio.py:659`) a page opened in plain words shows the old
  words with the new version number, and saving it loses the edit: `EditsBuildOnTheLast` exempts it;
* `reach.py:308` keeps the newest copy of a report; one that is kept again after its send failed, or that a
  refusal brings back, pushes out a newer one. `OneCopy` asks it without faults only;
* `godrej_002_case_model.sql:235` says nobody is removed when a case is handed on, and `_hand_over` that the old
  handler "keeps hearing about it"; of two hand-overs at once the later keeps the handler it read, and the trigger
  takes the one in between off the ticket. `NobodyDropsOut` exempts such tickets (`raced`);
* the same happens the other way round: a hand-over that read its handler before it dropped off keeps it as a
  helper, so it is on the ticket again and was never told who has it since, against "keeps hearing about it". The
  level-2 people of a complaint that was passed on before they were added are not told either (`case_ops.py:313`
  only inserts). `LastWordIsTrue` exempts such tickets (`word` is "mixed");
* `step_interpreter.py:1260`: "Use advisory lock to prevent duplicate document numbers"; the lock is given back
  with the statement that takes it. `NumbersDiffer` exempts records saved at once in a table without a unique rule;
* `case_buttons.py:124` answers "Nothing was changed" when the flow crashes; the steps before stay done;
* a crash between `_take` and the send, or between dropping a note and `hold` in `handle_failed_reports`, loses
  the kept message; the mail of `hold` is what remains (`KeptOrMailed`).

## 5. Proofs

TLC checks the bounds above; the theorems hold for every value of the constants. Each rests on an inductive
invariant of its own, as hardly any of the properties is inductive as it stands.

* **AnnouncementsProofs.** `IInv` is `TypeOK /\ OneSender`. `AtMostOnce` alone is not inductive: one
  must know that what is still to be handed over was not handed over before, that two runs are never
  on their way to one person, and that nobody is on the way to an unclaimed row. From it:
  `TypeCorrect`, `OneSenderHolds`, `AtMostOnceHolds`. `ImplementsClaimOnceHolds`: the initial states
  map to the initial states and every step to a taking, one person's delivery, or a stutter.
  `JInv` is about what the rows say, on top of `IInv`: an announcement that has not begun has no rows
  (`UnbegunHasNoRows`), so what is cancelled has nobody to be claimed; what is kept, noted or about to be
  written for a person is of a message that left (`Traces`), so no report and no late delivery makes a row
  say more than happened. From it: `CancelledIsNeverSentHolds`, `SentIsSettledHolds`, `ReachedIsTrueHolds`.
* **ConversationProofs.** `TypeCorrect` needs that a workflow runs for a card and a photo goes onto a
  request (`InHand`). `OneTurnHolds`: with no overlong turn so far, a message inside its turn holds
  the lock; `LeaseRunsOut` only frees a lock nobody is inside. `OneRunnerHolds` does not use the lock
  at all: a running confirmation holds its claim, and no two running ones have the same.
  `NothingErasedHolds` assumes no photos and no overlong turns and adds to that what a turn holds of
  the session: from its first read to its reply, its copy is the session. `RunOnceHolds` and
  `ClosedStaysClosedHolds` stand on it and on `Settled`: what is open was asked for, the draft is closed before
  the session is cleared (`DraftGoesFirst`), a request that was told closed is in neither and in nobody's copy
  (`ClosedIsGone`), and one that ran is gone or its turn is clearing it (`RanIsGone`) unless that turn died or failed.
  The two hypotheses cannot be dropped: the run `conversation_photos` shows what a photo part does after the
  lock was given back, and a turn that outlasts its lease does the same.
* **TimersProofs, of `ReminderPlans`.** `IInv` adds two parts to `TypeOK`. `OneFires`: two copies never fire the same
  key, because a key is claimed only without a row and claiming writes it; the job lock is not used.
  `FiredInOrder`: what is done for a key is done by that copy, under a row that says "done" and in the
  order of `fire`, and nothing is done for a key without a row. Neither `OncePerCycle` nor
  `NotUnderstated` is inductive without it: a copy about to tell must not have told before, and a row
  that is about to say "failed" must be one for which nobody was told. The lemma `ToRunIsKeys` says that
  what is due is a key of the log; it needs periods that are positive. From it: `TypeCorrect`,
  `OncePerCycleHolds`, `NotUnderstatedHolds`, `ImplementsClaimOnceHolds`. `InOrderHolds`, an action property,
  does use the lock and says so (`lost = 0`). `Ordered` holds what it needs: one copy is in a pass; nothing gives
  a ticket a limit or takes it away; whatever a pass still has to run, the smaller shares have a row or get
  one first (`PassedFirst`); once a step was fired, nobody fires a smaller one (`NeverAfter`).
* **GatedFlowsProofs.** `Types` adds to the types that rows, answers and runs speak of requests and rows there
  are. `OneAnswerDecidesHolds` (`AInv`): for a level one person at most was asked, and while that person's answer
  is being dealt with the row is still pending (`StillPending`), although the update asks for nothing but the
  row's id; an `ask_approval` row, which several people may answer, is decided by its own compare-and-set.
  `GatedHolds` (`GInv`): of a request whose flow was not edited meanwhile and whose card was not shown again with the
  step of a gate (`Excused`), wherever it rests (a card waiting for
  a code, an approval row, an answer, a run of the asker or of an approver) all gates before that place
  have been passed, a row of a level only exists once the levels below it said yes, and answers and codes are
  never taken back (`Kept`). That the levels asked end with one whose ceiling covers the amount is arithmetic
  on the chain (`RequiredCover`, by the least number of a set of levels).
* **ScheduledReportsProofs.** `TypeCorrect` needs the calendar: what `compute_next_run` returns is an instant
  after the moment it was asked at, for every kind of schedule (`NextRunIsLater`).
  `OncePerSlotHolds` counts debts: a report will be run again for a time it was run for (`Owed`) only if a pass
  died or a next run could not be written, and each such fault is used up once (`OwedIsPaid`). It assumes
  `NoneRaises`, that no schedule comes upon a month without its day; the run `scheduled_reports_month_end` shows
  that it fails otherwise. `NothingLeftOutHolds`, an action property, compares `compute_next_run` with the first
  minute a schedule names: a moment is its day, hour and minute (`Coordinates`, `OnDayIs`, which rest on one number
  having one quotient and remainder), moments of one hour and minute are ordered as their days are, and between two
  days of one weekday, or of one day of the month, there is no third. It assumes `NoMidnight` (hour 0 is taken for
  no hour, see 4) and `EveryMonthHasTheDay`: a report for the 31st runs on a shorter month's last day and then keeps
  **that** day in the month after, or raises.
* **FlowsProofs, of `Tickets`.** `Typed` adds to the types where flows and hand-overs can be and that numbers are bounded.
  `NobodyDropsOutHolds` (`Kept`): who is about to pass a ticket on has kept the handler they read, in a row of its
  own that the trigger does not end. `NumbersDifferHolds` (`Numbered`): a number that is read and not yet saved
  is free, unless two were saved at once; that the highest number and one is free needs that a bounded set of
  numbers has a greatest one (`GreatestNumber`). `LastWordIsTrueHolds` (`Said`): one run or plan at most
  has the last word on a ticket, what it was told so far is right, and its handler has been told or is still
  on its list. Proving it corrected the model: with four hand-overs the former
  definition of `word` was too generous, as somebody who had dropped off may be put back by a stale read (see 4).
* **FlowsProofs, of `FlowEditing`** (as `Edit`). `EditInv` says more than the three theorems, none of which is
  inductive. `History`: a flow is at the last version that was made of it, what is kept is what was made, and all
  that was made is kept but for the version in the row. `Going`: of a flow that is about to be deleted the last
  version is kept, or it is the one that the request read and is about to keep; that this still holds when
  somebody saves in between is what makes deleting lose nothing. `Starting`: an open page and a request that saves
  start from the version they will have to find in the row, or are plain words that are not alone or come from a late
  draft. `Alone`: two requests under way means `raced`. `InWords`: while nobody raced and nobody died, the plain words
  and a draft that is not late say the flow's version, or the request that changed it is still on its way to dropping them. From it:
  `NothingReplacedIsLost`, with no condition at all, and `NoEditIsOverwritten`. Proving it corrected the model:
  a second making of the same key used to write over the history of the first (`FreeKeys`, `CreateFails`), and
  the save after "Build with AI" made a flow used to take the flow's first version for its base, which it only is
  if nobody saved in between (`ReadBase`).
  `NeedsAreMetHolds` needs two more invariants. `Blocked`: the flows can be put in an order in which each comes
  after the blocks it runs (`InOrder`), and what the one request under way found of its steps, `Fit`, still holds.
  `FitIsClear`: as long as the search of `validate_steps` finds more flows it has found as many as it made steps,
  so when it ends it has found all that is run. A flow that is not among what it runs can be put behind it: a
  change of numbers (`Renumber`), not an induction along a path. `Ticking`: a flow whose roles nobody is putting right
  can be used by every role that has it, and the request that is putting them right has read the roles it has not yet
  been through, and the other flows, as they are.
* **TimersProofs, of `FlowSchedules`** (as `Timed`). `EachMomentOnceHolds` has two halves. That a slot is dealt with
  once does not use the job lock: a pass claims a slot by moving the row on, and a row that runs is past every slot of
  it that was claimed (`RowsMoveOn`). For that a next run must be later than the pass's `now`, and a schedule that is
  saved must be a new one, which no other row or request has (`SavesAreNew`). Two passes that overlap after a lock was
  lost never deal with one slot (`PassesApart`), and each claimed slot that is neither dealt with nor in a pass's
  hand is paid by a fault (`FewLost`). The other half (`RowsFit`): every next run, in a row or about to be saved, is
  what `next_run` found, and what it finds is a moment of the cadence after `now` before which no moment was left out,
  but for a monthly one that was moved from a day that is over. It rests on moments being ordered as their days
  are, and on the search for a working day never going backwards (`NextWorkDay`).
* **TimersProofs, of `FlowChains`** (as `Chained`). `ChainsEndHolds` has two halves as well. `Cut`: the flows of a run
  differ and are one more than the depth at most, as `NextKid` asks both before it goes deeper; nothing is assumed of the rows.
  That no flow follows itself (`OneWay`) is about the links there are: by `AboveIsLed` what the loop check finds
  is what can be reached over the links, though it goes up only as often as there are flows. Adding a link
  closes no circle if its flow was not reached (`LinkClosesNone`), and taking links away closes none. `OneChoice` is what a
  request that is under way counts on: its check still holds when it saves, as nobody else adds a link meanwhile.
* **FrontDoorProofs.** `IInv` says what a turn counts on between two of its statements: `TurnsFit` (where a turn
  is and what it has read), `TokensFit` (rows of codes are of accounts and chats there are), `SessionsFit`. It
  holds although turns of other chats write the same tables in between. `BoundByCode` is then an invariant with
  it: a turn that is about to bind has entered a code that was mailed for that account, and an address is set up
  only from a session in which it was mailed. `GuessesCounted` counts: for each code the guesses compared, the
  turns that read its row and have not counted yet, and the attempts in the row (`Counted`); it needs that chats
  are finitely many.
* **CaseRemindersProofs.** `IInv` says what a run has come to about the case in its hand: whom it told, whom it
  still has to tell, whether it missed. `Marked` follows case by case. `OnlyOnce` is an argument by debts
  (`Accounted`): each person's tellings of a case beyond one are paid by a fault, and each copy that holds the
  case, could tell again, or told and did not mark it, by one as well. Copies are finitely many, and people of a
  case are listed once.

Model-checked only, because the prover cannot reach it: liveness (`BegunIsFinished`, `TurnComesBack`,
`DueIsLogged`, `DueIsMarked`, `DueMovesOn`), and what depends on ENABLED.

Model-checked only, although safety:

* `EveryStepOnce`: it counts the writes of one step against the yes and the runs left half-way of its request, so its
  invariant would have to say, for every place a request can rest at, which steps lie behind it and how much of what
  was counted is still to be spent there;
* `Reach` (`KeptOrMailed`, `ReachedOnce`) and `Migrations` (`Tracked`, `RunInOrder`): their steps take the members of
  a list that fit (`SelectSeq`) and put lists together. What these compute is defined by recursion over the list, of
  which the prover knows nothing, and an induction over lists is out of its reach.

`TypeOK` of `Tickets` is a part of `NumbersDiffer` in `Workflows`; that of `GatedFlows` and of `ScheduledReports` was
checked by TLC before it was proved and is in no run any more, as the theorem says more.

The proofs rest on the named assumptions of the modules only:

* `Announcements`: the job is not one of the "Send now" runs, a batch is positive;
* `Conversation`: messages are positive numbers, whether photos are taken is a Boolean, `None` is no request,
  stamp or card;
* `ReminderPlans`: steps, shares and bounds are numbers, the period of a repeating step is positive, `None` is
  no copy, person or key;
* `GatedFlows`: the asker and those who are asked are people, requests are numbers, a flow is a sequence of
  steps of which none that writes is a gate and each that writes has one place, the levels are a chain of at least one whose ceilings are numbers
  or no limit, `None` is no request, flow or word;
* `ScheduledReports`: months begin one after the other and last until after the last moment the clock reaches,
  schedules name hours, minutes and weekdays there are, `None` is no copy or report;
* `Tickets` (its `Given`, assumed in `Workflows`): roles and routing rules name
  people, the routed handler is not among the level-2 people, `None` and the words of `word` are nobody;
* `FlowEditing` (its `Given`, assumed in `Workflows`): flows are finitely many, blocks are flows, blocks have no ticks
  and only blocks are run by flows, permissions are not keys of flows, there is a role, what may be there at first are
  flows with steps whose blocks are there and run in no circle, `None` is no text, row, page or request;
* `FrontDoor` and `CaseReminders` (their `Given`, assumed in `Chat` and `InTheEnd`): chats and copies are finitely
  many, the people of a case are listed once, bounds are numbers, `None` is none of the values it stands beside;
* `FlowSchedules` and `FlowChains` (their `Given`, assumed in `Timers`): months and weeks have days and a day has
  parts, cadences name a part of a day, flows that may be linked are finitely many, a chain may have one flow at least,
  `None` is no number, slot, pass or flow.

TLC evaluates all of them, as the runs' modules extend these.

## 6. Plan

Done: sending, chatting, reminding, reporting, approvals and gates, codes and linking, timers, reach, editing
flows, tickets, migrations; the proofs of eleven components. Left, in this order:

1. Proofs of the modules that have none (see the list of section 5).
2. The duplicate check of incoming messages (`webhook.py:221`) with WhatsApp's retries.

## 7. Not modelled

* What steps compute and how text is made: the builder's prompts, queries, documents, prices, forms. They are
  functions of one request's data, and the data is the organisation's.
* Retention (`services/cleanup.py`): deletes by age that may be repeated.
* Messaging clients, the language-model router, databases and Redis: the models take from them what they
  promise (atomic statements and commands, a send that leaves or fails, any answer or none).
* Signing in to the panel and its pages over single rows.
* `publish_draft` and `run_builder_agent`: nothing calls them at this commit.
* In `Reach` the template and documents; in `Announcements` the page that writes the audience.
