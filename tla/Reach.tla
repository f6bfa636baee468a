-------------------------------- MODULE Reach --------------------------------
(***************************************************************************)
(* Reaching a person on WhatsApp inside its 24-hour rule (reach.py), as    *)
(* the flows and the scheduler use it.                                     *)
(*                                                                         *)
(* A message to somebody who wrote lately is sent.  Otherwise it is kept   *)
(* in a list in Redis and mailed; the person's next message makes the list *)
(* be sent.  What WhatsApp refuses after all is kept and mailed too.  One  *)
(* person; the messages to them, their own turn and WhatsApp's reports are *)
(* handled side by side, and every command to Redis, every mail and every  *)
(* send is a step.                                                         *)
(***************************************************************************)
EXTENDS Naturals, Sequences, FiniteSets

CONSTANTS
  Messages,    \* 1..n, in the order in which they are asked for
  Reports,     \* deliveries of WhatsApp's reports
  Turn,        \* the person's turn in the chat
  ReportOf,    \* ReportOf[m]: the scheduled report m is a copy of, or None
  None,
  Window,      \* WhatsApp's 24 hours
  Margin,      \* door_margin_minutes
  HoldTime,    \* hold_days
  HoldMax,     \* hold_max
  MaxTime,     \* bound: how long this is looked at
  MaxWrites,   \* bound: messages of the person
  MaxFaults    \* bound: commands, mails or sends that fail, processes that stop, a Redis that loses its data

\* What the constants have to be.
Given ==
  /\ Messages \subseteq Nat \ {0} /\ ReportOf \in [Messages -> {ReportOf[m] : m \in Messages}]
  /\ Margin \in 0..Window /\ HoldMax \in Nat \ {0} /\ {HoldTime, MaxTime, MaxWrites, MaxFaults} \subseteq Nat
  /\ Turn \notin Messages \cup Reports /\ Messages \cap Reports = {}

Holders == Messages \cup Reports \cup {Turn}

VARIABLES
  now,
  wrote,     \* when the person last wrote, None for never: the note "door:<phone>", and the chat log beside it
  unread,    \* messages of the person whose turn is still to come
  mailed,    \* messages that went out as an email
  mailbox,   \* whether an email address is on file
  waiting,   \* the list "waiting:<phone>"
  stage,     \* stage[m]: where deliver_text is with m
  noted,     \* messages with a note "sent:<wamid>"
  refused,   \* messages WhatsApp will say it could not deliver
  keep,      \* keep[p]: what p is putting into the list, or None
  hand,      \* what the turn took from the list and has not sent
  about,     \* about[r]: the message report r is of and how far it is dealt with, or None
  writes, faults,
  reached,   \* history: reached[m]: how often m was delivered in the chat
  held,      \* history: held[m]: until when m was to be kept, None if it was not
  raised,    \* history: raised[m]: how often m left in a send that raised all the same
  later,     \* history: later[m]: how many were put into the list after m
  twice      \* history: messages whose report was delivered twice at once

door == <<now, wrote, writes>>
history == <<reached, raised, held, later, twice>>
vars == <<door, unread, mailed, mailbox, waiting, stage, noted, refused, keep, hand, about, faults, history>>

Items == [msg : Messages, replace : {ReportOf[m] : m \in Messages} \cup {None}, until : Nat]
Steps == {"read", "remove", "push", "trim"}

TypeOK ==
  /\ now \in 0..MaxTime /\ wrote \in 0..MaxTime \cup {None} /\ unread \in 0..MaxWrites /\ writes \in 0..MaxWrites
  /\ mailed \subseteq Messages /\ mailbox \in BOOLEAN /\ faults \in 0..MaxFaults
  /\ waiting \in Seq(Items) /\ hand \in Seq(Items)
  /\ stage \in [Messages -> {"new", "send", "note", "keep", "mail", "sent", "held", "failed"}]
  /\ noted \subseteq Messages /\ refused \subseteq Messages /\ twice \subseteq Messages
  /\ \A p \in Holders : keep[p] # None => keep[p].todo \in Seq(Items) /\ keep[p].at \in Steps /\ keep[p].olds \subseteq Items
  /\ \A r \in Reports : about[r] # None => about[r].msg \in Messages
  /\ \A m \in Messages : held[m] # None => held[m] \in Nat
  /\ reached \in [Messages -> Nat] /\ raised \in [Messages -> Nat] /\ later \in [Messages -> Nat]

Init ==
  /\ now = 0 /\ wrote \in {0, None} /\ unread = 0 /\ writes = 0
  /\ mailed = {} /\ mailbox \in BOOLEAN
  /\ waiting = <<>> /\ hand = <<>>
  /\ stage = [m \in Messages |-> "new"]
  /\ noted = {} /\ refused = {}
  /\ keep = [p \in Holders |-> None]
  /\ about = [r \in Reports |-> None]
  /\ faults = 0
  /\ reached = [m \in Messages |-> 0] /\ raised = [m \in Messages |-> 0] /\ later = [m \in Messages |-> 0]
  /\ held = [m \in Messages |-> None] /\ twice = {}

-----------------------------------------------------------------------------
(* The door *)

Tick ==
  /\ now < MaxTime
  /\ now' = now + 1
  /\ UNCHANGED <<wrote, writes, unread, mailed, mailbox, waiting, stage, noted, refused, keep, hand, about, faults, history>>

\* record_inbound, then the turn of the message waits for its place.
PersonWrites ==
  /\ writes < MaxWrites
  /\ wrote' = now /\ writes' = writes + 1 /\ unread' = unread + 1
  /\ UNCHANGED <<now, mailed, mailbox, waiting, stage, noted, refused, keep, hand, about, faults, history>>

\* door_open: they wrote within the 24 hours, less the margin.
DoorOpen == wrote # None /\ now - wrote < Window - Margin

\* What WhatsApp itself goes by.
Inside == wrote # None /\ now - wrote < Window

Fails == faults < MaxFaults /\ faults' = faults + 1

-----------------------------------------------------------------------------
(* Putting items into the list: _keep *)

Live(s) == SelectSeq(s, LAMBDA i : i.until > now)
InList(m) == \E k \in DOMAIN waiting : waiting[k].msg = m

KeepAll(todo) == [todo |-> todo, at |-> "read", olds |-> {}]

\* The older copies of the same report.
Olds(item) == {i \in {Live(waiting)[k] : k \in DOMAIN Live(waiting)} : item.replace # None /\ i.replace = item.replace}

ReadOlds(p) ==
  /\ keep[p] # None /\ keep[p].at = "read"
  /\ LET olds == Olds(Head(keep[p].todo))
     IN  keep' = [keep EXCEPT ![p].olds = olds, ![p].at = IF olds = {} THEN "push" ELSE "remove"]
  /\ UNCHANGED <<door, unread, mailed, mailbox, waiting, stage, noted, refused, hand, about, faults, history>>

RemoveOlds(p) ==
  /\ keep[p] # None /\ keep[p].at = "remove"
  /\ waiting' = SelectSeq(waiting, LAMBDA i : i \notin keep[p].olds)
  /\ keep' = [keep EXCEPT ![p].olds = {}, ![p].at = "push"]
  /\ UNCHANGED <<door, unread, mailed, mailbox, stage, noted, refused, hand, about, faults, history>>

Push(p) ==
  /\ keep[p] # None /\ keep[p].at = "push"
  /\ LET item == Head(keep[p].todo)
     IN  /\ waiting' = Append(waiting, item)
         /\ later' = [m \in Messages |-> IF m = item.msg THEN 0 ELSE IF InList(m) THEN later[m] + 1 ELSE later[m]]
  /\ keep' = [keep EXCEPT ![p].at = "trim"]
  /\ UNCHANGED <<door, unread, mailed, mailbox, stage, noted, refused, hand, about, faults, reached, raised, held, twice>>

\* ltrim: the last hold_max of the list.
Newest(s) == IF Len(s) <= HoldMax THEN s ELSE SubSeq(s, Len(s) - HoldMax + 1, Len(s))

\* What comes after the last item of p: a message is mailed, the turn and a report are over.
Kept(p) ==
  /\ keep' = [keep EXCEPT ![p] = IF Len(@.todo) = 1 THEN None ELSE KeepAll(Tail(@.todo))]
  /\ stage' = IF p \in Messages THEN [stage EXCEPT ![p] = "mail"] ELSE stage

Trim(p) ==
  /\ keep[p] # None /\ keep[p].at = "trim"
  /\ waiting' = Newest(waiting)
  /\ Kept(p)
  /\ UNCHANGED <<door, unread, mailed, mailbox, noted, refused, hand, about, faults, history>>

\* Redis does not answer: the item is not kept, and only the log says so.
KeepFails(p) ==
  /\ keep[p] # None
  /\ Fails
  /\ Kept(p)
  /\ UNCHANGED <<door, unread, mailed, mailbox, waiting, noted, refused, hand, about, history>>

Keeping(p) == ReadOlds(p) \/ RemoveOlds(p) \/ Push(p) \/ Trim(p) \/ KeepFails(p)

-----------------------------------------------------------------------------
(* deliver_text *)

Over(m) == stage[m] \in {"sent", "held", "failed"}

\* The job runs a report once at a time; other messages are asked for at any moment.
MayBegin(m) == \A n \in Messages : n < m => stage[n] # "new" /\ (ReportOf[n] # None /\ ReportOf[n] = ReportOf[m] => Over(n))

Item(m, replace) == [msg |-> m, replace |-> replace, until |-> now + HoldTime]

\* Open: send.  Closed: keep it.
Look(m) ==
  /\ stage[m] = "new" /\ MayBegin(m)
  /\ IF DoorOpen
     THEN stage' = [stage EXCEPT ![m] = "send"] /\ UNCHANGED <<keep, held>>
     ELSE /\ stage' = [stage EXCEPT ![m] = "keep"]
          /\ keep' = [keep EXCEPT ![m] = KeepAll(<<Item(m, ReportOf[m])>>)]
          /\ held' = [held EXCEPT ![m] = now + HoldTime]
  /\ UNCHANGED <<door, unread, mailed, mailbox, waiting, noted, refused, hand, about, faults, reached, raised, later, twice>>

\* WhatsApp takes it either way; outside its 24 hours it will say later that it could not deliver it.
Send(m) ==
  /\ stage[m] = "send"
  /\ stage' = [stage EXCEPT ![m] = "note"]
  /\ IF Inside THEN reached' = [reached EXCEPT ![m] = @ + 1] /\ UNCHANGED refused
     ELSE refused' = refused \cup {m} /\ UNCHANGED reached
  /\ UNCHANGED <<door, unread, mailed, mailbox, waiting, noted, keep, hand, about, faults, raised, held, later, twice>>

\* A send that raises may have left all the same (no answer in time, a later part of a long text refused).
LeftAndRaised(m) == reached' = [reached EXCEPT ![m] = @ + 1] /\ raised' = [raised EXCEPT ![m] = @ + 1]

\* It raises: whoever asked is told so.
SendFails(m) ==
  /\ stage[m] = "send"
  /\ Fails
  /\ stage' = [stage EXCEPT ![m] = "failed"]
  /\ \/ Inside /\ LeftAndRaised(m)
     \/ UNCHANGED <<reached, raised>>
  /\ UNCHANGED <<door, unread, mailed, mailbox, waiting, noted, refused, keep, hand, about, held, later, twice>>

\* It raises with its "Got it" button, after it left: the plain text goes out behind it.
SendRepeats(m) ==
  /\ stage[m] = "send" /\ Inside
  /\ Fails
  /\ stage' = [stage EXCEPT ![m] = "note"]
  /\ reached' = [reached EXCEPT ![m] = @ + 2] /\ raised' = [raised EXCEPT ![m] = @ + 1]
  /\ UNCHANGED <<door, unread, mailed, mailbox, waiting, noted, refused, keep, hand, about, held, later, twice>>

\* _remember_sent, when WhatsApp has answered.
Note(m) ==
  /\ stage[m] = "note"
  /\ stage' = [stage EXCEPT ![m] = "sent"]
  /\ noted' = noted \cup {m}
  /\ UNCHANGED <<door, unread, mailed, mailbox, waiting, refused, keep, hand, about, faults, history>>

Mails(m, ok) == IF mailbox /\ ok THEN mailed \cup {m} ELSE mailed

Mail(m) ==
  /\ stage[m] = "mail"
  /\ stage' = [stage EXCEPT ![m] = "held"]
  /\ mailed' = Mails(m, TRUE)
  /\ UNCHANGED <<door, unread, mailbox, waiting, noted, refused, keep, hand, about, faults, history>>

MailFails(m) ==
  /\ stage[m] = "mail" /\ mailbox
  /\ Fails
  /\ stage' = [stage EXCEPT ![m] = "held"]
  /\ mailed' = Mails(m, FALSE)
  /\ UNCHANGED <<door, unread, mailbox, waiting, noted, refused, keep, hand, about, history>>

-----------------------------------------------------------------------------
(* The person's turn: deliver_waiting at its end *)

Resting == keep[Turn] = None /\ hand = <<>>

\* Mutant: the list is read and not emptied.
TakenLeft == waiting

\* _take reads and empties the list in one transaction.
Taken == <<>>

Take ==
  /\ unread > 0 /\ Resting
  /\ unread' = unread - 1
  /\ hand' = Live(waiting)
  /\ waiting' = Taken
  /\ UNCHANGED <<door, mailed, mailbox, stage, noted, refused, keep, about, faults, history>>

\* The turn raised, or did not get its lock in time: nothing is looked for.
TurnSkipped ==
  /\ unread > 0 /\ Resting
  /\ Fails
  /\ unread' = unread - 1
  /\ UNCHANGED <<door, mailed, mailbox, waiting, stage, noted, refused, keep, hand, about, history>>

InHand(m) == \E k \in DOMAIN hand : hand[k].msg = m

\* Mutant: only the first of them is sent.
SendTakenFirst ==
  /\ hand # <<>>
  /\ reached' = [reached EXCEPT ![hand[1].msg] = @ + 1]
  /\ hand' = <<>>
  /\ UNCHANGED <<door, unread, mailed, mailbox, waiting, stage, noted, refused, keep, about, faults, raised, held, later,
                 twice>>

\* How often m is among the first n of what was taken, which goes out as one text.
Among(m, n) == Cardinality({k \in 1..n : hand[k].msg = m})

SendTaken ==
  /\ hand # <<>>
  /\ reached' = [m \in Messages |-> reached[m] + Among(m, Len(hand))]
  /\ hand' = <<>>
  /\ UNCHANGED <<door, unread, mailed, mailbox, waiting, stage, noted, refused, keep, about, faults, raised, held, later,
                 twice>>

\* A long text goes out in parts, and any of them may raise: "keep them for the next time", those that left too.
TakenNotSent ==
  /\ hand # <<>>
  /\ Fails
  /\ \E n \in 0..Len(hand) :
       /\ reached' = [m \in Messages |-> reached[m] + Among(m, n)]
       /\ raised' = [m \in Messages |-> raised[m] + Among(m, n)]
  /\ keep' = [keep EXCEPT ![Turn] = KeepAll(hand)]
  /\ hand' = <<>>
  /\ UNCHANGED <<door, unread, mailed, mailbox, waiting, stage, noted, refused, about, held, later, twice>>

\* They raise with the button, after they left: the plain text goes out behind it.
TakenRepeated ==
  /\ hand # <<>>
  /\ Fails
  /\ reached' = [m \in Messages |-> reached[m] + 2 * Among(m, Len(hand))]
  /\ raised' = [m \in Messages |-> raised[m] + Among(m, Len(hand))]
  /\ hand' = <<>>
  /\ UNCHANGED <<door, unread, mailed, mailbox, waiting, stage, noted, refused, keep, about, held, later, twice>>

-----------------------------------------------------------------------------
(* handle_failed_reports *)

\* The note is read; without one the report is left alone ...
Report(r) == \E m \in refused \cap noted :
  /\ about[r] = None
  /\ about' = [about EXCEPT ![r] = [msg |-> m, at |-> "read"]]
  /\ twice' = IF \E s \in Reports : about[s] # None /\ about[s].msg = m /\ about[s].at = "read" THEN twice \cup {m} ELSE twice
  /\ UNCHANGED <<door, unread, mailed, mailbox, waiting, stage, noted, refused, keep, hand, faults, reached, raised, held, later>>

\* ... and dropped, and the message is kept, as a message of its own ...
Reported(r) ==
  /\ about[r] # None /\ about[r].at = "read"
  /\ LET m == about[r].msg
     IN  /\ noted' = noted \ {m}
         /\ keep' = [keep EXCEPT ![r] = KeepAll(<<Item(m, None)>>)]
         /\ held' = [held EXCEPT ![m] = now + HoldTime]
         /\ about' = [about EXCEPT ![r].at = "mail"]
  /\ UNCHANGED <<door, unread, mailed, mailbox, waiting, stage, refused, hand, faults, reached, raised, later, twice>>

\* ... and mailed.
ReportMailed(r) ==
  /\ about[r] # None /\ about[r].at = "mail" /\ keep[r] = None
  /\ mailed' = Mails(about[r].msg, TRUE)
  /\ about' = [about EXCEPT ![r] = None]
  /\ UNCHANGED <<door, unread, mailbox, waiting, stage, noted, refused, keep, hand, faults, history>>

-----------------------------------------------------------------------------
(* Faults *)

\* The process stops: what is in its hands is gone.
Stop ==
  /\ Fails
  /\ keep' = [p \in Holders |-> None] /\ hand' = <<>> /\ about' = [r \in Reports |-> None]
  /\ stage' = [m \in Messages |-> IF Over(m) \/ stage[m] = "new" THEN stage[m] ELSE "failed"]
  /\ UNCHANGED <<door, unread, mailed, mailbox, waiting, noted, refused, history>>

\* Redis loses the list and the notes; the chat log still says when the person wrote.
Wipe ==
  /\ Fails
  /\ waiting' = <<>> /\ noted' = {}
  /\ UNCHANGED <<door, unread, mailed, mailbox, stage, refused, keep, hand, about, history>>

Delivering(m) == Look(m) \/ Send(m) \/ SendFails(m) \/ SendRepeats(m) \/ Note(m) \/ Mail(m) \/ MailFails(m)
InTurn == Take \/ TurnSkipped \/ SendTaken \/ TakenNotSent \/ TakenRepeated

Next ==
  \/ Tick \/ PersonWrites
  \/ \E m \in Messages : Delivering(m)
  \/ InTurn
  \/ \E p \in Holders : Keeping(p)
  \/ \E r \in Reports : Report(r) \/ Reported(r) \/ ReportMailed(r)
  \/ Stop \/ Wipe

Spec == Init /\ [][Next]_vars

-----------------------------------------------------------------------------
(* Properties *)

Putting(m) == \E p \in Holders : keep[p] # None /\ \E k \in DOMAIN keep[p].todo : keep[p].todo[k].msg = m
Somewhere(m) == InList(m) \/ InHand(m) \/ Putting(m)
Newer(m) == {n \in Messages : n > m /\ ReportOf[n] # None /\ ReportOf[n] = ReportOf[m]}

\* Why a message that was kept need not be there any more: it was delivered, its time is over, a newer copy of the
\* same report came, or as many as the list holds were put behind it.
Gone(m) == reached[m] > 0 \/ now >= held[m] \/ later[m] >= HoldMax \/ \E n \in Newer(m) : held[n] # None

\* A message that is not delivered at once is not lost: when nothing fails it is kept until there is a reason why
\* not, and when one thing fails (a command, a mail, a send, a process, Redis itself) somebody with an address has
\* it by mail at least.  What WhatsApp refused later is as safe, when nothing fails.
KeptOrMailed == \A m \in Messages : held[m] # None =>
  /\ stage[m] = "held" /\ faults = 0 => Gone(m) \/ Somewhere(m)
  /\ stage[m] = "held" /\ faults = 1 /\ mailbox => m \in mailed \/ Gone(m) \/ Somewhere(m)
  /\ stage[m] = "sent" /\ faults = 0 => Gone(m) \/ Somewhere(m)

\* Nobody gets a message twice in the chat, whatever is taken, refused, reported, trimmed or stopped.  Each time
\* more is paid for by a send that raised although the message had left: all that was taken is kept again then, or
\* sent again as plain text.  (What WhatsApp reports twice at once is kept twice, and left out.)
ReachedOnce == \A m \in Messages : m \notin twice => reached[m] <= 1 + raised[m]

\* A person who comes back finds one copy of a report, the newest, as long as nothing fails.
OneCopy == faults = 0 =>
  \A k, l \in DOMAIN Live(waiting) :
    k # l => Live(waiting)[k].replace = None \/ Live(waiting)[k].replace # Live(waiting)[l].replace
=============================================================================
