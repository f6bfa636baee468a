------------------------------ MODULE MCTimers ------------------------------
(***************************************************************************)
(* The parts of Timers, and how what they send reaches a person (Reach).   *)
(* A behaviour is one of one of the four, the variables of the others keep *)
(* their first values.                                                     *)
(***************************************************************************)
EXTENDS MCReminderPlans, Timers

VARIABLES
  part,
  hour, wrote, unread, mailed, mailbox, waiting, stage, noted, refused, keep, hand, about, writes, failed,
  reached, raised, held, later, twice

ofReach == <<hour, wrote, unread, mailed, mailbox, waiting, stage, noted, refused, keep, hand, about, writes, failed,
             reached, raised, held, later, twice>>

\* Months of about four days, weeks of two with one day off, two times of day.
Months == <<4, 3, 4>>
Usual == [working |-> {0}, holidays |-> {}]
Other == [working |-> {1}, holidays |-> {3}]
Either == {Usual, Other}
Offered == {
  [every |-> "week",  time |-> 0, days |-> {0}, dayOfMonth |-> 1, workingOnly |-> TRUE],
  [every |-> "month", time |-> 1, days |-> {},  dayOfMonth |-> 2, workingOnly |-> TRUE]}

\* Two copies of a report and a message of somebody's, two hours to write in and one to spare, a list of one.
Told == INSTANCE Reach WITH
  Messages <- {1, 2, 3}, Reports <- {11, 12}, Turn <- 10, ReportOf <- [m \in 1..3 |-> IF m < 3 THEN "daily" ELSE None],
  Window <- 2, Margin <- 1, HoldTime <- 2, HoldMax <- 1, MaxTime <- 2, MaxWrites <- 2, MaxFaults <- 1,
  now <- hour, faults <- failed

\* A report is delivered twice at once only when nothing else goes on; the third message comes before a fault, and
\* not while the first is being sent, nor if that fault is a send that left; the person writes twice only to find
\* what was kept, or what left and raised.
Few ==
  /\ writes' = 2 => (failed' = 0 \/ raised'[1] + raised'[2] > 0) /\ noted' = {} /\ stage'[3] = "new"
  /\ about[12] = None /\ about'[12] # None => about[11] # None /\ about[11].at = "read" /\ about'[12].msg = about[11].msg
  /\ twice' # {} => failed' = 0 /\ stage'[3] = "new" /\ stage'[2] = "new"
  /\ stage'[1] = "send" => stage'[3] = "new"
  /\ failed' = 1 => stage'[3] = "new" \/ stage[3] = stage'[3]
  /\ raised'[1] + raised'[2] + raised'[3] > 0 => stage'[3] = "new"

ASSUME ToldGiven == Told!Given

TimersInit ==
  /\ Init /\ Timed!Init /\ Chained!Init /\ Told!Init
  /\ part \in {"plans", "timed", "chained", "told"}
  /\ part # "plans" => ticket.handler = anna /\ ticket.timed /\ backups = {}
  /\ part # "timed" => setting = Usual
  /\ part # "chained" => depth = 1
  /\ wrote = 0 \/ part # "told" => mailbox
  /\ part # "told" => wrote = None

TimersNext ==
  /\ UNCHANGED part
  /\ \/ part = "plans"   /\ Next         /\ UNCHANGED <<ofTimed, ofChained, ofReach>>
     \/ part = "timed"   /\ Timed!Next   /\ UNCHANGED <<vars, ofChained, ofReach>>
     \/ part = "chained" /\ Chained!Next /\ UNCHANGED <<vars, ofTimed, ofReach>>
     \/ part = "told"    /\ Told!Next /\ Few /\ UNCHANGED <<vars, ofTimed, ofChained>>

TimersSpec == TimersInit /\ [][TimersNext]_<<part, vars, ofTimed, ofChained, ofReach>>

\* What is not delivered at once is kept or mailed, and one copy of a report waits.
KeptOrMailed == Told!KeptOrMailed /\ Told!OneCopy

\* Nobody gets a message twice, but for sends that raised after they left.
ReachedOnce == Told!ReachedOnce
=============================================================================
