------------------------- MODULE MCReminderPlans -------------------------
EXTENDS ReminderPlans, TLC
CONSTANTS one, two, anna, ben

\* At the first unit of the time to fix remind, at the second hand over if nobody acted; without a time
\* limit nudge every unit unless the work began.
PlanShare == 1 :> 1 @@ 2 :> 2
PlanEvery == 3 :> 1
PlanOnlyIf == 1 :> "always" @@ 2 :> "no_action" @@ 3 :> "not_started"

\* One of the disturbances: a pass cut off, a lock lost, a reopening, or the ticket given to somebody else.
OneDisturbance == ticket.cycle + assigns + stops + lost <= 1
CalmFairSpec == Init /\ [][Next /\ OneDisturbance']_vars /\ \A c \in Copies : WF_vars(Pass(c))

Alike == Permutations(Copies) \cup Permutations(People)
=============================================================================
