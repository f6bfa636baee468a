----------------------------- MODULE MCInTheEnd -----------------------------
(***************************************************************************)
(* The parts of InTheEnd, side by side: a chat gives the turn back, and a  *)
(* case that is late is told of.  A behaviour is one of one of the two,    *)
(* the variables of the other keep their first values, and only its own    *)
(* fairness is assumed of it.                                              *)
(***************************************************************************)
EXTENDS MCConversation, InTheEnd

VARIABLE part

all == <<part, everything>>

\* Two organisations with a case each, the job in one copy of the app.
Desks == <<[org |-> "a", kind |-> "reminder"], [org |-> "b", kind |-> "reminder"]>>
CaseOrgs == "case1" :> "a" @@ "case2" :> "b"
CasePeople == "case1" :> <<"ann", "bo">> @@ "case2" :> <<"bo">>

AllInit ==
  /\ Init /\ Case!Init
  /\ part \in {"chat", "cases"}
  /\ part # "chat" => opened = {}
  /\ part # "cases" => \A o \in DOMAIN config : config[o] = "skipped"

Chatting(A) == part = "chat" /\ part' = part /\ A /\ UNCHANGED ofCases
Reminding(A) == part = "cases" /\ part' = part /\ A /\ UNCHANGED vars

\* Of the faults of the chat, a crash and a turn that outlasts its lease, one or the other.
OneFault == crashes + overstays <= 1

AllNext == Chatting(Next /\ OneFault') \/ Reminding(Case!Next)

\* The fairness of each part, of its own behaviours.
AllFairness ==
  /\ \A m \in Messages : WF_all(Chatting(TakeTurn(m) \/ GiveUp(m))) /\ WF_all(Chatting(Forward(m)))
  /\ WF_all(Chatting(LeaseRunsOut))
  /\ \A c \in Copies : WF_all(Reminding(Case!Working(c)))

AllSpec == AllInit /\ [][AllNext]_all /\ AllFairness
=============================================================================
