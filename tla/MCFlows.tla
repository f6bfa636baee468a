------------------------------ MODULE MCFlows ------------------------------
(***************************************************************************)
(* The parts of Workflows, side by side.  A behaviour is one of one of the *)
(* three, the variables of the others keep their first values.             *)
(***************************************************************************)
EXTENDS MCGatedFlows, Workflows

VARIABLE part

\* Two flows that need a permission in common, one of which may come to run a block; or none yet.
Needing == "check" :> {"close_case"} @@ "run" :> {}
Running == "check" :> {} @@ "run" :> {"tell"}
First == {
  [texts |-> "file" :> "check" @@ "assign" :> "check" @@ "tell" :> None, on |-> {"file", "assign"}],
  [texts |-> "file" :> "check" @@ "assign" :> None @@ "tell" :> "check", on |-> {"tell"}],
  [texts |-> "file" :> None @@ "assign" :> None @@ "tell" :> None, on |-> {}]}
Staffed == "file" :> {"staff"} @@ "assign" :> {"staff"} @@ "tell" :> {}

\* Three requests one at a time, of which one may die half way; or two saves, new flows, switches or deletions
\* at once.  One flow is opened in the editor and put in plain words, and whoever has it open does nothing else.
\* Pages are opened and drafts kept before anything dies, and drafts before two requests meet.
Few ==
  /\ crossed' => /\ requests' <= 2 /\ cuts' = 0
                 /\ \A a \in Admins : request'[a] # None => request'[a].kind \in {"save", "create", "switch", "delete"}
  /\ \A a \in Admins : page'[a] # None => page'[a].flow = "file" /\ request'[a] = None
  /\ request' = request => \A f \in Editable \ {"file"} : row'[f] = row[f]
  /\ request["bo"] = None /\ request'["bo"] # None => request["ann"] # None \/ page["bo"] # None
  /\ requests' = 3 => page'["bo"] = None /\ request'["bo"] = None
  /\ (\E a \in Admins : Edit!Paging(a)) => cuts = 0 /\ (crossed => requests < 2)
  /\ (\E a \in Admins : Edit!KeepDraft(a) \/ Edit!DropDraft(a)) => ~crossed
  /\ (\E a \in Admins : Edit!Close(a)) => requests < 2
  /\ cuts' > 0 => \A f \in Editable : sketch'[f] = 0

\* Two complaints at once, or one ticket: its filing, one or two hand-overs and a fault, two of these beside each other.
Quiet ==
  /\ acting'["resident"] # None => acting'["resident"].flow = "file"
  /\ \A p \in DOMAIN acting \ {"resident"} : acting'[p] # None =>
       IF acting'[p].flow = "file" THEN p = "backup" ELSE acting'[p].new # "resident"
  /\ passes' + plans' > 0 =>
       /\ filings' = 1 /\ unique
       /\ passes' + plans' + breaks' + (IF acting'["resident"] = None THEN 0 ELSE 1) <= 2
  /\ breaks' = 1 => plans' = 0 /\ filings' = 1

FlowsInit ==
  /\ Init /\ Edit!Init /\ Ticket!Init
  /\ part \in {"run", "edit", "ticket"}
  /\ part # "run" => published = <<"book", "approval_gate", "bill">>
  /\ part # "edit" => \A f \in Editable : row[f] = None
  /\ part # "ticket" => unique

FlowsNext ==
  /\ UNCHANGED part
  /\ \/ part = "run"  /\ Next /\ Sparse /\ UNCHANGED <<ofEdited, ofTickets>>
     \/ part = "edit" /\ Edit!Next /\ Few /\ UNCHANGED <<vars, ofTickets>>
     \/ part = "ticket" /\ Ticket!Next /\ Quiet /\ UNCHANGED <<vars, ofEdited>>

FlowsSpec == FlowsInit /\ [][FlowsNext]_<<part, vars, ofEdited, ofTickets>>
=============================================================================
