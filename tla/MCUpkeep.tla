------------------------------ MODULE MCUpkeep ------------------------------
(***************************************************************************)
(* What keeps running beside the chats: a reminder plan that is in the end *)
(* carried out, and the upkeep of the databases.  A behaviour is one of    *)
(* one of the two; the variables of the other keep their first values.     *)
(***************************************************************************)
EXTENDS MCReminderPlans

VARIABLES part, text, recorded, effect, held, run, edits, starts, cuts

ofUpkeep == <<text, recorded, effect, held, run, edits, starts, cuts>>

\* A client database beside the control database; the second core file runs alone.
Housing == <<[tenants |-> {"acme"}, files |-> <<"housing">>]>>
OneEach == [f \in {"login", "align", "index", "fix", "housing"} |-> IF f = "index" THEN 2 ELSE 1]

Upkeep == INSTANCE Migrations WITH
  Runs <- {"ann", "bo"}, Targets <- <<"control", "acme">>, Control <- "control",
  ControlFiles <- <<"login">>, Core <- <<"align", "index", "fix">>, Features <- Housing,
  Statements <- OneEach, Alone <- {"index"},
  MaxEdits <- 1, MaxStarts <- 2, MaxFaults <- 1, lock <- held, faults <- cuts

ASSUME UpkeepGiven == Upkeep!Given

\* An edit or a fault, not both; ann goes through every database and applies, bo through the client's only.
Few ==
  /\ edits' + cuts' <= 1
  /\ run'["ann"] # None => run'["ann"].picked = {"control", "acme"} /\ run'["ann"].apply
  /\ run'["bo"] # None => run'["bo"].picked = {"acme"}

UpkeepInit ==
  /\ Init /\ Upkeep!Init
  /\ part \in {"plan", "upkeep"}
  /\ \A f \in {"login", "align", "index", "housing"} : text[f] = 1
  /\ part # "upkeep" => \A f \in DOMAIN text : text[f] = 1

UpkeepNext ==
  /\ UNCHANGED part
  /\ \/ part = "plan"   /\ Next /\ OneDisturbance' /\ UNCHANGED ofUpkeep
     \/ part = "upkeep" /\ Upkeep!Next /\ Few /\ UNCHANGED vars

UpkeepSpec ==
  /\ UpkeepInit /\ [][UpkeepNext]_<<part, vars, ofUpkeep>>
  /\ \A c \in Copies : WF_<<part, vars, ofUpkeep>>(part = "plan" /\ Pass(c) /\ UNCHANGED <<part, ofUpkeep>>)

\* The table of a database says what was done to it.
Tracked == Upkeep!TypeOK /\ Upkeep!Tracked

\* Files take effect in the order of the plan, and what is recorded is done.
RunInOrder == Upkeep!RunInOrder
=============================================================================
